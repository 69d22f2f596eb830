------------------------- MODULE DriverUsersProofs -------------------------
(***************************************************************************)
(* Opens and closes of the driver that do not overlap, for any number of   *)
(* processes whose ioctl calls interleave in any way; and who reads and    *)
(* writes the file, for any number of files, cores, records and rounds.    *)
(***************************************************************************)
EXTENDS DriverUsers, DriverFile, FiniteSetTheorems, SequenceTheorems, TLAPS

\* One process at a time is inside open or close.
OneInside ==
  /\ \A p, q \in At(Opening \cup Closing) : p = q
  /\ \A p \in Process : pc[p] = "store" => count[p] = opened

\* The process that creates or frees what all share is the only one.
Alone == \A p \in At({"setup", "free"}) : Holding = {p}

\* What is shared is there while somebody may use it, and gone when the last
\* close has only the count left to do.
Served ==
  /\ Using # {} => ipmi_data /\ proc_meminfo_file
  /\ At({"load", "store"}) # {} /\ Using = {} =>
       ~ipmi_data /\ ~proc_meminfo_file /\ ~ipmi_timeout_locked
  /\ At({"setup"}) # {} => ipmi_data
  /\ ReleasedAtLastClose

Inv == TypeOK /\ OneInside /\ CountsOpens /\ Alone /\ Served

-----------------------------------------------------------------------------
LEMMA HoldingFinite == IsFiniteSet(Holding)
<1>1. Holding \subseteq Process
  BY DEF Holding, Using, At
<1> QED
  BY <1>1, ProcessAssumption, FS_Subset

LEMMA TypeStep == TypeOK /\ [Next]_vars => TypeOK'
<1> SUFFICES ASSUME TypeOK, [Next]_vars PROVE TypeOK'
  OBVIOUS
<1> USE DEF TypeOK, shared, timeouts, Go, AfterSet, Opening, Closing, Setting
<1>1. ASSUME NEW p \in Process, OpenAgain(p) PROVE TypeOK'
  BY <1>1 DEF OpenAgain
<1>2. ASSUME NEW p \in Process, OpenFirst(p) PROVE TypeOK'
  BY <1>2 DEF OpenFirst
<1>3. ASSUME NEW p \in Process, OpenSetup(p) PROVE TypeOK'
  BY <1>3, TimeoutAssumption DEF OpenSetup
<1>4. ASSUME NEW p \in Process, CloseTest(p) PROVE TypeOK'
  BY <1>4 DEF CloseTest
<1>5. ASSUME NEW p \in Process, CloseFree(p) PROVE TypeOK'
  BY <1>5 DEF CloseFree
<1>6. ASSUME NEW p \in Process, CloseLoad(p) PROVE TypeOK'
  BY <1>6 DEF CloseLoad
<1>7. ASSUME NEW p \in Process, CloseStore(p) PROVE TypeOK'
  BY <1>7 DEF CloseStore
<1>8. ASSUME NEW p \in Process, Get(p) PROVE TypeOK'
  BY <1>8 DEF Get
<1>9. ASSUME NEW p \in Process, MutexLock(p) PROVE TypeOK'
  BY <1>9 DEF MutexLock
<1>10. ASSUME NEW p \in Process, Set(p) PROVE TypeOK'
  <2>1. ipmi_timeout' \in 1 .. IPMI_MAX_TIMEOUT
    <3>1. new_timeout[p] \in Nat /\ IPMI_MAX_TIMEOUT \in Nat \ {0}
      BY TimeoutAssumption
    <3> QED
      BY <1>10, <3>1 DEF Set, TooLarge
  <2>2. pc' \in [Process -> {"closed", "open", "get"} \cup Opening \cup Closing \cup Setting]
    BY <1>10 DEF Set
  <2>3. ioctl_mutex' \in BOOLEAN
    BY <1>10 DEF Set
  <2> QED
    BY <1>10, <2>1, <2>2, <2>3 DEF Set
<1>11. ASSUME NEW p \in Process, LockTimeout(p) PROVE TypeOK'
  BY <1>11 DEF LockTimeout
<1>12. ASSUME NEW p \in Process, LockSet(p) PROVE TypeOK'
  <2>1. ipmi_timeout' \in 1 .. IPMI_MAX_TIMEOUT
    <3>1. new_timeout[p] \in Nat /\ IPMI_MAX_TIMEOUT \in Nat \ {0}
      BY TimeoutAssumption
    <3> QED
      BY <1>12, <3>1 DEF LockSet, TooLarge
  <2>2. pc' \in [Process -> {"closed", "open", "get"} \cup Opening \cup Closing \cup Setting]
    BY <1>12 DEF LockSet
  <2>3. ioctl_mutex' \in BOOLEAN
    BY <1>12 DEF LockSet
  <2> QED
    BY <1>12, <2>1, <2>2, <2>3 DEF LockSet
<1>13. ASSUME NEW p \in Process, NEW t \in Arg, SetBegin(p, t) PROVE TypeOK'
  BY <1>13, TimeoutAssumption DEF SetBegin
<1>14. ASSUME NEW p \in Process, NEW t \in Arg, LockBegin(p, t) PROVE TypeOK'
  BY <1>14, TimeoutAssumption DEF LockBegin
<1>15. CASE UNCHANGED vars
  BY <1>15 DEF vars
<1> QED
  BY <1>1, <1>2, <1>3, <1>4, <1>5, <1>6, <1>7, <1>8, <1>9,
     <1>10, <1>11, <1>12, <1>13, <1>14, <1>15 DEF Next, Open, Close, Ioctl

LEMMA InsideStep == ASSUME Serial PROVE Inv /\ TypeOK' /\ [Next]_vars => OneInside'
<1> SUFFICES ASSUME TypeOK, OneInside, TypeOK', [Next]_vars PROVE OneInside'
  BY DEF Inv
<1> USE DEF OneInside, MayBegin, At, TypeOK, shared, timeouts, Go, AfterSet, Opening,
        Closing, Setting
<1>1. ASSUME NEW p \in Process, OpenAgain(p) PROVE OneInside'
  BY <1>1 DEF OpenAgain
<1>2. ASSUME NEW p \in Process, OpenFirst(p) PROVE OneInside'
  BY <1>2 DEF OpenFirst
<1>3. ASSUME NEW p \in Process, OpenSetup(p) PROVE OneInside'
  BY <1>3 DEF OpenSetup
<1>4. ASSUME NEW p \in Process, CloseTest(p) PROVE OneInside'
  BY <1>4 DEF CloseTest
<1>5. ASSUME NEW p \in Process, CloseFree(p) PROVE OneInside'
  BY <1>5 DEF CloseFree
<1>6. ASSUME NEW p \in Process, CloseLoad(p) PROVE OneInside'
  BY <1>6 DEF CloseLoad
<1>7. ASSUME NEW p \in Process, CloseStore(p) PROVE OneInside'
  BY <1>7 DEF CloseStore
<1>8. ASSUME NEW p \in Process, Get(p) PROVE OneInside'
  BY <1>8 DEF Get
<1>9. ASSUME NEW p \in Process, MutexLock(p) PROVE OneInside'
  BY <1>9 DEF MutexLock
<1>10. ASSUME NEW p \in Process, Set(p) PROVE OneInside'
  BY <1>10 DEF Set
<1>11. ASSUME NEW p \in Process, LockTimeout(p) PROVE OneInside'
  BY <1>11 DEF LockTimeout
<1>12. ASSUME NEW p \in Process, LockSet(p) PROVE OneInside'
  BY <1>12 DEF LockSet
<1>13. ASSUME NEW p \in Process, NEW t \in Arg, SetBegin(p, t) PROVE OneInside'
  BY <1>13 DEF SetBegin
<1>14. ASSUME NEW p \in Process, NEW t \in Arg, LockBegin(p, t) PROVE OneInside'
  BY <1>14 DEF LockBegin
<1>15. CASE UNCHANGED vars
  BY <1>15 DEF vars
<1> QED
  BY <1>1, <1>2, <1>3, <1>4, <1>5, <1>6, <1>7, <1>8, <1>9,
     <1>10, <1>11, <1>12, <1>13, <1>14, <1>15 DEF Next, Open, Close, Ioctl

LEMMA CountStep == Inv /\ [Next]_vars => CountsOpens'
<1> SUFFICES ASSUME TypeOK, OneInside, CountsOpens, [Next]_vars PROVE CountsOpens'
  BY DEF Inv
<1> USE DEF TypeOK, shared, timeouts, Go, AfterSet, Opening, Closing, Setting
<1>1. ASSUME NEW p \in Process, OpenAgain(p) PROVE CountsOpens'
  <2>1. Holding' = Holding \cup {p} /\ p \notin Holding
    BY <1>1 DEF At, Holding, Using, OpenAgain
  <2>2. Cardinality(Holding') = Cardinality(Holding) + 1
    BY <2>1, HoldingFinite, FS_AddElement
  <2> QED
    BY <1>1, <2>2 DEF CountsOpens, OpenAgain
<1>2. ASSUME NEW p \in Process, OpenFirst(p) PROVE CountsOpens'
  <2>1. Holding' = Holding \cup {p} /\ p \notin Holding
    BY <1>2 DEF At, Holding, Using, OpenFirst
  <2>2. Cardinality(Holding') = Cardinality(Holding) + 1
    BY <2>1, HoldingFinite, FS_AddElement
  <2> QED
    BY <1>2, <2>2 DEF CountsOpens, OpenFirst
<1>3. ASSUME NEW p \in Process, OpenSetup(p) PROVE CountsOpens'
  <2>1. Holding' = Holding
    BY <1>3 DEF At, Holding, Using, OpenSetup
  <2> QED
    BY <1>3, <2>1 DEF CountsOpens, OpenSetup
<1>4. ASSUME NEW p \in Process, CloseTest(p) PROVE CountsOpens'
  <2>1. Holding' = Holding
    BY <1>4 DEF At, Holding, Using, CloseTest
  <2> QED
    BY <1>4, <2>1 DEF CountsOpens, CloseTest
<1>5. ASSUME NEW p \in Process, CloseFree(p) PROVE CountsOpens'
  <2>1. Holding' = Holding
    BY <1>5 DEF At, Holding, Using, CloseFree
  <2> QED
    BY <1>5, <2>1 DEF CountsOpens, CloseFree
<1>6. ASSUME NEW p \in Process, CloseLoad(p) PROVE CountsOpens'
  <2>1. Holding' = Holding
    BY <1>6 DEF At, Holding, Using, CloseLoad
  <2> QED
    BY <1>6, <2>1 DEF CountsOpens, CloseLoad
<1>7. ASSUME NEW p \in Process, CloseStore(p) PROVE CountsOpens'
  <2>1. Holding' = Holding \ {p} /\ p \in Holding
    BY <1>7 DEF At, Holding, Using, CloseStore
  <2>2. Cardinality(Holding') = Cardinality(Holding) - 1
    BY <2>1, HoldingFinite, FS_RemoveElement
  <2> QED
    BY <1>7, <2>2 DEF CountsOpens, OneInside, CloseStore
<1>8. ASSUME NEW p \in Process, Get(p) PROVE CountsOpens'
  <2>1. Holding' = Holding
    BY <1>8 DEF At, Holding, Using, Get
  <2> QED
    BY <1>8, <2>1 DEF CountsOpens, Get
<1>9. ASSUME NEW p \in Process, MutexLock(p) PROVE CountsOpens'
  <2>1. Holding' = Holding
    BY <1>9 DEF At, Holding, Using, MutexLock
  <2> QED
    BY <1>9, <2>1 DEF CountsOpens, MutexLock
<1>10. ASSUME NEW p \in Process, Set(p) PROVE CountsOpens'
  <2>1. Holding' = Holding
    BY <1>10 DEF At, Holding, Using, Set
  <2> QED
    BY <1>10, <2>1 DEF CountsOpens, Set
<1>11. ASSUME NEW p \in Process, LockTimeout(p) PROVE CountsOpens'
  <2>1. Holding' = Holding
    BY <1>11 DEF At, Holding, Using, LockTimeout
  <2> QED
    BY <1>11, <2>1 DEF CountsOpens, LockTimeout
<1>12. ASSUME NEW p \in Process, LockSet(p) PROVE CountsOpens'
  <2>1. Holding' = Holding
    BY <1>12 DEF At, Holding, Using, LockSet
  <2> QED
    BY <1>12, <2>1 DEF CountsOpens, LockSet
<1>13. ASSUME NEW p \in Process, NEW t \in Arg, SetBegin(p, t) PROVE CountsOpens'
  <2>1. Holding' = Holding
    BY <1>13 DEF At, Holding, Using, SetBegin
  <2> QED
    BY <1>13, <2>1 DEF CountsOpens, SetBegin
<1>14. ASSUME NEW p \in Process, NEW t \in Arg, LockBegin(p, t) PROVE CountsOpens'
  <2>1. Holding' = Holding
    BY <1>14 DEF At, Holding, Using, LockBegin
  <2> QED
    BY <1>14, <2>1 DEF CountsOpens, LockBegin
<1>15. CASE UNCHANGED vars
  <2>1. Holding' = Holding
    BY <1>15 DEF At, Holding, Using, vars
  <2> QED
    BY <1>15, <2>1 DEF CountsOpens, vars
<1> QED
  BY <1>1, <1>2, <1>3, <1>4, <1>5, <1>6, <1>7, <1>8, <1>9,
     <1>10, <1>11, <1>12, <1>13, <1>14, <1>15 DEF Next, Open, Close, Ioctl


LEMMA OneOrNone ==
  ASSUME NEW S, NEW x \in S, IsFiniteSet(S), Cardinality(S) <= 1
  PROVE  S = {x}
<1>1. Cardinality(S) \in Nat /\ Cardinality(S) # 0
  BY FS_CardinalityType, FS_EmptySet
<1>2. Cardinality(S) = 1
  BY <1>1
<1> QED
  BY <1>2, FS_Singleton

LEMMA AloneStep == ASSUME Serial PROVE Inv /\ [Next]_vars => Alone'
<1> SUFFICES ASSUME TypeOK, OneInside, CountsOpens, Alone, [Next]_vars PROVE Alone'
  BY DEF Inv
<1> USE DEF TypeOK, At, Go, Opening, Closing, shared, timeouts, AfterSet, Holding,
        Using, Setting
<1>1. ASSUME NEW p \in Process, OpenAgain(p) PROVE Alone'
  <2>1. At({"setup", "free"})' = {}
    BY <1>1 DEF MayBegin, OpenAgain
  <2> QED
    BY <2>1 DEF Alone
<1>2. ASSUME NEW p \in Process, OpenFirst(p) PROVE Alone'
  <2>1. Holding = {}
    BY <1>2, HoldingFinite, FS_EmptySet DEF CountsOpens, OpenFirst
  <2>2. Holding' = {p}
    BY <1>2, <2>1 DEF OpenFirst
  <2>3. At({"setup", "free"})' \subseteq {p}
    BY <1>2 DEF MayBegin, OpenFirst
  <2> QED
    BY <2>2, <2>3 DEF Alone
<1>3. ASSUME NEW p \in Process, OpenSetup(p) PROVE Alone'
  <2>1. Holding' = Holding /\ At({"setup", "free"})' \subseteq At({"setup", "free"})
    BY <1>3 DEF OpenSetup
  <2> QED
    BY <2>1 DEF Alone
<1>4. ASSUME NEW p \in Process, CloseTest(p) PROVE Alone'
  <2>1. Holding' = Holding /\ p \in Holding
    BY <1>4 DEF CloseTest
  <2>2. At({"setup", "free"})' = IF opened <= 1 THEN {p} ELSE {}
    BY <1>4 DEF MayBegin, CloseTest
  <2>3. ASSUME opened <= 1 PROVE Holding = {p}
    BY <2>1, <2>3, HoldingFinite, OneOrNone DEF CountsOpens
  <2> QED
    BY <2>1, <2>2, <2>3 DEF Alone
<1>5. ASSUME NEW p \in Process, CloseFree(p) PROVE Alone'
  <2>1. Holding' = Holding /\ At({"setup", "free"})' \subseteq At({"setup", "free"})
    BY <1>5 DEF CloseFree
  <2> QED
    BY <2>1 DEF Alone
<1>6. ASSUME NEW p \in Process, CloseLoad(p) PROVE Alone'
  <2>1. Holding' = Holding /\ At({"setup", "free"})' \subseteq At({"setup", "free"})
    BY <1>6 DEF CloseLoad
  <2> QED
    BY <2>1 DEF Alone
<1>7. ASSUME NEW p \in Process, CloseStore(p) PROVE Alone'
  <2>1. At({"setup", "free"})' = {}
    BY <1>7 DEF OneInside, CloseStore
  <2> QED
    BY <2>1 DEF Alone
<1>8. ASSUME NEW p \in Process, Get(p) PROVE Alone'
  <2>1. Holding' = Holding /\ At({"setup", "free"})' \subseteq At({"setup", "free"})
    BY <1>8 DEF Get
  <2> QED
    BY <2>1 DEF Alone
<1>9. ASSUME NEW p \in Process, MutexLock(p) PROVE Alone'
  <2>1. Holding' = Holding /\ At({"setup", "free"})' \subseteq At({"setup", "free"})
    BY <1>9 DEF MutexLock
  <2> QED
    BY <2>1 DEF Alone
<1>10. ASSUME NEW p \in Process, Set(p) PROVE Alone'
  <2>1. Holding' = Holding /\ At({"setup", "free"})' \subseteq At({"setup", "free"})
    BY <1>10 DEF Set
  <2> QED
    BY <2>1 DEF Alone
<1>11. ASSUME NEW p \in Process, LockTimeout(p) PROVE Alone'
  <2>1. Holding' = Holding /\ At({"setup", "free"})' \subseteq At({"setup", "free"})
    BY <1>11 DEF LockTimeout
  <2> QED
    BY <2>1 DEF Alone
<1>12. ASSUME NEW p \in Process, LockSet(p) PROVE Alone'
  <2>1. Holding' = Holding /\ At({"setup", "free"})' \subseteq At({"setup", "free"})
    BY <1>12 DEF LockSet
  <2> QED
    BY <2>1 DEF Alone
<1>13. ASSUME NEW p \in Process, NEW t \in Arg, SetBegin(p, t) PROVE Alone'
  <2>1. Holding' = Holding /\ At({"setup", "free"})' \subseteq At({"setup", "free"})
    BY <1>13 DEF SetBegin
  <2> QED
    BY <2>1 DEF Alone
<1>14. ASSUME NEW p \in Process, NEW t \in Arg, LockBegin(p, t) PROVE Alone'
  <2>1. Holding' = Holding /\ At({"setup", "free"})' \subseteq At({"setup", "free"})
    BY <1>14 DEF LockBegin
  <2> QED
    BY <2>1 DEF Alone
<1>15. CASE UNCHANGED vars
  BY <1>15 DEF vars, Alone
<1> QED
  BY <1>1, <1>2, <1>3, <1>4, <1>5, <1>6, <1>7, <1>8, <1>9,
     <1>10, <1>11, <1>12, <1>13, <1>14, <1>15 DEF Next, Open, Close, Ioctl

LEMMA ServedStep == ASSUME Serial PROVE Inv /\ [Next]_vars => Served'
<1> SUFFICES ASSUME TypeOK, OneInside, CountsOpens, Alone, Served, [Next]_vars PROVE Served'
  BY DEF Inv
<1> USE DEF MayBegin, Holding, At, Served, ReleasedAtLastClose, TypeOK, shared,
        timeouts, Go, AfterSet, Using, Opening, Closing, Setting, OneInside, Alone
<1>1. ASSUME NEW p \in Process, OpenAgain(p) PROVE Served'
  <2>1. Holding # {} /\ At(Opening \cup Closing) = {}
    BY <1>1, HoldingFinite, FS_EmptySet DEF CountsOpens, OpenAgain
  <2>2. Using # {}
    BY <2>1
  <2> QED
    BY <1>1, <2>2 DEF OpenAgain
<1>2. ASSUME NEW p \in Process, OpenFirst(p) PROVE Served'
  BY <1>2 DEF OpenFirst
<1>3. ASSUME NEW p \in Process, OpenSetup(p) PROVE Served'
  BY <1>3 DEF OpenSetup
<1>4. ASSUME NEW p \in Process, CloseTest(p) PROVE Served'
  <2>1. At(Opening \cup Closing) = {}
    BY <1>4 DEF CloseTest
  <2>2. ASSUME opened > 1 PROVE Using' # {}
    <3>1. Holding # {p}
      BY <2>2, FS_Singleton DEF CountsOpens
    <3>2. PICK q \in Holding : q # p
      BY <1>4, <3>1 DEF CloseTest
    <3>3. q \in Using'
      BY <1>4, <2>1, <3>2 DEF CloseTest
    <3> QED
      BY <3>3
  <2>3. ASSUME ~(opened > 1) PROVE At({"load", "store"})' = {}
    BY <1>4, <2>1, <2>3 DEF CloseTest
  <2>4. ipmi_data /\ proc_meminfo_file /\ p \in Holding' /\ At({"setup"})' = {}
    BY <1>4, <2>1 DEF CloseTest
  <2>5. ipmi_data' = ipmi_data /\ proc_meminfo_file' = proc_meminfo_file
    BY <1>4 DEF CloseTest
  <2> QED
    BY <2>2, <2>3, <2>4, <2>5
<1>5. ASSUME NEW p \in Process, CloseFree(p) PROVE Served'
  BY <1>5 DEF CloseFree
<1>6. ASSUME NEW p \in Process, CloseLoad(p) PROVE Served'
  BY <1>6 DEF CloseLoad
<1>7. ASSUME NEW p \in Process, CloseStore(p) PROVE Served'
  BY <1>7 DEF CloseStore
<1>8. ASSUME NEW p \in Process, Get(p) PROVE Served'
  BY <1>8 DEF Get
<1>9. ASSUME NEW p \in Process, MutexLock(p) PROVE Served'
  BY <1>9 DEF MutexLock
<1>10. ASSUME NEW p \in Process, Set(p) PROVE Served'
  BY <1>10 DEF Set
<1>11. ASSUME NEW p \in Process, LockTimeout(p) PROVE Served'
  BY <1>11 DEF LockTimeout
<1>12. ASSUME NEW p \in Process, LockSet(p) PROVE Served'
  BY <1>12 DEF LockSet
<1>13. ASSUME NEW p \in Process, NEW t \in Arg, SetBegin(p, t) PROVE Served'
  BY <1>13 DEF SetBegin
<1>14. ASSUME NEW p \in Process, NEW t \in Arg, LockBegin(p, t) PROVE Served'
  BY <1>14 DEF LockBegin
<1>15. CASE UNCHANGED vars
  BY <1>15 DEF vars
<1> QED
  BY <1>1, <1>2, <1>3, <1>4, <1>5, <1>6, <1>7, <1>8, <1>9,
     <1>10, <1>11, <1>12, <1>13, <1>14, <1>15 DEF Next, Open, Close, Ioctl

LEMMA InitInv == Init => Inv
<1> SUFFICES ASSUME Init PROVE Inv
  OBVIOUS
<1>1. Holding = {} /\ Using = {} /\ \A S : "closed" \notin S => At(S) = {}
  BY DEF Init, Holding, Using, At, Opening, Closing, Setting
<1>2. TypeOK
  <2>1. IPMI_MAX_TIMEOUT \in 1 .. IPMI_MAX_TIMEOUT
    BY TimeoutAssumption
  <2>2. pc \in [Process -> {"closed", "open", "get"} \cup Opening \cup Closing \cup Setting]
    BY DEF Init
  <2>3. new_timeout \in [Process -> Nat] /\ count \in [Process -> Int]
    BY DEF Init
  <2>4. opened \in Int
    BY DEF Init
  <2>5. ipmi_data \in BOOLEAN /\ proc_meminfo_file \in BOOLEAN
    BY DEF Init
  <2>6. ipmi_timeout_locked \in BOOLEAN /\ ioctl_mutex \in BOOLEAN
    BY DEF Init
  <2>7. ipmi_timeout = IPMI_MAX_TIMEOUT
    BY DEF Init
  <2> QED
    BY <2>1, <2>2, <2>3, <2>4, <2>5, <2>6, <2>7 DEF TypeOK
<1>3. CountsOpens
  BY <1>1, FS_EmptySet DEF Init, CountsOpens
<1>4. OneInside /\ Alone /\ Served
  BY <1>1 DEF Init, OneInside, Alone, Served, ReleasedAtLastClose, Opening, Closing, Setting
<1> QED
  BY <1>2, <1>3, <1>4 DEF Inv

LEMMA InvStep == ASSUME Serial PROVE Inv /\ [Next]_vars => Inv'
  BY TypeStep, InsideStep, CountStep, AloneStep, ServedStep DEF Inv

-----------------------------------------------------------------------------
\* No timeout that is zero or too large is ever set, and every variable keeps
\* its type, however opens, closes and ioctl calls overlap.
THEOREM TypeCorrect == Spec => []TypeOK
<1>1. Init => TypeOK
  BY InitInv DEF Inv
<1> QED
  BY <1>1, TypeStep, PTL DEF Spec

\* If opens and closes do not overlap the driver counts its users.
THEOREM OpensCounted == ASSUME Serial PROVE Spec => []CountsOpens
<1>1. Inv => CountsOpens
  BY DEF Inv
<1> QED
  BY InitInv, InvStep, <1>1, PTL DEF Spec

\* If opens and closes do not overlap no user finds the shared structures
\* gone, whoever else has closed the device before.
THEOREM AllUsersServed == ASSUME Serial PROVE Spec => []UsersServed
<1>1. Inv => UsersServed
  BY DEF Inv, Served, UsersServed
<1> QED
  BY InitInv, InvStep, <1>1, PTL DEF Spec

\* If opens and closes do not overlap the last close releases everything, the
\* lock of the timeout too.
THEOREM LastCloseReleases == ASSUME Serial PROVE Spec => []ReleasedAtLastClose
<1>1. Inv => ReleasedAtLastClose
  BY DEF Inv, Served
<1> QED
  BY InitInv, InvStep, <1>1, PTL DEF Spec

\* If opens and closes do not overlap the shared structures are there exactly
\* as long as somebody uses the device.
THEOREM SharedMatchesOpens == ASSUME Serial PROVE Spec => []SharedWhileOpen
<1>1. Inv => SharedWhileOpen
  BY DEF Inv, Served, UsersServed, SharedWhileOpen
<1> QED
  BY InitInv, InvStep, <1>1, PTL DEF Spec

-----------------------------------------------------------------------------
(***************************************************************************)
(* Reading and writing the file, for any number of files, cores and        *)
(* records.  These are the requests of who reads registers, statistics and *)
(* memory, and those of the IPMI wrapper.                                  *)
(***************************************************************************)

CpuRequest ==
  {Reg(c, r) : c \in Core, r \in Readable} \cup {ResetReg(c, r) : c \in Core, r \in PerfCounter}
    \cup {Utilization, MemInfo}

SysRequest ==
  {GetSDR(r) : r \in DOMAIN Sensor} \cup {ResetEnergy, CumulativeEnergy, CurrentPower}

Sensors == {Sensor[r] : r \in DOMAIN Sensor}
SensorRequest == {GetSensor(r, s) : r \in DOMAIN Sensor, s \in Sensors}

Names ==
  Readable \cup {"stats", "memory", "sdr", "sensor", "reset", "cumulative", "power",
                "garbage", "refused"}
Values ==
  [name : Names, of : Core \cup DOMAIN Sensor \cup Sensors \cup {0, AllCores}]

\* A sensor is asked for next: that of the record, unless there was garbage.
SensorNext(f) ==
  /\ todo[f] # <<>> /\ Tail(todo[f]) \in Seq(SysRequest)
  /\ \E r \in DOMAIN Sensor, s \in Sensors :
       Head(todo[f]) = GetSensor(r, s) /\ (s = Sensor[r] \/ misled[f])

\* A file stands where its next request has put it.
RequestsOf(f) ==
  /\ f \in CpuFile => todo[f] \in Seq(CpuRequest)
  /\ f \in IpmiFile => todo[f] \in Seq(SysRequest) \/ SensorNext(f)
  /\ sought[f] => todo[f] # <<>> /\ f_pos[f] = Head(todo[f]).pos
  /\ state[f] = "closed" => todo[f] = <<>>

FileTypes ==
  /\ DOMAIN todo = File /\ todo = [f \in File |-> todo[f]]
  /\ DOMAIN f_pos = File /\ f_pos = [f \in File |-> f_pos[f]]
  /\ sought \in [File -> BOOLEAN] /\ misled \in [File -> BOOLEAN]
  /\ state \in [File -> {"closed", "init", "run", "dead", "refused"}]
  /\ DOMAIN got = File /\ got = [f \in File |-> got[f]]

\* Since a core was read undisturbed its counter has gone on by what it worked.
CountersInv ==
  /\ counter \in [Core -> [PerfCounter -> Int]] /\ worked \in [Core -> [PerfCounter -> Int]]
  /\ temp \in [CpuFile -> [Core -> [PerfCounter ->
                [value : Int, worked : Int, disturbed : BOOLEAN]]]]
  /\ distance \in [CpuFile -> [found : Int, worked : Int]]
  /\ \A f \in CpuFile, c \in Core, r \in PerfCounter :
       ~temp[f][c][r].disturbed =>
         /\ temp[f][c][r].value <= counter[c][r]
         /\ counter[c][r] - temp[f][c][r].value = worked[c][r] - temp[f][c][r].worked

FileInv == FileTypes /\ (\A f \in File : RequestsOf(f)) /\ CountersInv /\ ReadingsRight

\* A request for a register or for the statistics is delivered as wanted.
LEMMA CpuDelivered ==
  ASSUME NEW q \in CpuRequest
  PROVE  /\ q.pos.whence \in Whence /\ q.want \in Values /\ q.want # Refused
         /\ q.op = "read" => Delivered(q.pos, q.size) = q.want
         /\ q.want.name \in PerfCounter => q.want.of \in Core
         /\ q.op = "write" => /\ check_msr_off(q.pos) /\ q.pos.reg \in PerfCounter
                              /\ q.pos.core \in Core
<1> USE CoresAssumption, MemInfoAssumption
<1> USE DEF Request, Value, Position, Values, Refused, PerfCounter, Core, AllCores
<1>1. ASSUME NEW c \in Core, NEW r \in Readable
      PROVE  /\ check_msr_off(Position("msr", c, r))
             /\ Delivered(Position("msr", c, r), RegSize) = Value(r, c)
             /\ r \in Names /\ r # "refused"
  <2>1. r \in Names /\ r # "refused"
    BY DEF Readable, Names
  <2>2. check_msr_off(Position("msr", c, r)) /\ ~check_cpu_stat_off(Position("msr", c, r))
    BY DEF check_msr_off, check_cpu_stat_off
  <2>3. Position("msr", c, r).reg = r /\ Position("msr", c, r).core = c
    OBVIOUS
  <2>4. Delivered(Position("msr", c, r), RegSize) = Value(r, c)
    BY <2>2, <2>3 DEF Delivered, RegSize
  <2>5. QED
    BY <2>1, <2>2, <2>4
<1>2. CASE q \in {Reg(c, r) : c \in Core, r \in Readable}
  <2>1. PICK c \in Core, r \in Readable : q = Reg(c, r)
    BY <1>2
  <2>2. /\ q.op = "read" /\ q.want = Value(r, c) /\ q.size = RegSize
        /\ q.pos = Position("msr", c, r)
    BY <2>1 DEF Reg
  <2>3. QED
    BY <1>1, <2>2 DEF Whence
<1>3. CASE q \in {ResetReg(c, r) : c \in Core, r \in PerfCounter}
  <2>1. PICK c \in Core, r \in PerfCounter : q = ResetReg(c, r)
    BY <1>3
  <2>2. q.op = "write" /\ q.want = Value(r, c) /\ q.pos = Position("msr", c, r)
    BY <2>1 DEF ResetReg, Reg
  <2>3. r \in Readable
    BY DEF Readable
  <2>4. QED
    BY <1>1, <2>2, <2>3 DEF Whence
<1>4. CASE q = Utilization
  <2>1. /\ q.op = "read" /\ q.want = Value("stats", AllCores) /\ q.size = StatsSize
        /\ q.pos = Position("stats", NUM_OF_CORES, 0)
    BY <1>4 DEF Utilization
  <2>2. Delivered(q.pos, q.size) = q.want
    BY <2>1 DEF Delivered, check_cpu_stat_off, CpuStats
  <2>3. /\ q.want \in Values /\ q.want # Refused /\ q.want.name = "stats"
        /\ q.pos.whence = "stats"
    BY <2>1 DEF Names
  <2>4. QED
    BY <2>1, <2>2, <2>3 DEF Whence
<1>5. CASE q = MemInfo
  <2>1. /\ q.op = "read" /\ q.want = Value("memory", 0) /\ q.size = MemSize
        /\ q.pos = Position(cpu_meminfo, IF LSEEK_MAX_2 THEN MEMINFO ELSE 0, 0)
    BY <1>5 DEF MemInfo
  <2>2. Delivered(q.pos, q.size) = q.want
    BY <2>1 DEF Delivered, check_cpu_stat_off, check_msr_off, check_ipmi_offset,
      check_mem_info_offset, cpu_meminfo, MemSize, StatsSize
  <2>3. /\ q.want \in Values /\ q.want # Refused /\ q.want.name = "memory"
        /\ q.pos.whence = cpu_meminfo
    BY <2>1 DEF Names
  <2>4. QED
    BY <2>1, <2>2, <2>3 DEF Whence
<1>6. QED
  BY <1>2, <1>3, <1>4, <1>5 DEF CpuRequest

\* The BMC is asked for what the wrapper wants, and for the sensor it names.
LEMMA SysDelivered ==
  /\ \A q \in SysRequest :
       /\ q.op = "read" /\ q.pos.whence \in Whence /\ q.want \in Values /\ q.want # Refused
       /\ Delivered(q.pos, q.size) = q.want
       /\ q.want.name # "sensor"
       /\ q.want.name = "sdr" => q.want.of \in DOMAIN Sensor
  /\ \A r \in DOMAIN Sensor, s \in Sensors :
       /\ GetSensor(r, s).op = "read" /\ GetSensor(r, s).pos.whence \in Whence
       /\ GetSensor(r, s).want = Value("sensor", Sensor[r])
       /\ Delivered(GetSensor(r, s).pos, GetSensor(r, s).size) = Value("sensor", s)
<1> USE MemInfoAssumption DEF Value, Position
<1>1. ASSUME NEW cmd \in 0 .. 4, NEW id, NEW name
      PROVE  /\ Command(cmd, name, id).op = "read" /\ Command(cmd, name, id).pos.whence \in Whence
             /\ Command(cmd, name, id).want = Value(name, id)
             /\ Delivered(Command(cmd, name, id).pos, Command(cmd, name, id).size)
                  = IpmiMessage(Position("ipmi", cmd, id))
  BY DEF Command, Request, Whence, Delivered, check_cpu_stat_off, check_msr_off,
    check_ipmi_offset
<1>2. /\ \A id : IpmiMessage(Position("ipmi", 0, id)) = Value("sdr", id)
      /\ \A id : IpmiMessage(Position("ipmi", 1, id)) = Value("sensor", id)
      /\ \A id : IpmiMessage(Position("ipmi", 2, id)) = Value("reset", id)
      /\ \A id : IpmiMessage(Position("ipmi", 3, id)) = Value("cumulative", id)
      /\ \A id : IpmiMessage(Position("ipmi", 4, id)) = Value("power", id)
  BY DEF IpmiMessage
<1>3. ASSUME NEW r \in DOMAIN Sensor, NEW s \in Sensors
      PROVE  /\ GetSensor(r, s).op = "read" /\ GetSensor(r, s).pos.whence \in Whence
             /\ GetSensor(r, s).want = Value("sensor", Sensor[r])
             /\ Delivered(GetSensor(r, s).pos, GetSensor(r, s).size) = Value("sensor", s)
  <2>1. /\ GetSensor(r, s).op = Command(1, "sensor", s).op
        /\ GetSensor(r, s).pos = Command(1, "sensor", s).pos
        /\ GetSensor(r, s).size = Command(1, "sensor", s).size
        /\ GetSensor(r, s).want = Value("sensor", Sensor[r])
    BY DEF GetSensor, Command, Request
  <2>2. /\ Command(1, "sensor", s).op = "read" /\ Command(1, "sensor", s).pos.whence \in Whence
        /\ Delivered(Command(1, "sensor", s).pos, Command(1, "sensor", s).size)
             = IpmiMessage(Position("ipmi", 1, s))
    BY DEF Command, Request, Whence, Delivered, check_cpu_stat_off, check_msr_off,
      check_ipmi_offset
  <2>3. IpmiMessage(Position("ipmi", 1, s)) = Value("sensor", s)
    BY <1>2
  <2>4. QED
    BY <2>1, <2>2, <2>3
<1>4. ASSUME NEW q \in SysRequest
      PROVE  /\ q.op = "read" /\ q.pos.whence \in Whence /\ q.want \in Values /\ q.want # Refused
             /\ Delivered(q.pos, q.size) = q.want
             /\ q.want.name # "sensor"
             /\ q.want.name = "sdr" => q.want.of \in DOMAIN Sensor
  <2>1. PICK cmd \in 0 .. 4, name \in {"sdr", "reset", "cumulative", "power"},
             id \in DOMAIN Sensor \cup {0} :
          /\ q = Command(cmd, name, id)
          /\ IpmiMessage(Position("ipmi", cmd, id)) = Value(name, id)
          /\ name = "sdr" => id \in DOMAIN Sensor
    BY <1>2 DEF SysRequest, GetSDR, ResetEnergy, CumulativeEnergy, CurrentPower
  <2>2. q.want = Value(name, id)
    BY <1>1, <2>1
  <2>3. q.want.name = name /\ q.want.of = id
    BY <2>2
  <2>4. name \in Names /\ name # "refused" /\ name # "sensor"
    BY DEF Names
  <2>5. q.want \in Values
    BY <2>2, <2>4 DEF Values
  <2>6. q.want # Refused
    BY <2>3, <2>4 DEF Refused
  <2>7. QED
    BY <1>1, <2>1, <2>2, <2>3, <2>4, <2>5, <2>6
<1>5. QED
  BY <1>3, <1>4

\* A request in front of others.
LEMMA Front ==
  ASSUME NEW S, NEW e, NEW rest \in Seq(S)
  PROVE  /\ <<e>> \o rest # <<>> /\ Head(<<e>> \o rest) = e /\ Tail(<<e>> \o rest) = rest
         /\ e \in S => <<e>> \o rest \in Seq(S)
<1> DEFINE T == S \cup {e}
<1>1. <<e>> \in Seq(T) /\ rest \in Seq(T) /\ Len(<<e>>) = 1 /\ <<e>>[1] = e
  OBVIOUS
<1>2. PICK s : s = <<e>> \o rest
  OBVIOUS
<1>3. /\ s \in Seq(T) /\ Len(s) = 1 + Len(rest)
      /\ \A i \in 1 .. 1 + Len(rest) : s[i] = IF i <= 1 THEN <<e>>[i] ELSE rest[i - 1]
  BY <1>1, <1>2, ConcatProperties
<1>4. Len(rest) \in Nat /\ s # <<>> /\ s[1] = e /\ Head(s) = e
  BY <1>1, <1>3
<1>5. Tail(s) \in Seq(T) /\ Len(Tail(s)) = Len(rest)
      /\ \A i \in 1 .. Len(Tail(s)) : Tail(s)[i] = s[i + 1]
  BY <1>3, <1>4, HeadTailProperties
<1>6. \A i \in 1 .. Len(rest) : s[i + 1] = rest[i]
  BY <1>3, <1>4
<1>7. Tail(s) = rest
  <2>1. \A i \in 1 .. Len(Tail(s)) : Tail(s)[i] = rest[i]
    BY <1>5, <1>6
  <2>2. QED
    BY <2>1, <1>1, <1>5, SeqEqual
<1>8. e \in S => s \in Seq(S)
  <2>1. e \in S => T = S
    OBVIOUS
  <2>2. QED
    BY <2>1, <1>3
<1>9. QED
  BY <1>2, <1>4, <1>7, <1>8

\* The requests of each user are requests of its kind.
LEMMA RequestsFit ==
  /\ MsrInitRequests \in Seq(CpuRequest) /\ MsrRoundRequests \in Seq(CpuRequest)
  /\ IpmiInitRequests \in Seq(SysRequest) /\ IpmiRoundRequests \in Seq(SysRequest)
<1> USE CoresAssumption
<1>1. \A k \in 1 .. 2 * NUM_OF_CORES :
        /\ (k - 1) \div 2 \in Core
        /\ (IF k % 2 = 1 THEN "aperf" ELSE "mperf") \in PerfCounter
  BY DEF Core, PerfCounter
<1>2. \A c \in Core, r \in PerfCounter :
        Reg(c, r) \in CpuRequest /\ ResetReg(c, r) \in CpuRequest
  BY DEF CpuRequest, Readable
<1>3. ForCores(ResetReg) \in Seq(CpuRequest)
  <2>1. \A k \in 1 .. 2 * NUM_OF_CORES :
          ResetReg((k - 1) \div 2, IF k % 2 = 1 THEN "aperf" ELSE "mperf") \in CpuRequest
    BY <1>1, <1>2, Zenon
  <2>2. 2 * NUM_OF_CORES \in Nat
    OBVIOUS
  <2>3. [k \in 1 .. 2 * NUM_OF_CORES |->
           ResetReg((k - 1) \div 2, IF k % 2 = 1 THEN "aperf" ELSE "mperf")] \in Seq(CpuRequest)
    BY <2>1, <2>2
  <2>4. QED
    BY <2>3 DEF ForCores
<1>4. ForCores(Reg) \in Seq(CpuRequest)
  <2>1. \A k \in 1 .. 2 * NUM_OF_CORES :
          Reg((k - 1) \div 2, IF k % 2 = 1 THEN "aperf" ELSE "mperf") \in CpuRequest
    BY <1>1, <1>2, Zenon
  <2>2. 2 * NUM_OF_CORES \in Nat
    OBVIOUS
  <2>3. [k \in 1 .. 2 * NUM_OF_CORES |->
           Reg((k - 1) \div 2, IF k % 2 = 1 THEN "aperf" ELSE "mperf")] \in Seq(CpuRequest)
    BY <2>1, <2>2
  <2>4. QED
    BY <2>3 DEF ForCores
<1>5. /\ Reg(0, "unit") \in CpuRequest /\ Reg(1, "unit") \in CpuRequest
      /\ Reg(0, "energy") \in CpuRequest /\ Utilization \in CpuRequest /\ MemInfo \in CpuRequest
  <2>1. 0 \in Core /\ 1 \in Core /\ "unit" \in Readable /\ "energy" \in Readable
    BY DEF Core, Readable
  <2>2. QED
    BY <2>1 DEF CpuRequest
<1>6. /\ <<Reg(0, "unit"), Reg(1, "unit")>> \in Seq(CpuRequest)
      /\ <<Reg(0, "energy")>> \in Seq(CpuRequest) /\ <<Utilization, MemInfo>> \in Seq(CpuRequest)
  BY <1>5
<1>7. MsrInitRequests \in Seq(CpuRequest)
  BY <1>3, <1>6, ConcatProperties DEF MsrInitRequests
<1>8. MsrRoundRequests \in Seq(CpuRequest)
  <2>1. <<Reg(0, "energy")>> \o ForCores(Reg) \in Seq(CpuRequest)
    BY <1>4, <1>6, ConcatProperties
  <2>2. QED
    BY <2>1, <1>6, ConcatProperties DEF MsrRoundRequests
<1>9. RecordRequests \in Seq(SysRequest)
  <2>1. Len(Records) \in Nat /\ \A k \in 1 .. Len(Records) : Records[k] \in DOMAIN Sensor
    BY RecordsAssumption
  <2>2. \A k \in 1 .. Len(Records) : GetSDR(Records[k]) \in SysRequest
    BY <2>1 DEF SysRequest
  <2>3. QED
    BY <2>1, <2>2 DEF RecordRequests
<1>10. /\ <<ResetEnergy>> \in Seq(SysRequest)
       /\ <<CumulativeEnergy, CurrentPower>> \in Seq(SysRequest)
  <2>1. ResetEnergy \in SysRequest /\ CumulativeEnergy \in SysRequest /\ CurrentPower \in SysRequest
    BY DEF SysRequest
  <2>2. QED
    BY <2>1
<1>11. QED
  BY <1>7, <1>8, <1>9, <1>10, ConcatProperties DEF IpmiInitRequests, IpmiRoundRequests

\* What is at the front is a request of the file's user.
LEMMA FrontFits ==
  ASSUME NEW f \in File, RequestsOf(f), todo[f] # <<>>
  PROVE  /\ f \in CpuFile => Head(todo[f]) \in CpuRequest /\ Tail(todo[f]) \in Seq(CpuRequest)
         /\ f \in IpmiFile =>
              /\ Tail(todo[f]) \in Seq(SysRequest)
              /\ \/ Head(todo[f]) \in SysRequest
                 \/ \E r \in DOMAIN Sensor, s \in Sensors :
                      Head(todo[f]) = GetSensor(r, s) /\ (s = Sensor[r] \/ misled[f])
         /\ Head(todo[f]).pos.whence \in Whence
<1>1. f \in CpuFile => Head(todo[f]) \in CpuRequest /\ Tail(todo[f]) \in Seq(CpuRequest)
  BY HeadTailProperties DEF RequestsOf
<1>2. f \in IpmiFile /\ todo[f] \in Seq(SysRequest) =>
        Head(todo[f]) \in SysRequest /\ Tail(todo[f]) \in Seq(SysRequest)
  BY HeadTailProperties
<1>3. f \in IpmiFile /\ ~(todo[f] \in Seq(SysRequest)) => SensorNext(f)
  BY DEF RequestsOf
<1>4. f \in CpuFile => Head(todo[f]).pos.whence \in Whence
  BY <1>1, CpuDelivered
<1>5. Head(todo[f]) \in SysRequest => Head(todo[f]).pos.whence \in Whence
  BY SysDelivered
<1>6. SensorNext(f) => Head(todo[f]).pos.whence \in Whence
  BY SysDelivered DEF SensorNext
<1>7. QED
  BY <1>1, <1>2, <1>3, <1>4, <1>5, <1>6 DEF File, SensorNext

\* A step of one user leaves the requests of the others.
LEMMA OthersKept ==
  ASSUME NEW f \in File, \A g \in File : RequestsOf(g),
         \A g \in File \ {f} : /\ todo'[g] = todo[g] /\ sought'[g] = sought[g]
                               /\ f_pos'[g] = f_pos[g] /\ misled'[g] = misled[g]
                               /\ state'[g] = state[g],
         RequestsOf(f)'
  PROVE  \A g \in File : RequestsOf(g)'
<1>1. ASSUME NEW g \in File \ {f} PROVE RequestsOf(g)'
  <2>1. SensorNext(g) => SensorNext(g)'
    BY <1>1 DEF SensorNext
  <2>2. RequestsOf(g)
    BY <1>1
  <2>3. QED
    BY <1>1, <2>1, <2>2 DEF RequestsOf
<1>2. QED
  BY <1>1

\* Nothing is requested yet.
LEMMA FilesStart == DInit => FileInv
<1> SUFFICES ASSUME DInit PROVE FileInv
  OBVIOUS
<1> USE DEF DInit
<1>1. FileTypes
  BY DEF FileTypes
<1>2. ASSUME NEW f \in File PROVE RequestsOf(f)
  <2>1. todo[f] = <<>> /\ ~sought[f]
    OBVIOUS
  <2>2. QED
    BY <2>1 DEF RequestsOf
<1>3. CountersInv
  <2>1. /\ counter \in [Core -> [PerfCounter -> Int]] /\ worked \in [Core -> [PerfCounter -> Int]]
        /\ temp \in [CpuFile -> [Core -> [PerfCounter ->
                      [value : Int, worked : Int, disturbed : BOOLEAN]]]]
        /\ distance \in [CpuFile -> [found : Int, worked : Int]]
    OBVIOUS
  <2>2. \A f \in CpuFile, c \in Core, r \in PerfCounter : temp[f][c][r].disturbed
    OBVIOUS
  <2>3. QED
    BY <2>1, <2>2 DEF CountersInv
<1>4. ReadingsRight
  BY DEF ReadingsRight, RequestedIsRead, DistancesRight, File
<1>5. QED
  BY <1>1, <1>2, <1>3, <1>4 DEF FileInv

\* The open, lseek and rounds of a file.
LEMMA MovesKept ==
  ASSUME FileInv, NEW f \in File, OpenFile(f) \/ Seek(f) \/ NextRound(f) \/ CpuFails(f)
  PROVE  FileInv'
<1>1. UNCHANGED <<got, misled, counter, worked, temp, distance>>
  BY DEF OpenFile, Seek, NextRound, CpuFails, counters
<1>2. RequestsOf(f) /\ FileTypes /\ ReadingsRight
  BY DEF FileInv
<1>3. /\ \A g \in File \ {f} : /\ todo'[g] = todo[g] /\ sought'[g] = sought[g]
                               /\ f_pos'[g] = f_pos[g] /\ state'[g] = state[g]
      /\ FileTypes'
      /\ state'[f] # "refused" \/ UNCHANGED state
  <2>1. CASE OpenFile(f)
    BY <1>1, <1>2, <2>1 DEF OpenFile, FileTypes
  <2>2. CASE Seek(f)
    BY <1>1, <1>2, <2>2 DEF Seek, FileTypes
  <2>3. CASE NextRound(f)
    BY <1>1, <1>2, <2>3 DEF NextRound, FileTypes, Ends
  <2>4. CASE CpuFails(f)
    BY <1>1, <1>2, <2>4 DEF CpuFails, FileTypes, Ends
  <2>5. QED
    BY <2>1, <2>2, <2>3, <2>4
<1>4. RequestsOf(f)'
  <2>1. CASE OpenFile(f)
    <3>1. todo'[f] = IF f \in CpuFile THEN MsrInitRequests ELSE IpmiInitRequests
      BY <1>2, <2>1 DEF OpenFile, FileTypes
    <3>2. sought'[f] = sought[f] /\ sought[f] = FALSE /\ state'[f] = "init"
      BY <1>2, <2>1 DEF OpenFile, FileTypes, RequestsOf
    <3>3. ~(f \in CpuFile /\ f \in IpmiFile)
      BY FilesAssumption
    <3>4. QED
      BY <3>1, <3>2, <3>3, RequestsFit DEF RequestsOf
  <2>2. CASE Seek(f)
    <3>1. UNCHANGED <<todo, state>> /\ todo[f] # <<>>
      BY <2>2 DEF Seek
    <3>2. Head(todo[f]).pos.whence \in Whence
      BY <1>2, <3>1, FrontFits
    <3>3. f_pos'[f] = Head(todo[f]).pos
      BY <1>2, <2>2, <3>2 DEF Seek, FileTypes
    <3>4. SensorNext(f) => SensorNext(f)'
      BY <1>1, <3>1 DEF SensorNext
    <3>5. QED
      BY <1>2, <3>1, <3>3, <3>4 DEF RequestsOf
  <2>3. CASE NextRound(f)
    <3>1. ~sought'[f]
      BY <1>2, <2>3 DEF NextRound, FileTypes, RequestsOf
    <3>2. /\ todo'[f] \in {<<>>, IF f \in CpuFile THEN MsrRoundRequests ELSE IpmiRoundRequests}
          /\ state'[f] = "closed" => todo'[f] = <<>>
      BY <1>2, <2>3 DEF NextRound, FileTypes, Ends
    <3>3. ~(f \in CpuFile /\ f \in IpmiFile)
      BY FilesAssumption
    <3>4. <<>> \in Seq(CpuRequest) /\ <<>> \in Seq(SysRequest)
      OBVIOUS
    <3>5. QED
      BY <3>1, <3>2, <3>3, <3>4, RequestsFit DEF RequestsOf
  <2>4. CASE CpuFails(f)
    <3>1. UNCHANGED <<todo, sought, f_pos>> /\ state'[f] = "dead"
      BY <1>2, <2>4 DEF CpuFails, Ends, FileTypes
    <3>2. SensorNext(f) => SensorNext(f)'
      BY <1>1, <3>1 DEF SensorNext
    <3>3. QED
      BY <1>2, <3>1, <3>2 DEF RequestsOf
  <2>5. QED
    BY <2>1, <2>2, <2>3, <2>4
<1>5. \A g \in File : RequestsOf(g)'
  BY <1>1, <1>3, <1>4, OthersKept DEF FileInv
<1>6. CountersInv'
  BY <1>1 DEF CountersInv, FileInv
<1>7. ReadingsRight'
  BY <1>1, <1>2, <1>3 DEF ReadingsRight, RequestedIsRead, DistancesRight, File
<1>8. QED
  BY <1>3, <1>5, <1>6, <1>7 DEF FileInv

\* A request is done with: its user has the others left, or a new first one.
LEMMA DoneKept ==
  ASSUME FileInv, NEW f \in File, NEW rest, Done(f, rest), UNCHANGED f_pos,
         DOMAIN state' = File, state'[f] # "closed",
         \A g \in File \ {f} : misled'[g] = misled[g] /\ state'[g] = state[g],
         f \in CpuFile => rest \in Seq(CpuRequest),
         f \in IpmiFile =>
           \/ rest \in Seq(SysRequest)
           \/ /\ rest # <<>> /\ Tail(rest) \in Seq(SysRequest)
              /\ \E r \in DOMAIN Sensor, s \in Sensors :
                   Head(rest) = GetSensor(r, s) /\ (s = Sensor[r] \/ misled'[f])
  PROVE  /\ \A g \in File : RequestsOf(g)'
         /\ DOMAIN todo' = File /\ todo' = [g \in File |-> todo'[g]]
         /\ DOMAIN f_pos' = File /\ f_pos' = [g \in File |-> f_pos'[g]]
         /\ sought' \in [File -> BOOLEAN]
<1>1. FileTypes /\ \A g \in File : RequestsOf(g)
  BY DEF FileInv
<1>2. /\ todo'[f] = rest /\ sought'[f] = FALSE
      /\ \A g \in File \ {f} : todo'[g] = todo[g] /\ sought'[g] = sought[g] /\ f_pos'[g] = f_pos[g]
      /\ DOMAIN todo' = File /\ todo' = [g \in File |-> todo'[g]]
      /\ DOMAIN f_pos' = File /\ f_pos' = [g \in File |-> f_pos'[g]]
      /\ sought' \in [File -> BOOLEAN]
  BY <1>1 DEF Done, FileTypes
<1>3. RequestsOf(f)'
  BY <1>2 DEF RequestsOf, SensorNext
<1>4. QED
  BY <1>1, <1>2, <1>3, OthersKept

\* A core's counter is read: it goes on by what the core works, and the
\* distance from the last reading is found.
ReadCounter(f, c, r) ==
  LET cur == counter[c][r] + 1
      last == temp[f][c][r]
  IN /\ counter' = [counter EXCEPT ![c][r] = cur]
     /\ worked' = [worked EXCEPT ![c][r] = @ + 1]
     /\ temp' = [temp EXCEPT ![f][c][r] =
                   [value |-> cur, worked |-> worked'[c][r], disturbed |-> FALSE]]
     /\ distance' = IF last.disturbed THEN distance
                    ELSE [distance EXCEPT ![f] =
                            [found |-> Distance(cur, last.value),
                             worked |-> worked'[c][r] - last.worked]]

LEMMA CounterRead ==
  ASSUME FileInv, NEW f \in CpuFile, NEW c \in Core, NEW r \in PerfCounter, ReadCounter(f, c, r)
  PROVE  CountersInv' /\ DistancesRight'
<1>0. PICK cur, last :
        /\ cur = counter[c][r] + 1 /\ last = temp[f][c][r]
        /\ counter' = [counter EXCEPT ![c][r] = cur]
        /\ worked' = [worked EXCEPT ![c][r] = @ + 1]
        /\ temp' = [temp EXCEPT ![f][c][r] =
                      [value |-> cur, worked |-> worked'[c][r], disturbed |-> FALSE]]
        /\ distance' = IF last.disturbed THEN distance
                       ELSE [distance EXCEPT ![f] =
                               [found |-> Distance(cur, last.value),
                                worked |-> worked'[c][r] - last.worked]]
  BY DEF ReadCounter
<1>1. CountersInv /\ DistancesRight
  BY DEF FileInv, ReadingsRight
<1>2. /\ counter[c][r] \in Int /\ worked[c][r] \in Int /\ last.value \in Int /\ last.worked \in Int
      /\ ~last.disturbed => /\ last.value <= counter[c][r]
                            /\ counter[c][r] - last.value = worked[c][r] - last.worked
  BY <1>0, <1>1 DEF CountersInv
<1>3. /\ counter' \in [Core -> [PerfCounter -> Int]] /\ worked' \in [Core -> [PerfCounter -> Int]]
      /\ \A d \in Core, q \in PerfCounter :
           /\ counter'[d][q] = IF d = c /\ q = r THEN counter[c][r] + 1 ELSE counter[d][q]
           /\ worked'[d][q] = IF d = c /\ q = r THEN worked[c][r] + 1 ELSE worked[d][q]
  BY <1>0, <1>1, <1>2 DEF CountersInv
<1>4. PICK now : now = [value |-> cur, worked |-> worked'[c][r], disturbed |-> FALSE]
  OBVIOUS
<1>5. now \in [value : Int, worked : Int, disturbed : BOOLEAN]
  BY <1>0, <1>2, <1>3, <1>4
<1>6. /\ temp' \in [CpuFile -> [Core -> [PerfCounter ->
                     [value : Int, worked : Int, disturbed : BOOLEAN]]]]
      /\ \A g \in CpuFile, d \in Core, q \in PerfCounter :
           temp'[g][d][q] = IF g = f /\ d = c /\ q = r THEN now ELSE temp[g][d][q]
  <2>1. temp' = [temp EXCEPT ![f][c][r] = now]
    BY <1>0, <1>4
  <2>2. temp \in [CpuFile -> [Core -> [PerfCounter ->
                    [value : Int, worked : Int, disturbed : BOOLEAN]]]]
    BY <1>1 DEF CountersInv
  <2>3. PICK before, after, R :
          /\ before = temp /\ after = temp'
          /\ R = [value : Int, worked : Int, disturbed : BOOLEAN]
    OBVIOUS
  <2>4. /\ before \in [CpuFile -> [Core -> [PerfCounter -> R]]] /\ now \in R
        /\ after = [before EXCEPT ![f][c][r] = now]
    BY <2>1, <2>2, <2>3, <1>5
  <2>5. /\ after \in [CpuFile -> [Core -> [PerfCounter -> R]]]
        /\ \A g \in CpuFile, d \in Core, q \in PerfCounter :
             after[g][d][q] = IF g = f /\ d = c /\ q = r THEN now ELSE before[g][d][q]
    <3>1. PICK u : u = [before[f] EXCEPT ![c][r] = now]
      OBVIOUS
    <3>2. /\ u \in [Core -> [PerfCounter -> R]]
          /\ \A d \in Core, q \in PerfCounter :
               u[d][q] = IF d = c /\ q = r THEN now ELSE before[f][d][q]
      BY <2>4, <3>1
    <3>3. after = [before EXCEPT ![f] = u]
      BY <2>4, <3>1
    <3>4. QED
      BY <2>4, <3>2, <3>3
  <2>6. after \in [CpuFile -> [Core -> [PerfCounter ->
                    [value : Int, worked : Int, disturbed : BOOLEAN]]]]
    BY <2>3, <2>5, Zenon
  <2>7. QED
    BY <2>3, <2>5, <2>6
<1>7. ~last.disturbed => Distance(cur, last.value) = worked'[c][r] - last.worked
  <2>1. worked'[c][r] = worked[c][r] + 1 /\ cur = counter[c][r] + 1
    BY <1>0, <1>3
  <2>2. ~last.disturbed =>
          cur > last.value /\ cur - last.value = worked[c][r] + 1 - last.worked
    BY <1>2, <2>1
  <2>3. ~last.disturbed => Distance(cur, last.value) = cur - last.value
    BY <2>2 DEF Distance
  <2>4. QED
    BY <1>2, <2>1, <2>2, <2>3
<1>8. worked'[c][r] - last.worked \in Int
  BY <1>2, <1>3
<1>9. distance' \in [CpuFile -> [found : Int, worked : Int]] /\ DistancesRight'
  <2>1. CASE last.disturbed
    BY <2>1, <1>0, <1>1 DEF CountersInv, DistancesRight
  <2>2. CASE ~last.disturbed
    BY <2>2, <1>0, <1>1, <1>7, <1>8 DEF CountersInv, DistancesRight
  <2>3. QED
    BY <2>1, <2>2
<1>10. ASSUME NEW g \in CpuFile, NEW d \in Core, NEW q \in PerfCounter, ~temp'[g][d][q].disturbed
       PROVE  /\ temp'[g][d][q].value <= counter'[d][q]
              /\ counter'[d][q] - temp'[g][d][q].value = worked'[d][q] - temp'[g][d][q].worked
  <2>1. CASE g = f /\ d = c /\ q = r
    BY <2>1, <1>0, <1>2, <1>3, <1>4, <1>6
  <2>2. CASE ~(g = f /\ d = c /\ q = r)
    <3>1. temp'[g][d][q] = temp[g][d][q]
      BY <2>2, <1>6
    <3>2. /\ counter[d][q] \in Int /\ worked[d][q] \in Int /\ temp[g][d][q].value \in Int
          /\ temp[g][d][q].worked \in Int /\ temp[g][d][q].value <= counter[d][q]
          /\ counter[d][q] - temp[g][d][q].value = worked[d][q] - temp[g][d][q].worked
      BY <3>1, <1>10, <1>1 DEF CountersInv
    <3>3. \/ counter'[d][q] = counter[d][q] /\ worked'[d][q] = worked[d][q]
          \/ counter'[d][q] = counter[d][q] + 1 /\ worked'[d][q] = worked[d][q] + 1
      BY <1>3
    <3>4. QED
      BY <3>1, <3>2, <3>3
  <2>3. QED
    BY <2>1, <2>2
<1>11. QED
  BY <1>3, <1>6, <1>9, <1>10 DEF CountersInv

\* CMeasureMSR reads what it wants.
LEMMA ReadCpuKept == ASSUME FileInv, NEW f \in File, ReadCpu(f) PROVE FileInv'
<1>1. /\ FileTypes /\ RequestsOf(f) /\ CountersInv /\ RequestedIsRead /\ DistancesRight
      /\ f \in CpuFile /\ sought[f] /\ todo[f] # <<>> /\ f_pos[f] = Head(todo[f]).pos
      /\ Head(todo[f]).op = "read" /\ state[f] \in {"init", "run"}
  BY DEF FileInv, ReadingsRight, ReadCpu, Ready, Alive, RequestsOf
<1>2. PICK q : q = Head(todo[f])
  OBVIOUS
<1>3. q \in CpuRequest /\ Tail(todo[f]) \in Seq(CpuRequest)
  BY <1>1, <1>2, FrontFits
<1>4. Delivered(f_pos[f], Head(todo[f]).size) = q.want /\ q.want # Refused
  BY <1>1, <1>2, <1>3, CpuDelivered
<1>5. /\ Done(f, Tail(todo[f])) /\ UNCHANGED <<f_pos, misled, state>>
      /\ got' = [got EXCEPT ![f] = [value |-> q.want, wanted |-> q.want]]
  BY <1>2, <1>4 DEF ReadCpu, Take
<1>6. CountersInv' /\ DistancesRight'
  <2>1. CASE q.want.name \in PerfCounter
    <3>1. q.want.of \in Core
      BY <1>3, <2>1, CpuDelivered
    <3>2. PICK c \in Core, r \in PerfCounter : c = q.want.of /\ r = q.want.name
      BY <2>1, <3>1
    <3>3. ReadCounter(f, c, r)
      BY <1>4, <2>1, <3>2 DEF ReadCpu, ReadCounter
    <3>4. QED
      BY <1>1, <3>3, CounterRead
  <2>2. CASE q.want.name \notin PerfCounter
    <3>1. UNCHANGED <<counter, worked, temp, distance>>
      BY <1>4, <2>2 DEF ReadCpu, counters
    <3>2. QED
      BY <1>1, <3>1 DEF CountersInv, DistancesRight
  <2>3. QED
    BY <2>1, <2>2
<1>7. ~(f \in IpmiFile)
  BY <1>1, FilesAssumption
<1>8. /\ \A g \in File : RequestsOf(g)'
      /\ DOMAIN todo' = File /\ todo' = [g \in File |-> todo'[g]]
      /\ DOMAIN f_pos' = File /\ f_pos' = [g \in File |-> f_pos'[g]]
      /\ sought' \in [File -> BOOLEAN]
  <2>1. DOMAIN state' = File /\ state'[f] # "closed"
    BY <1>1, <1>5 DEF FileTypes
  <2>2. QED
    BY <1>1, <1>3, <1>5, <1>7, <2>1, DoneKept
<1>9. FileTypes'
  BY <1>1, <1>5, <1>8 DEF FileTypes
<1>10. RequestedIsRead'
  BY <1>1, <1>5 DEF RequestedIsRead, FileTypes
<1>11. QED
  BY <1>6, <1>8, <1>9, <1>10 DEF FileInv, ReadingsRight

\* CMeasureMSR sets a counter to zero, and every reference to it is broken.
LEMMA WriteCpuKept == ASSUME FileInv, NEW f \in File, WriteCpu(f) PROVE FileInv'
<1>1. /\ FileTypes /\ RequestsOf(f) /\ CountersInv /\ RequestedIsRead /\ DistancesRight
      /\ f \in CpuFile /\ sought[f] /\ todo[f] # <<>> /\ f_pos[f] = Head(todo[f]).pos
      /\ Head(todo[f]).op = "write" /\ state[f] \in {"init", "run"}
  BY DEF FileInv, ReadingsRight, WriteCpu, Ready, Alive, RequestsOf
<1>2. PICK pos : pos = f_pos[f]
  OBVIOUS
<1>3. Head(todo[f]) \in CpuRequest /\ Tail(todo[f]) \in Seq(CpuRequest)
  BY <1>1, FrontFits
<1>4. check_msr_off(pos) /\ pos.reg \in PerfCounter /\ pos.core \in Core
  BY <1>1, <1>2, <1>3, CpuDelivered
<1>5. /\ Done(f, Tail(todo[f])) /\ UNCHANGED <<f_pos, misled, state, got, worked, distance>>
      /\ counter' = [counter EXCEPT ![pos.core][pos.reg] = 0]
      /\ temp' = [g \in CpuFile |-> [temp[g] EXCEPT ![pos.core][pos.reg].disturbed = TRUE]]
  BY <1>2, <1>4 DEF WriteCpu
<1>6. CountersInv'
  <2>1. PICK c \in Core, r \in PerfCounter : c = pos.core /\ r = pos.reg
    BY <1>4
  <2>2. /\ counter' \in [Core -> [PerfCounter -> Int]]
        /\ \A d \in Core, q \in PerfCounter :
             counter'[d][q] = IF d = c /\ q = r THEN 0 ELSE counter[d][q]
    BY <1>1, <1>5, <2>1 DEF CountersInv
  <2>3. PICK R : R = [value : Int, worked : Int, disturbed : BOOLEAN]
    OBVIOUS
  <2>4. \A x \in R : /\ [x EXCEPT !.disturbed = TRUE] \in R
                     /\ [x EXCEPT !.disturbed = TRUE].disturbed
    BY <2>3
  <2>5. temp \in [CpuFile -> [Core -> [PerfCounter -> R]]]
    BY <1>1, <2>3 DEF CountersInv
  <2>6. ASSUME NEW g \in CpuFile
        PROVE  /\ temp'[g] \in [Core -> [PerfCounter -> R]]
               /\ \A d \in Core, q \in PerfCounter :
                    IF d = c /\ q = r THEN temp'[g][d][q].disturbed
                    ELSE temp'[g][d][q] = temp[g][d][q]
    <3>1. PICK x, y : x = temp[g][c][r] /\ y = [x EXCEPT !.disturbed = TRUE]
      OBVIOUS
    <3>2. x \in R /\ y \in R /\ y.disturbed
      BY <2>4, <2>5, <3>1
    <3>3. temp'[g] = [temp[g] EXCEPT ![c][r] = y]
      BY <1>5, <2>1, <2>5, <3>1
    <3>4. QED
      BY <2>5, <3>2, <3>3
  <2>7. temp' \in [CpuFile -> [Core -> [PerfCounter -> R]]]
    <3>1. temp' = [g \in CpuFile |-> temp'[g]]
      BY <1>5
    <3>2. QED
      BY <2>6, <3>1
  <2>8. ASSUME NEW g \in CpuFile, NEW d \in Core, NEW q \in PerfCounter,
               ~temp'[g][d][q].disturbed
        PROVE  /\ temp'[g][d][q].value <= counter'[d][q]
               /\ counter'[d][q] - temp'[g][d][q].value = worked'[d][q] - temp'[g][d][q].worked
    <3>1. temp'[g][d][q] = temp[g][d][q] /\ ~(d = c /\ q = r)
      BY <2>6, <2>8
    <3>2. counter'[d][q] = counter[d][q] /\ worked' = worked
      BY <1>5, <2>2, <3>1
    <3>3. ~temp[g][d][q].disturbed
      BY <2>8, <3>1
    <3>4. /\ temp[g][d][q].value <= counter[d][q]
          /\ counter[d][q] - temp[g][d][q].value = worked[d][q] - temp[g][d][q].worked
      BY <1>1, <3>3 DEF CountersInv
    <3>5. QED
      BY <3>1, <3>2, <3>4
  <2>9. worked' = worked /\ distance' = distance
    BY <1>5
  <2>10. QED
    BY <1>1, <2>2, <2>3, <2>7, <2>8, <2>9 DEF CountersInv
<1>7. ~(f \in IpmiFile)
  BY <1>1, FilesAssumption
<1>8. /\ \A g \in File : RequestsOf(g)'
      /\ DOMAIN todo' = File /\ todo' = [g \in File |-> todo'[g]]
      /\ DOMAIN f_pos' = File /\ f_pos' = [g \in File |-> f_pos'[g]]
      /\ sought' \in [File -> BOOLEAN]
  <2>1. DOMAIN state' = File /\ state'[f] # "closed"
    BY <1>1, <1>5 DEF FileTypes
  <2>2. QED
    BY <1>1, <1>3, <1>5, <1>7, <2>1, DoneKept
<1>9. FileTypes'
  BY <1>1, <1>5, <1>8 DEF FileTypes
<1>10. RequestedIsRead' /\ DistancesRight'
  BY <1>1, <1>5 DEF RequestedIsRead, DistancesRight
<1>11. QED
  BY <1>6, <1>8, <1>9, <1>10 DEF FileInv, ReadingsRight

\* The wrapper is answered what it wants; what follows garbage may be wrong,
\* and it is marked.
LEMMA ReadAnswerKept == ASSUME FileInv, NEW f \in File, ReadAnswer(f) PROVE FileInv'
<1>1. /\ FileTypes /\ RequestsOf(f) /\ CountersInv /\ RequestedIsRead /\ DistancesRight
      /\ f \in IpmiFile /\ sought[f] /\ todo[f] # <<>> /\ f_pos[f] = Head(todo[f]).pos
      /\ state[f] \in {"init", "run"}
  BY DEF FileInv, ReadingsRight, ReadAnswer, Ready, Alive, RequestsOf
<1>2. PICK q, value : q = Head(todo[f]) /\ value = Delivered(q.pos, q.size)
  OBVIOUS
<1>3. /\ UNCHANGED <<f_pos, state, counter, worked, temp, distance>>
      /\ got' = [got EXCEPT ![f] = [value |-> value, wanted |-> q.want]]
      /\ Done(f, IF value.name # "sdr" THEN Tail(todo[f])
                 ELSE <<GetSensor(value.of, Sensor[value.of])>> \o Tail(todo[f]))
      /\ misled' = [misled EXCEPT ![f] = @ /\ q.want.name = "sensor"]
  BY <1>1, <1>2 DEF ReadAnswer, Take, counters
<1>4. Tail(todo[f]) \in Seq(SysRequest)
  BY <1>1, FrontFits
<1>5. \/ /\ value = q.want /\ q.want.name # "sensor"
         /\ q.want.name = "sdr" => q.want.of \in DOMAIN Sensor
      \/ /\ value.name = "sensor" /\ q.want.name = "sensor"
         /\ value = q.want \/ misled[f]
  <2>1. CASE q \in SysRequest
    BY <1>2, <2>1, SysDelivered
  <2>2. ASSUME NEW r \in DOMAIN Sensor, NEW s \in Sensors,
               q = GetSensor(r, s), s = Sensor[r] \/ misled[f]
        PROVE  /\ value.name = "sensor" /\ q.want.name = "sensor"
               /\ value = q.want \/ misled[f]
    <3>1. value = Value("sensor", s) /\ q.want = Value("sensor", Sensor[r])
      BY <1>2, <2>2, SysDelivered
    <3>2. value.name = "sensor" /\ q.want.name = "sensor"
      BY <3>1 DEF Value
    <3>3. QED
      BY <2>2, <3>1, <3>2
  <2>3. q \in SysRequest \/ \E r \in DOMAIN Sensor, s \in Sensors :
          q = GetSensor(r, s) /\ (s = Sensor[r] \/ misled[f])
    BY <1>1, <1>2, FrontFits
  <2>4. QED
    BY <2>1, <2>2, <2>3
<1>6. misled' \in [File -> BOOLEAN] /\ (\A g \in File \ {f} : misled'[g] = misled[g])
      /\ (misled'[f] <=> misled[f] /\ q.want.name = "sensor")
  BY <1>1, <1>3 DEF FileTypes
<1>7. value = q.want \/ misled'[f]
  BY <1>5, <1>6
<1>8. PICK rest : rest = IF value.name # "sdr" THEN Tail(todo[f])
                         ELSE <<GetSensor(value.of, Sensor[value.of])>> \o Tail(todo[f])
  OBVIOUS
<1>9. \/ rest \in Seq(SysRequest)
      \/ /\ rest # <<>> /\ Tail(rest) \in Seq(SysRequest)
         /\ \E r \in DOMAIN Sensor, s \in Sensors :
              Head(rest) = GetSensor(r, s) /\ (s = Sensor[r] \/ misled'[f])
  <2>1. CASE value.name # "sdr"
    BY <1>4, <1>8, <2>1
  <2>2. CASE value.name = "sdr"
    <3>1. value.of \in DOMAIN Sensor
      BY <1>5, <2>2
    <3>2. PICK r \in DOMAIN Sensor, s \in Sensors : r = value.of /\ s = Sensor[r]
      BY <3>1 DEF Sensors
    <3>3. rest = <<GetSensor(r, s)>> \o Tail(todo[f])
      BY <1>8, <2>2, <3>2
    <3>4. rest # <<>> /\ Head(rest) = GetSensor(r, s) /\ Tail(rest) = Tail(todo[f])
      BY <1>4, <3>3, Front
    <3>5. QED
      BY <1>4, <3>2, <3>4
  <2>3. QED
    BY <2>1, <2>2
<1>10. ~(f \in CpuFile)
  BY <1>1, FilesAssumption
<1>11. /\ \A g \in File : RequestsOf(g)'
       /\ DOMAIN todo' = File /\ todo' = [g \in File |-> todo'[g]]
       /\ DOMAIN f_pos' = File /\ f_pos' = [g \in File |-> f_pos'[g]]
       /\ sought' \in [File -> BOOLEAN]
  <2>1. DOMAIN state' = File /\ state'[f] # "closed" /\ UNCHANGED <<state, f_pos>>
    BY <1>1, <1>3 DEF FileTypes
  <2>2. Done(f, rest)
    BY <1>3, <1>8
  <2>3. QED
    BY <1>6, <1>9, <1>10, <2>1, <2>2, DoneKept
<1>12. FileTypes'
  BY <1>1, <1>3, <1>6, <1>11 DEF FileTypes
<1>13. RequestedIsRead' /\ DistancesRight'
  <2>1. \A g \in File : got'[g].value = got'[g].wanted \/ misled'[g]
    BY <1>1, <1>3, <1>6, <1>7 DEF RequestedIsRead, FileTypes
  <2>2. QED
    BY <1>1, <1>3, <2>1 DEF RequestedIsRead, DistancesRight
<1>14. CountersInv'
  BY <1>1, <1>3 DEF CountersInv
<1>15. QED
  BY <1>11, <1>12, <1>13, <1>14 DEF FileInv, ReadingsRight

\* A request of the wrapper that fails is dropped or made again, or the
\* process ends.
LEMMA FailuresKept ==
  ASSUME FileInv, NEW f \in File, ReadTimesOut(f) \/ ReadFails(f) \/ ResetFails(f)
  PROVE  FileInv'
<1>1. /\ FileTypes /\ RequestsOf(f) /\ CountersInv /\ RequestedIsRead /\ DistancesRight
      /\ f \in IpmiFile /\ sought[f] /\ todo[f] # <<>> /\ state[f] \in {"init", "run"}
  BY DEF FileInv, ReadingsRight, ReadTimesOut, ReadFails, ResetFails, Ready, Alive, RequestsOf
<1>2. /\ UNCHANGED <<f_pos, got, misled, counter, worked, temp, distance>>
      /\ Done(f, Tail(todo[f])) \/ Done(f, todo[f])
      /\ UNCHANGED state \/ state' = [state EXCEPT ![f] = "dead"]
  BY DEF ReadTimesOut, ReadFails, ResetFails, Fails, Ends, counters
<1>3. PICK rest \in {Tail(todo[f]), todo[f]} : Done(f, rest)
  BY <1>2
<1>4. \/ rest \in Seq(SysRequest)
      \/ /\ rest # <<>> /\ Tail(rest) \in Seq(SysRequest)
         /\ \E r \in DOMAIN Sensor, s \in Sensors :
              Head(rest) = GetSensor(r, s) /\ (s = Sensor[r] \/ misled'[f])
  <2>1. Tail(todo[f]) \in Seq(SysRequest)
    BY <1>1, FrontFits
  <2>2. QED
    BY <1>1, <1>2, <1>3, <2>1 DEF RequestsOf, SensorNext
<1>5. ~(f \in CpuFile)
  BY <1>1, FilesAssumption
<1>6. /\ state' \in [File -> {"closed", "init", "run", "dead", "refused"}]
      /\ state'[f] \notin {"closed", "refused"} /\ \A g \in File \ {f} : state'[g] = state[g]
  BY <1>1, <1>2 DEF FileTypes
<1>7. /\ \A g \in File : RequestsOf(g)'
      /\ DOMAIN todo' = File /\ todo' = [g \in File |-> todo'[g]]
      /\ DOMAIN f_pos' = File /\ f_pos' = [g \in File |-> f_pos'[g]]
      /\ sought' \in [File -> BOOLEAN]
  <2>1. /\ DOMAIN state' = File /\ state'[f] # "closed" /\ UNCHANGED f_pos
        /\ \A g \in File \ {f} : misled'[g] = misled[g] /\ state'[g] = state[g]
    BY <1>2, <1>6
  <2>2. QED
    BY <1>3, <1>4, <1>5, <2>1, DoneKept
<1>8. FileTypes'
  BY <1>1, <1>2, <1>6, <1>7 DEF FileTypes
<1>9. ReadingsRight'
  BY <1>1, <1>2, <1>5, <1>6 DEF ReadingsRight, RequestedIsRead, DistancesRight, File
<1>10. CountersInv'
  BY <1>1, <1>2 DEF CountersInv
<1>11. QED
  BY <1>7, <1>8, <1>9, <1>10 DEF FileInv

\* Garbage is marked, and so is the sensor that it names.
LEMMA GarbageKept == ASSUME FileInv, NEW f \in File, ReadGarbage(f) PROVE FileInv'
<1>1. /\ FileTypes /\ RequestsOf(f) /\ CountersInv /\ RequestedIsRead /\ DistancesRight
      /\ f \in IpmiFile /\ sought[f] /\ todo[f] # <<>> /\ state[f] \in {"init", "run"}
  BY DEF FileInv, ReadingsRight, ReadGarbage, Ready, Alive, RequestsOf
<1>2. PICK q : q = Head(todo[f])
  OBVIOUS
<1>3. /\ UNCHANGED <<f_pos, state, counter, worked, temp, distance>>
      /\ got' = [got EXCEPT ![f] = [value |-> Value("garbage", 0), wanted |-> q.want]]
      /\ misled' = [misled EXCEPT ![f] = TRUE]
      /\ \E s \in Sensors : Done(f, IF q.want.name # "sdr" THEN Tail(todo[f])
                                    ELSE <<GetSensor(q.want.of, s)>> \o Tail(todo[f]))
  BY <1>2 DEF ReadGarbage, Take, counters, Sensors
<1>4. PICK s, rest :
        /\ s \in Sensors
        /\ rest = IF q.want.name # "sdr" THEN Tail(todo[f])
                  ELSE <<GetSensor(q.want.of, s)>> \o Tail(todo[f])
        /\ Done(f, rest)
  BY <1>3
<1>5. Tail(todo[f]) \in Seq(SysRequest)
  BY <1>1, FrontFits
<1>6. q.want.name = "sdr" => q.want.of \in DOMAIN Sensor
  <2>1. q \in SysRequest \/ \E r \in DOMAIN Sensor, t \in Sensors : q = GetSensor(r, t)
    BY <1>1, <1>2, FrontFits
  <2>2. ASSUME NEW r \in DOMAIN Sensor, NEW t \in Sensors, q = GetSensor(r, t)
        PROVE  q.want.name = "sensor"
    <3>1. q.want = Value("sensor", Sensor[r])
      BY <2>2, SysDelivered
    <3>2. QED
      BY <3>1 DEF Value
  <2>3. QED
    BY <2>1, <2>2, SysDelivered
<1>7. /\ misled' \in [File -> BOOLEAN] /\ misled'[f]
      /\ \A g \in File \ {f} : misled'[g] = misled[g]
  BY <1>1, <1>3 DEF FileTypes
<1>8. \/ rest \in Seq(SysRequest)
      \/ /\ rest # <<>> /\ Tail(rest) \in Seq(SysRequest)
         /\ \E r \in DOMAIN Sensor, t \in Sensors :
              Head(rest) = GetSensor(r, t) /\ (t = Sensor[r] \/ misled'[f])
  <2>1. CASE q.want.name # "sdr"
    BY <1>4, <1>5, <2>1
  <2>2. CASE q.want.name = "sdr"
    <3>1. PICK r \in DOMAIN Sensor : r = q.want.of
      BY <1>6, <2>2
    <3>2. rest = <<GetSensor(r, s)>> \o Tail(todo[f])
      BY <1>4, <2>2, <3>1
    <3>3. rest # <<>> /\ Head(rest) = GetSensor(r, s) /\ Tail(rest) = Tail(todo[f])
      BY <1>5, <3>2, Front
    <3>4. s \in Sensors
      BY <1>4
    <3>5. QED
      BY <1>5, <1>7, <3>1, <3>3, <3>4
  <2>3. QED
    BY <2>1, <2>2
<1>9. ~(f \in CpuFile)
  BY <1>1, FilesAssumption
<1>10. /\ \A g \in File : RequestsOf(g)'
       /\ DOMAIN todo' = File /\ todo' = [g \in File |-> todo'[g]]
       /\ DOMAIN f_pos' = File /\ f_pos' = [g \in File |-> f_pos'[g]]
       /\ sought' \in [File -> BOOLEAN]
  <2>1. DOMAIN state' = File /\ state'[f] # "closed" /\ UNCHANGED <<state, f_pos>>
    BY <1>1, <1>3 DEF FileTypes
  <2>2. QED
    BY <1>4, <1>7, <1>8, <1>9, <2>1, DoneKept
<1>11. FileTypes'
  BY <1>1, <1>3, <1>7, <1>10 DEF FileTypes
<1>12. ReadingsRight'
  <2>1. \A g \in File : got'[g].value = got'[g].wanted \/ misled'[g]
    BY <1>1, <1>3, <1>7 DEF RequestedIsRead, FileTypes
  <2>2. QED
    BY <1>1, <1>3, <2>1 DEF ReadingsRight, RequestedIsRead, DistancesRight
<1>13. CountersInv'
  BY <1>1, <1>3 DEF CountersInv
<1>14. QED
  BY <1>10, <1>11, <1>12, <1>13 DEF FileInv

\* Whatever the files' users do, in any order, and whatever fails: each value
\* is the one its reader wanted unless the IPMI layer has refused a request of
\* this reading; no lseek or read of CMeasureMSR is refused; a distance is what
\* the core has worked, unless another process has set its counter to zero.
THEOREM FilesReadRight == DSpec => []ReadingsRight
<1>1. FileInv /\ [\E f \in File : UseFile(f)]_fvars => FileInv'
  <2> SUFFICES ASSUME FileInv, [\E f \in File : UseFile(f)]_fvars PROVE FileInv'
    OBVIOUS
  <2>1. CASE \E f \in File : UseFile(f)
    <3>1. PICK f \in File : UseFile(f)
      BY <2>1
    <3>2. QED
      BY <3>1, MovesKept, ReadCpuKept, WriteCpuKept, ReadAnswerKept, FailuresKept, GarbageKept
      DEF UseFile
  <2>2. CASE UNCHANGED fvars
    <3>1. UNCHANGED <<f_pos, todo, sought, state, got, misled, counter, worked, temp, distance>>
      BY <2>2 DEF fvars
    <3>2. FileTypes' /\ \A f \in File : RequestsOf(f)'
      BY <3>1 DEF FileInv, FileTypes, RequestsOf, SensorNext
    <3>3. CountersInv' /\ ReadingsRight'
      BY <3>1 DEF FileInv, CountersInv, ReadingsRight, RequestedIsRead, DistancesRight
    <3>4. QED
      BY <3>2, <3>3 DEF FileInv
  <2>3. QED
    BY <2>1, <2>2
<1>2. FileInv => ReadingsRight
  BY DEF FileInv
<1>3. QED
  BY FilesStart, <1>1, <1>2, PTL DEF DSpec
=============================================================================
