---------------------------- MODULE DriverUsers ----------------------------
(***************************************************************************)
(* The processes that have /dev/measure open, on a node with IPMI: the     *)
(* first open creates what all of them share, the last close frees it, and *)
(* ioctl reads, sets or sets and locks the timeout of IPMI requests.       *)
(* driver_open runs under ipmi_mutex, driver_close under no mutex.         *)
(***************************************************************************)
EXTENDS Integers, FiniteSets

CONSTANTS
  Process,
  IPMI_MAX_TIMEOUT,    \* 200 ms in the code
  Arg,                 \* the timeouts the processes ask for
  Serial,              \* no open or close begins while another is under way
  SetThenGet           \* a process reads the timeout after it has set it

ASSUME ProcessAssumption == IsFiniteSet(Process)
ASSUME TimeoutAssumption == IPMI_MAX_TIMEOUT \in Nat \ {0} /\ Arg \subseteq Nat
ASSUME UseAssumption == Serial \in BOOLEAN /\ SetThenGet \in BOOLEAN

VARIABLES
  opened,                 \* the count of opens
  ipmi_data,              \* it is allocated and has an IPMI user
  proc_meminfo_file,      \* /proc/meminfo is open
  ipmi_timeout, ipmi_timeout_locked,
  ioctl_mutex,            \* TRUE: locked
  pc,                     \* where each process is
  new_timeout,            \* argument of its ioctl
  count                   \* what opened-- has loaded

shared == <<opened, ipmi_data, proc_meminfo_file>>
timeouts == <<ipmi_timeout, ipmi_timeout_locked>>
vars == <<shared, timeouts, ioctl_mutex, pc, new_timeout, count>>

Opening == {"setup"}
Closing == {"free", "load", "store"}
Setting == {"set_wait", "set", "lock_wait", "lock", "lock_set"}

At(S) == {p \in Process : pc[p] \in S}
Using == At({"open", "get"} \cup Setting)    \* may read and write
Holding == Using \cup At(Opening \cup Closing)

MayBegin == Serial => At(Opening \cup Closing) = {}

\* Where a process goes on after a call that set the timeout.
AfterSet == IF SetThenGet THEN "get" ELSE "open"

TooLarge(t) == t > IPMI_MAX_TIMEOUT \/ t = 0

Go(p, where) == pc' = [pc EXCEPT ![p] = where]

Init ==
  /\ opened = 0
  /\ ipmi_data = FALSE /\ proc_meminfo_file = FALSE
  /\ ipmi_timeout = IPMI_MAX_TIMEOUT /\ ipmi_timeout_locked = FALSE
  /\ ioctl_mutex = FALSE
  /\ pc = [p \in Process |-> "closed"]
  /\ new_timeout = [p \in Process |-> 0]
  /\ count = [p \in Process |-> 0]

-----------------------------------------------------------------------------
(* Faulty variants: the last close comes too early or forgets the lock of  *)
(* the timeout; reading the timeout does not release the mutex.            *)

CloseTestEarly(p) ==
  /\ pc[p] = "open"
  /\ MayBegin
  /\ Go(p, IF opened <= 2 THEN "free" ELSE "load")
  /\ UNCHANGED <<shared, timeouts, ioctl_mutex, new_timeout, count>>

CloseFreeLocked(p) ==
  /\ pc[p] = "free"
  /\ ipmi_data' = FALSE
  /\ proc_meminfo_file' = FALSE
  /\ Go(p, "load")
  /\ UNCHANGED <<opened, timeouts, ioctl_mutex, new_timeout, count>>

GetKeepsMutex(p) ==
  /\ pc[p] \in {"open", "get"}
  /\ Go(p, "open")
  /\ UNCHANGED <<shared, timeouts, ioctl_mutex, new_timeout, count>>

-----------------------------------------------------------------------------
(* open and close.                                                         *)

OpenAgain(p) ==
  /\ pc[p] = "closed"
  /\ MayBegin
  /\ opened # 0
  /\ opened' = opened + 1
  /\ Go(p, "open")
  /\ UNCHANGED <<ipmi_data, proc_meminfo_file, timeouts, ioctl_mutex, new_timeout, count>>

\* The first opener leaves the mutex before it has set up the rest.
OpenFirst(p) ==
  /\ pc[p] = "closed"
  /\ MayBegin
  /\ opened = 0
  /\ ipmi_data' = TRUE
  /\ opened' = opened + 1
  /\ Go(p, "setup")
  /\ UNCHANGED <<proc_meminfo_file, timeouts, ioctl_mutex, new_timeout, count>>

OpenSetup(p) ==
  /\ pc[p] = "setup"
  /\ ipmi_timeout' = IF ipmi_timeout_locked THEN ipmi_timeout ELSE IPMI_MAX_TIMEOUT
  /\ proc_meminfo_file' = TRUE
  /\ Go(p, "open")
  /\ UNCHANGED <<opened, ipmi_data, ipmi_timeout_locked, ioctl_mutex,
                 new_timeout, count>>

CloseTest(p) ==
  /\ pc[p] = "open"
  /\ MayBegin
  /\ Go(p, IF opened <= 1 THEN "free" ELSE "load")
  /\ UNCHANGED <<shared, timeouts, ioctl_mutex, new_timeout, count>>

CloseFree(p) ==
  /\ pc[p] = "free"
  /\ ipmi_data' = FALSE
  /\ ipmi_timeout_locked' = FALSE
  /\ proc_meminfo_file' = FALSE
  /\ Go(p, "load")
  /\ UNCHANGED <<opened, ipmi_timeout, ioctl_mutex, new_timeout, count>>

\* opened-- loads and stores; no mutex keeps others from doing the same.
CloseLoad(p) ==
  /\ pc[p] = "load"
  /\ count' = [count EXCEPT ![p] = opened]
  /\ Go(p, "store")
  /\ UNCHANGED <<shared, timeouts, ioctl_mutex, new_timeout>>

CloseStore(p) ==
  /\ pc[p] = "store"
  /\ opened' = count[p] - 1
  /\ Go(p, "closed")
  /\ UNCHANGED <<ipmi_data, proc_meminfo_file, timeouts, ioctl_mutex, new_timeout, count>>

-----------------------------------------------------------------------------
(* ioctl.                                                                  *)

\* IOC_GET_IPMI_TIMEOUT unlocks the mutex, whoever has locked it.
Get(p) ==
  /\ pc[p] \in {"open", "get"}
  /\ ioctl_mutex' = FALSE
  /\ Go(p, "open")
  /\ UNCHANGED <<shared, timeouts, new_timeout, count>>

\* IOC_SET_IPMI_TIMEOUT tests the lock before it takes the mutex.
SetBegin(p, t) ==
  /\ pc[p] = "open"
  /\ new_timeout' = [new_timeout EXCEPT ![p] = t]
  /\ Go(p, IF ipmi_timeout_locked THEN AfterSet ELSE "set_wait")
  /\ UNCHANGED <<shared, timeouts, ioctl_mutex, count>>

LockBegin(p, t) ==
  /\ pc[p] = "open"
  /\ new_timeout' = [new_timeout EXCEPT ![p] = t]
  /\ Go(p, "lock_wait")
  /\ UNCHANGED <<shared, timeouts, ioctl_mutex, count>>

MutexLock(p) ==
  /\ pc[p] \in {"set_wait", "lock_wait"}
  /\ ~ioctl_mutex
  /\ ioctl_mutex' = TRUE
  /\ Go(p, IF pc[p] = "set_wait" THEN "set" ELSE "lock")
  /\ UNCHANGED <<shared, timeouts, new_timeout, count>>

\* With a bad timeout it returns before the unlock.
Set(p) ==
  /\ pc[p] = "set"
  /\ IF TooLarge(new_timeout[p])
       THEN /\ ipmi_timeout' = IPMI_MAX_TIMEOUT
            /\ UNCHANGED ioctl_mutex
       ELSE /\ ipmi_timeout' = new_timeout[p]
            /\ ioctl_mutex' = FALSE
  /\ Go(p, AfterSet)
  /\ UNCHANGED <<shared, ipmi_timeout_locked, new_timeout, count>>

\* IOC_SET_AND_LOCK_IPMI_TIMEOUT locks the timeout first.
LockTimeout(p) ==
  /\ pc[p] = "lock"
  /\ ipmi_timeout_locked' = TRUE
  /\ Go(p, "lock_set")
  /\ UNCHANGED <<shared, ipmi_timeout, ioctl_mutex, new_timeout, count>>

LockSet(p) ==
  /\ pc[p] = "lock_set"
  /\ ipmi_timeout' = IF TooLarge(new_timeout[p])
                       THEN IPMI_MAX_TIMEOUT ELSE new_timeout[p]
  /\ ioctl_mutex' = FALSE
  /\ Go(p, AfterSet)
  /\ UNCHANGED <<shared, ipmi_timeout_locked, new_timeout, count>>

-----------------------------------------------------------------------------
Open(p) == OpenAgain(p) \/ OpenFirst(p) \/ OpenSetup(p)
Close(p) == CloseTest(p) \/ CloseFree(p) \/ CloseLoad(p) \/ CloseStore(p)
Ioctl(p) == Set(p) \/ LockTimeout(p) \/ LockSet(p)

Next ==
  \E p \in Process :
    \/ Open(p) \/ Close(p) \/ Get(p) \/ MutexLock(p) \/ Ioctl(p)
    \/ \E t \in Arg : SetBegin(p, t) \/ LockBegin(p, t)

Spec == Init /\ [][Next]_vars

\* A process goes on with a call it has begun, and reads the timeout after
\* it has set it if that is how it works; a kernel mutex queues its waiters.
Fairness ==
  \A p \in Process :
    /\ WF_vars(Ioctl(p)) /\ SF_vars(MutexLock(p))
    /\ WF_vars(pc[p] = "get" /\ Get(p))

FairSpec == Spec /\ Fairness

-----------------------------------------------------------------------------
\* The variables have their types; a timeout is never zero or too large.
TypeOK ==
  /\ opened \in Int
  /\ ipmi_data \in BOOLEAN /\ proc_meminfo_file \in BOOLEAN
  /\ ipmi_timeout \in 1 .. IPMI_MAX_TIMEOUT
  /\ ipmi_timeout_locked \in BOOLEAN
  /\ ioctl_mutex \in BOOLEAN
  /\ pc \in [Process -> {"closed", "open", "get"} \cup Opening \cup Closing \cup Setting]
  /\ new_timeout \in [Process -> Nat]
  /\ count \in [Process -> Int]

\* opened counts the processes that have the device open: "count how many times
\* the driver is opened" says the comment above it.
CountsOpens == opened = Cardinality(Holding)

\* Nobody who may read finds the shared structures gone.
UsersServed == Using # {} => ipmi_data /\ proc_meminfo_file

\* Everything is released when the device is closed, the lock of the
\* timeout too: it does not outlive the programs that relied on it.
ReleasedAtLastClose ==
  Holding = {} => ~ipmi_data /\ ~proc_meminfo_file /\ ~ipmi_timeout_locked

\* driver_open and driver_close: what the users share is there as long as one
\* of them has the device open, and no longer.
SharedWhileOpen == UsersServed /\ ReleasedAtLastClose

\* Every ioctl returns.
IoctlReturns ==
  \A p \in Process : (pc[p] \in Setting) ~> (pc[p] \notin Setting)
=============================================================================
