----------------------------- MODULE MsmServer -----------------------------
(***************************************************************************)
(* The server of the client/server monitor: an acceptor that gives every   *)
(* connection a thread, the threads that register clients, answer them and *)
(* end with them, and the acceptor's look at the clients' last requests.   *)
(* A connection stands for one start of a client's measurement.  The list  *)
(* of registrations, its iterator and the times are shared by all threads  *)
(* and protected by nothing.  A client waits for every answer, so there is *)
(* at most one message on its way, and an answer that is sent is received. *)
(***************************************************************************)
EXTENDS Integers, Sequences, FiniteSets

CONSTANTS
  Connection,
  MaxClients,          \* CServer(2900, 5) in the code
  OneHandler,          \* messages are handled one after the other
  MaxTroubles          \* bound: after as many no client drops out or gets slow

ASSUME ConnectionAssumption == IsFiniteSet(Connection)
ASSUME ClientsAssumption == MaxClients \in Nat \ {0} /\ OneHandler \in BOOLEAN
ASSUME TroublesAssumption == MaxTroubles \in Nat

VARIABLES
  stage, request, mReg,       \* per connection, at the client
  task, mRegistry, newReg,    \* per connection, its thread at the server
  reset,                      \* connections with an answer to a client that is gone
  mRegClients, mIterator,     \* the registrations, the one found last
  mTimesForClients,           \* the registries with a time, that is, not -1
  mDataVec,                   \* the connections, indexed like mThreads
  acceptor, index,            \* the acceptor, and i of controlClients
  server,                     \* "down" also after undefined behaviour
  troubles                    \* history: clients that dropped out or were too slow

client == <<stage, request, mReg>>
threads == <<task, mRegistry, newReg, reset>>
registry == <<mRegClients, mIterator, mTimesForClients>>
accepting == <<mDataVec, acceptor, index>>
vars == <<client, threads, registry, accepting, server, troubles>>

orderly == troubles = 0

Registry == 0 .. (MaxClients - 1)
NoRegistry == -1
Entry == [registry : Registry \cup {NoRegistry}, dataCode : Connection]
end == [registry |-> NoRegistry]      \* mRegClients.end(), or what was erased

\* A connection's dataCode is the connection: the values its client asked for.
EntryOf(r, k) == [registry |-> r, dataCode |-> k]

Message == {"CLIENT_REG", "SET_FREQ", "DATA_REQ", "TERM_COM"}

InHandler == {"register", "answer", "erase"}
MayHandle == OneHandler => \A k \in Connection : task[k] \notin InHandler

\* ut::find.
Found(r) == {e \in mRegClients : e.registry = r}
Init ==
  /\ stage = [k \in Connection |-> "off"]
  /\ request = [k \in Connection |-> "none"]
  /\ mReg = [k \in Connection |-> 0]
  /\ task = [k \in Connection |-> "none"]
  /\ mRegistry = [k \in Connection |-> 0]
  /\ newReg = [k \in Connection |-> 0]
  /\ reset = {}
  /\ mRegClients = {} /\ mIterator = end
  /\ mTimesForClients = {}
  /\ mDataVec = <<>>
  /\ acceptor = "control" /\ index = 0
  /\ server = "up"
  /\ troubles = 0

Set(f, k, v) == [f EXCEPT ![k] = v]

\* Writing a time; NoRegistry is not in the array.
Timed(r) == mTimesForClients' = mTimesForClients \cup ({r} \cap Registry)
Untimed(r) == mTimesForClients' = mTimesForClients \ {r}

\* msmSend of an answer, after which the client is at stage s.
Answer(k, s) ==
  /\ request' = Set(request, k, "none")
  /\ stage' = IF stage[k] = "gone" THEN stage ELSE Set(stage, k, s)
  /\ reset' = IF stage[k] = "gone" THEN reset \cup {k} ELSE reset

-----------------------------------------------------------------------------
(* Faulty variants: the registrations are counted to get a registry;       *)
(* the client is told a wrong registry; a registration outlives its client. *)

GetRegCounted(r) == r = Cardinality(mRegClients)

RegisterClientNext(k) ==
  /\ server = "up" /\ task[k] = "register"
  /\ mRegClients' = mRegClients \cup {EntryOf(newReg[k], k)}
  /\ Timed(newReg[k])
  /\ Answer(k, "registered")
  /\ mReg' = Set(mReg, k, (newReg[k] + 1) % MaxClients)
  /\ task' = Set(task, k, "receive")
  /\ UNCHANGED <<mRegistry, newReg, mIterator, accepting, server, troubles>>

TerminateKeepsEntry(k) ==
  /\ server = "up" /\ task[k] = "erase"
  /\ Untimed(mRegistry[k])
  /\ Answer(k, "gone")
  /\ task' = Set(task, k, "shutdown")
  /\ UNCHANGED <<mReg, mRegistry, newReg, mRegClients, mIterator, accepting, server, troubles>>

-----------------------------------------------------------------------------
(* The clients.                                                            *)

\* registerToServer, from the connect to the message.
Connect(k) ==
  /\ server = "up" /\ stage[k] = "off"
  /\ stage' = Set(stage, k, "connected")
  /\ request' = Set(request, k, "CLIENT_REG")
  /\ UNCHANGED <<mReg, threads, registry, accepting, server, troubles>>

Send(k, s, m) ==
  /\ server = "up" /\ stage[k] = s /\ request[k] = "none"
  /\ request' = Set(request, k, m)
  /\ UNCHANGED <<stage, mReg, threads, registry, accepting, server, troubles>>

SendFreq(k) == Send(k, "registered", "SET_FREQ")
SendRequest(k) == Send(k, "ready", "DATA_REQ")
SendTerm(k) == Send(k, "ready", "TERM_COM")

\* The client's process ends without a TERM_COM.
DropOut(k) ==
  /\ server = "up" /\ troubles < MaxTroubles /\ stage[k] \notin {"off", "gone"}
  /\ stage' = Set(stage, k, "gone")
  /\ troubles' = troubles + 1
  /\ UNCHANGED <<request, mReg, threads, registry, accepting, server>>

-----------------------------------------------------------------------------
(* The threads of the connections.                                         *)

\* ut::getReg.
GetReg(r) ==
  LET free == {q \in Registry : Found(q) = {}}
  IN  IF free = {} THEN r = NoRegistry
                   ELSE r \in free /\ \A q \in free : r <= q

Receives(k, m) ==
  /\ server = "up" /\ MayHandle
  /\ task[k] = "receive" /\ request[k] = m

\* parseMsg: the registry is read from a request for data or frequencies only.
ParseMsg(k, m) ==
  mRegistry' = IF m \in {"SET_FREQ", "DATA_REQ"} THEN Set(mRegistry, k, mReg[k])
                                                ELSE mRegistry

\* A message that is not answered: the client waits on.
Ignore(k) ==
  /\ request' = Set(request, k, "lost")
  /\ mIterator' = end
  /\ UNCHANGED <<stage, reset>>

ReceiveRegister(k) ==
  /\ Receives(k, "CLIENT_REG") /\ ParseMsg(k, "CLIENT_REG")
  /\ \E r \in Registry \cup {NoRegistry} :
       GetReg(r) /\ newReg' = Set(newReg, k, r)
  /\ task' = Set(task, k, "register")
  /\ UNCHANGED <<client, reset, registry, accepting, server, troubles>>

\* Without a free registry the time is written before the array.
RegisterClient(k) ==
  /\ server = "up" /\ task[k] = "register"
  /\ mRegClients' = mRegClients \cup {EntryOf(newReg[k], k)}
  /\ Timed(newReg[k])
  /\ server' = IF newReg[k] = NoRegistry THEN "down" ELSE "up"
  /\ Answer(k, "registered")
  /\ mReg' = Set(mReg, k, newReg[k])
  /\ newReg' = Set(newReg, k, 0)
  /\ task' = Set(task, k, "receive")
  /\ UNCHANGED <<mRegistry, mIterator, accepting, troubles>>

ConfirmFreq(k) ==
  /\ Receives(k, "SET_FREQ") /\ ParseMsg(k, "SET_FREQ")
  /\ \/ /\ mIterator' \in Found(mReg[k])
        /\ Answer(k, "ready")
     \/ Found(mReg[k]) = {} /\ Ignore(k)
  /\ UNCHANGED <<mReg, task, newReg, mRegClients, mTimesForClients, accepting, server,
                 troubles>>

FindData(k) ==
  /\ Receives(k, "DATA_REQ") /\ ParseMsg(k, "DATA_REQ")
  /\ \/ /\ mIterator' \in Found(mReg[k])
        /\ task' = Set(task, k, "answer")
        /\ UNCHANGED <<stage, request, reset>>
     \/ Found(mReg[k]) = {} /\ Ignore(k) /\ UNCHANGED task
  /\ UNCHANGED <<mReg, newReg, mRegClients, mTimesForClients, accepting, server,
                 troubles>>

\* createDataAnswer reads the shared iterator, which may be stale by then.
AnswerData(k) ==
  /\ server = "up" /\ task[k] = "answer"
  /\ server' = IF mIterator \in mRegClients THEN "up" ELSE "down"
  /\ Timed(mRegistry[k])
  /\ Answer(k, "ready")
  /\ task' = Set(task, k, "receive")
  /\ UNCHANGED <<mReg, mRegistry, newReg, mRegClients, mIterator, accepting, troubles>>

\* The registry is the one of the last SET_FREQ or DATA_REQ.
FindTerm(k) ==
  /\ Receives(k, "TERM_COM") /\ ParseMsg(k, "TERM_COM")
  /\ \/ /\ mIterator' \in Found(mRegistry[k])
        /\ task' = Set(task, k, "erase")
        /\ UNCHANGED <<stage, request, reset>>
     \/ Found(mRegistry[k]) = {} /\ Ignore(k) /\ task' = Set(task, k, "shutdown")
  /\ UNCHANGED <<mReg, newReg, mRegClients, mTimesForClients, accepting,
                 server, troubles>>

Terminate(k) ==
  /\ server = "up" /\ task[k] = "erase"
  /\ server' = IF mIterator \in mRegClients THEN "up" ELSE "down"
  /\ mRegClients' = mRegClients \ {mIterator}
  /\ Untimed(mRegistry[k])
  /\ Answer(k, "gone")
  /\ mIterator' = end
  /\ task' = Set(task, k, "shutdown")
  /\ UNCHANGED <<mReg, mRegistry, newReg, accepting, troubles>>

\* recv returns 0, and the loop is left.
ReceiveEnd(k) ==
  /\ server = "up" /\ task[k] = "receive"
  /\ stage[k] = "gone" /\ request[k] \notin Message
  /\ task' = Set(task, k, "shutdown")
  /\ UNCHANGED <<client, mRegistry, newReg, reset, registry, accepting, server,
                 troubles>>

\* msmShutdown; on a connection that was reset it may exit the server.
Shutdown(k) ==
  /\ server = "up" /\ task[k] = "shutdown"
  /\ task' = Set(task, k, "ended")
  /\ stage' = Set(stage, k, "gone")
  /\ request' = Set(request, k, "none")
  /\ server' \in IF k \in reset THEN {"up", "down"} ELSE {"up"}
  /\ reset' = reset \ {k}
  /\ mRegistry' = Set(mRegistry, k, 0) /\ mReg' = Set(mReg, k, 0)
  /\ UNCHANGED <<newReg, registry, accepting, troubles>>

Task(k) ==
  \/ ReceiveRegister(k) \/ RegisterClient(k) \/ ConfirmFreq(k)
  \/ FindData(k) \/ AnswerData(k) \/ FindTerm(k) \/ Terminate(k)
  \/ ReceiveEnd(k) \/ Shutdown(k)

-----------------------------------------------------------------------------
(* The acceptor: controlClients, then a new client or, at the limit, the   *)
(* end of all.                                                             *)

\* The next i of controlClients, or the test of the limit after the last.
NextIndex ==
  IF index + 1 < MaxClients
    THEN index' = index + 1 /\ UNCHANGED acceptor
    ELSE index' = 0 /\ acceptor' = IF Len(mDataVec') < MaxClients THEN "accept" ELSE "join"

InTime ==
  /\ server = "up" /\ acceptor = "control"
  /\ UNCHANGED mDataVec
  /\ NextIndex
  /\ UNCHANGED <<client, threads, registry, server, troubles>>

\* More than a second of the server's CPU time since the last request, which
\* takes as long as it takes; it passes for a client that is gone.
TooSlow ==
  /\ server = "up" /\ acceptor = "control" /\ index \in mTimesForClients
  /\ \/ UNCHANGED troubles /\ \E e \in Found(index) : stage[e.dataCode] = "gone"
     \/ troubles < MaxTroubles /\ troubles' = troubles + 1

\* pData->mRegistry; the data of a thread that has ended is freed.
ReadRegistry(k) ==
  IF task[k] = "ended" THEN Registry \cup {NoRegistry} ELSE {mRegistry[k]}

Without(s, i) == SubSeq(s, 1, i - 1) \o SubSeq(s, i + 1, Len(s))

\* The registry that is too old is taken for the place of its client's data.
EraseClient ==
  /\ TooSlow /\ MayHandle
  /\ index < Len(mDataVec)
  /\ \E r \in ReadRegistry(mDataVec[index + 1]) :
       \/ \E e \in Found(r) :
            /\ mRegClients' = mRegClients \ {e}
            /\ Untimed(r)
       \/ Found(r) = {} /\ UNCHANGED <<mRegClients, mTimesForClients>>
  /\ mIterator' = end
  /\ mDataVec' = Without(mDataVec, index + 1)
  /\ NextIndex
  /\ UNCHANGED <<client, threads, server>>

\* Behind the end of the vectors anything may happen.
EraseNothing ==
  /\ TooSlow
  /\ index >= Len(mDataVec)
  /\ server' = "down"
  /\ UNCHANGED <<client, threads, registry, accepting>>

Accept(k) ==
  /\ server = "up" /\ acceptor = "accept"
  /\ stage[k] # "off" /\ task[k] = "none"
  /\ mDataVec' = Append(mDataVec, k)
  /\ task' = Set(task, k, "receive")
  /\ acceptor' = "control" /\ UNCHANGED index
  /\ UNCHANGED <<client, mRegistry, newReg, reset, registry, server, troubles>>

Ended == \A i \in 1 .. Len(mDataVec) : task[mDataVec[i]] = "ended"

Join ==
  /\ server = "up" /\ acceptor = "join" /\ Ended
  /\ mDataVec' = <<>>
  /\ acceptor' = "control" /\ UNCHANGED index
  /\ UNCHANGED <<client, threads, registry, server, troubles>>

Acceptor ==
  InTime \/ EraseClient \/ EraseNothing \/ Join \/ \E k \in Connection : Accept(k)

Client(k) == Connect(k) \/ SendFreq(k) \/ SendRequest(k) \/ SendTerm(k) \/ DropOut(k)

\* A server that went down, or no client left to come.
Finished ==
  /\ server = "down" \/ \A k \in Connection : stage[k] # "off"
  /\ UNCHANGED vars

Next ==
  \/ Acceptor
  \/ \E k \in Connection : Client(k) \/ Task(k)
  \/ Finished

Spec == Init /\ [][Next]_vars

\* The acceptor and the threads go on when they can, and a client's timer goes on
\* asking; nothing makes a user stop it.
FairSpec ==
  /\ Spec /\ WF_vars(Acceptor)
  /\ \A k \in Connection : WF_vars(Task(k)) /\ WF_vars(SendFreq(k) \/ SendRequest(k))

-----------------------------------------------------------------------------
(* Properties.                                                             *)

TypeOK ==
  /\ stage \in [Connection -> {"off", "connected", "registered", "ready", "gone"}]
  /\ request \in [Connection -> Message \cup {"none", "lost"}]
  /\ mReg \in [Connection -> Registry \cup {NoRegistry}]
  /\ task \in [Connection -> {"none", "receive", "shutdown", "ended"} \cup InHandler]
  /\ mRegistry \in [Connection -> Registry \cup {NoRegistry}]
  /\ newReg \in [Connection -> Registry \cup {NoRegistry}]
  /\ reset \subseteq Connection
  /\ mRegClients \subseteq Entry /\ mIterator \in Entry \cup {end}
  /\ mTimesForClients \subseteq Registry
  /\ mDataVec \in Seq(Connection)
  /\ acceptor \in {"control", "accept", "join"} /\ index \in Registry
  /\ server \in {"up", "down"}
  /\ troubles \in Nat

\* No two clients hold the same registry: "find available registry".
RegistriesDiffer ==
  server = "up" =>
    \A d, e \in mRegClients : d.registry = e.registry => d = e

\* controlClients looks at the times of the registered clients and no others.
TimesMatch ==
  server = "up" => mTimesForClients = {e.registry : e \in mRegClients}

\* As long as clients end with TERM_COM and ask in time, the registered ones
\* are those that have been told their registry and not yet of their end.
RegisteredUntilStop ==
  orderly =>
    mRegClients = {EntryOf(mReg[k], k) :
                     k \in {c \in Connection : stage[c] \in {"registered", "ready"}}}

\* A client whose registry is its own gets the values it asked for and not
\* another's: "only send back those values, which are requested by the client".
OwnAnswer ==
  orderly /\ RegistriesDiffer =>
    \A k \in Connection : task[k] = "answer" => mIterator = EntryOf(mReg[k], k)

\* Until then there are never more than MaxClients clients served.
ClientsLimited ==
  orderly => Cardinality({k \in Connection : task[k] \notin {"none", "ended"}}) <= MaxClients

\* Until then there is a registry for every client that is accepted, and no
\* access goes astray.
OrderlyStaysUp == orderly => server = "up"

\* Until then no message of a registered client stays unanswered: its thread
\* is there to read it and finds the registration.
RequestsHandled ==
  orderly =>
    \A k \in Connection :
      stage[k] \in {"registered", "ready"} =>
        task[k] \in {"receive", "answer", "erase"} /\ request[k] # "lost"

\* No client is queued for ever next to a free place: "queued until an active
\* client logs off or times out" says the manual.
QueuedServed ==
  \A k \in Connection :
    ~ <>[] /\ stage[k] = "connected" /\ task[k] = "none"
           /\ Cardinality({j \in Connection : task[j] \notin {"none", "ended"}}) < MaxClients
=============================================================================
