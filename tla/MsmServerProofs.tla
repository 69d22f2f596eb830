-------------------------- MODULE MsmServerProofs --------------------------
(***************************************************************************)
(* Any number of clients of a server that handles messages one after the   *)
(* other, however many drop out or are too slow.                           *)
(***************************************************************************)
EXTENDS MsmServer, FiniteSetTheorems, TLAPS

\* One thread is inside a handler, and what it has looked up still holds.
HandlerInv ==
  /\ \A j, k \in Connection : task[j] \in InHandler /\ task[k] \in InHandler => j = k
  /\ \A k \in Connection :
       /\ task[k] = "register" => newReg[k] = NoRegistry \/ Found(newReg[k]) = {}
       /\ task[k] \in {"answer", "erase"} =>
            mIterator \in mRegClients /\ mIterator.registry = mRegistry[k]

\* Every registration has a registry of its own, and the time with it.
ListInv ==
  /\ \A e \in mRegClients : e.registry \in Registry
  /\ \A d, e \in mRegClients : d.registry = e.registry => d = e
  /\ mTimesForClients = {e.registry : e \in mRegClients}

\* Where the client of a connection is, by its message and by its thread.
ConnectionInv(k) ==
  /\ request[k] = "CLIENT_REG" => stage[k] = "connected"
  /\ request[k] = "SET_FREQ" => stage[k] = "registered"
  /\ request[k] \in {"DATA_REQ", "TERM_COM"} => stage[k] = "ready"
  /\ request[k] # "lost"
  /\ stage[k] = "off" => task[k] = "none"
  /\ task[k] = "none" => stage[k] \in {"off", "connected"}
  /\ stage[k] = "connected" => request[k] = "CLIENT_REG"
  /\ task[k] = "register" => request[k] = "CLIENT_REG"
  /\ task[k] = "answer" => request[k] = "DATA_REQ"
  /\ task[k] = "erase" => request[k] = "TERM_COM"
  /\ task[k] \in {"shutdown", "ended"} => stage[k] = "gone"
  /\ stage[k] = "ready" => mRegistry[k] = mReg[k]

Told == {k \in Connection : stage[k] \in {"registered", "ready"}}

\* While no client drops out or is too slow.
OrderlyInv ==
  /\ \A k \in Connection : ConnectionInv(k)
  /\ mRegClients = {EntryOf(mReg[k], k) : k \in Told}

Served == {k \in Connection : task[k] \notin {"none", "ended"}}
Accepted == {mDataVec[i] : i \in 1 .. Len(mDataVec)}

\* Every thread at work is in mDataVec, which keeps to the limit; so there is a
\* registry for every client.
ServingInv ==
  /\ Served \subseteq Accepted
  /\ Len(mDataVec) <= MaxClients
  /\ acceptor = "accept" => Len(mDataVec) < MaxClients
  /\ \A k \in Connection : task[k] = "register" => newReg[k] \in Registry
  /\ server = "up" /\ reset = {}

IInv ==
  /\ TypeOK
  /\ server = "up" => HandlerInv /\ ListInv
  /\ orderly => OrderlyInv /\ ServingInv

-----------------------------------------------------------------------------
LEMMA EntryIs ==
  ASSUME NEW r \in Registry \cup {NoRegistry}, NEW k \in Connection
  PROVE  /\ EntryOf(r, k) \in Entry
         /\ EntryOf(r, k).registry = r /\ EntryOf(r, k).dataCode = k
  BY DEF EntryOf, Entry

LEMMA WithoutIs ==
  ASSUME NEW s \in Seq(Connection), NEW i \in 1 .. Len(s)
  PROVE  Without(s, i) \in Seq(Connection)
<1>1. SubSeq(s, 1, i - 1) \in Seq(Connection)
  OBVIOUS
<1>2. SubSeq(s, i + 1, Len(s)) \in Seq(Connection)
  OBVIOUS
<1> QED
  BY <1>1, <1>2 DEF Without

LEMMA InitType == Init => TypeOK
  BY ClientsAssumption DEF Init, TypeOK, Registry, end

LEMMA StepType == TypeOK /\ [Next]_vars => TypeOK'
<1> SUFFICES ASSUME TypeOK, [Next]_vars PROVE TypeOK'
  OBVIOUS
<1> USE ClientsAssumption, TroublesAssumption
        DEF TypeOK, client, threads, registry, accepting, Set, Message, InHandler
<1>1. ASSUME NEW k \in Connection, Connect(k) PROVE TypeOK'
  BY <1>1 DEF Connect
<1>2. ASSUME NEW k \in Connection, SendFreq(k) PROVE TypeOK'
  BY <1>2 DEF SendFreq, Send
<1>3. ASSUME NEW k \in Connection, SendRequest(k) PROVE TypeOK'
  BY <1>3 DEF SendRequest, Send
<1>4. ASSUME NEW k \in Connection, SendTerm(k) PROVE TypeOK'
  BY <1>4 DEF SendTerm, Send
<1>5. ASSUME NEW k \in Connection, DropOut(k) PROVE TypeOK'
  BY <1>5 DEF DropOut
<1>6. ASSUME NEW k \in Connection, ReceiveRegister(k) PROVE TypeOK'
  BY <1>6 DEF ParseMsg, ReceiveRegister, Receives
<1>7. ASSUME NEW k \in Connection, RegisterClient(k) PROVE TypeOK'
  <2>1. mRegClients' \subseteq Entry
    <3>1. newReg[k] \in Registry \cup {NoRegistry}
      BY DEF TypeOK
    <3>2. EntryOf(newReg[k], k) \in Entry
      BY <3>1, EntryIs
    <3> QED
      BY <1>7, <3>2 DEF RegisterClient
  <2>2. stage' \in [Connection -> {"off", "connected", "registered", "ready", "gone"}]
    BY <1>7 DEF RegisterClient, Answer
  <2>3. newReg' \in [Connection -> Registry \cup {NoRegistry}]
    BY <1>7 DEF RegisterClient, Registry
  <2> QED
    BY <1>7, <2>1, <2>2, <2>3 DEF RegisterClient, Answer, Timed
<1>8. ASSUME NEW k \in Connection, ConfirmFreq(k) PROVE TypeOK'
  BY <1>8 DEF ParseMsg, ConfirmFreq, Receives, Answer, Ignore, Found
<1>9. ASSUME NEW k \in Connection, FindData(k) PROVE TypeOK'
  BY <1>9 DEF ParseMsg, FindData, Receives, Ignore, Found
<1>10. ASSUME NEW k \in Connection, AnswerData(k) PROVE TypeOK'
  BY <1>10 DEF AnswerData, Answer, Timed
<1>11. ASSUME NEW k \in Connection, FindTerm(k) PROVE TypeOK'
  BY <1>11 DEF ParseMsg, FindTerm, Receives, Ignore, Found
<1>12. ASSUME NEW k \in Connection, Terminate(k) PROVE TypeOK'
  BY <1>12 DEF Terminate, Answer, Untimed
<1>13. ASSUME NEW k \in Connection, ReceiveEnd(k) PROVE TypeOK'
  BY <1>13 DEF ReceiveEnd
<1>14. ASSUME NEW k \in Connection, Shutdown(k) PROVE TypeOK'
  BY <1>14 DEF Shutdown, Registry
<1>15. CASE InTime
  BY <1>15 DEF InTime, NextIndex, Registry
<1>16. CASE EraseClient
  <2>1. mDataVec' \in Seq(Connection)
    BY <1>16, WithoutIs DEF EraseClient, TooSlow, Registry
  <2>2. mRegClients' \subseteq Entry /\ mTimesForClients' \subseteq Registry
    BY <1>16 DEF EraseClient, Untimed
  <2>3. troubles' \in Nat
    BY <1>16 DEF EraseClient, TooSlow
  <2>4. acceptor' \in {"control", "accept", "join"} /\ index' \in Registry
    BY <1>16 DEF EraseClient, NextIndex, Registry
  <2> QED
    BY <1>16, <2>1, <2>2, <2>3, <2>4 DEF EraseClient
<1>17. CASE EraseNothing
  BY <1>17 DEF EraseNothing, TooSlow
<1>18. ASSUME NEW k \in Connection, Accept(k) PROVE TypeOK'
  BY <1>18 DEF Accept
<1>19. CASE Join
  BY <1>19 DEF Join
<1>20. CASE Finished \/ UNCHANGED vars
  BY <1>20 DEF Finished, vars
<1> QED
  BY <1>1, <1>2, <1>3, <1>4, <1>5, <1>6, <1>7, <1>8, <1>9, <1>10, <1>11, <1>12, <1>13,
     <1>14, <1>15, <1>16, <1>17, <1>18, <1>19, <1>20
  DEF Next, Acceptor, Client, Task

\* Every variable keeps to its values, also after a client has dropped out.
THEOREM TypeCorrect == Spec => []TypeOK
  BY InitType, StepType, PTL DEF Spec

-----------------------------------------------------------------------------
LEMMA InitInv == Init => HandlerInv /\ ListInv /\ OrderlyInv /\ ServingInv
<1> SUFFICES ASSUME Init PROVE HandlerInv /\ ListInv /\ OrderlyInv /\ ServingInv
  OBVIOUS
<1>1. HandlerInv
  BY DEF Init, HandlerInv, InHandler
<1>2. ListInv
  BY DEF Init, ListInv
<1>3. Told = {}
  BY DEF Init, Told
<1>4. \A k \in Connection : ConnectionInv(k)
  BY DEF Init, ConnectionInv
<1>5. ServingInv
  BY ClientsAssumption DEF Init, ServingInv, Served, Accepted
<1> QED
  BY <1>1, <1>2, <1>3, <1>4, <1>5 DEF OrderlyInv, Init

\* What a step that leaves the list alone must show of it.
LEMMA SameList ==
  ASSUME ListInv, UNCHANGED <<mRegClients, mTimesForClients>>
  PROVE  ListInv'
  BY DEF ListInv

\* Where a connection is after a step of another one.
LEMMA OtherConnection ==
  ASSUME NEW k \in Connection, ConnectionInv(k),
         request'[k] = request[k], stage'[k] = stage[k], task'[k] = task[k],
         mRegistry'[k] = mRegistry[k], mReg'[k] = mReg[k]
  PROVE  ConnectionInv(k)'
  BY DEF ConnectionInv

LEMMA StepHandler ==
  ASSUME OneHandler, IInv, server = "up", server' = "up", [Next]_vars
  PROVE  HandlerInv'
<1> USE ClientsAssumption
        DEF IInv, TypeOK, HandlerInv, Found, InHandler, client, threads, registry,
            accepting, Set, Message
<1>1. ASSUME NEW k \in Connection, Connect(k) PROVE HandlerInv'
  BY <1>1 DEF Connect
<1>2. ASSUME NEW k \in Connection, SendFreq(k) \/ SendRequest(k) \/ SendTerm(k)
      PROVE  HandlerInv'
  BY <1>2 DEF SendFreq, SendRequest, SendTerm, Send
<1>3. ASSUME NEW k \in Connection, DropOut(k) PROVE HandlerInv'
  BY <1>3 DEF DropOut
<1>4. ASSUME NEW k \in Connection, ReceiveRegister(k) PROVE HandlerInv'
  <2>1. newReg'[k] = NoRegistry \/ Found(newReg'[k]) = {}
    BY <1>4 DEF ParseMsg, ReceiveRegister, GetReg
  <2>2. \A j \in Connection : task[j] \notin InHandler
    BY <1>4 DEF ParseMsg, ReceiveRegister, Receives, MayHandle
  <2> QED
    BY <1>4, <2>1, <2>2 DEF ParseMsg, ReceiveRegister, Receives
<1>5. ASSUME NEW k \in Connection, RegisterClient(k) PROVE HandlerInv'
  BY <1>5 DEF RegisterClient
<1>6. ASSUME NEW k \in Connection, ConfirmFreq(k) PROVE HandlerInv'
  BY <1>6 DEF ParseMsg, ConfirmFreq, Receives, MayHandle
<1>7. ASSUME NEW k \in Connection, FindData(k) PROVE HandlerInv'
  BY <1>7 DEF ParseMsg, FindData, Receives, MayHandle, Ignore
<1>8. ASSUME NEW k \in Connection, AnswerData(k) PROVE HandlerInv'
  BY <1>8 DEF AnswerData
<1>9. ASSUME NEW k \in Connection, FindTerm(k) PROVE HandlerInv'
  BY <1>9 DEF ParseMsg, FindTerm, Receives, MayHandle, Ignore
<1>10. ASSUME NEW k \in Connection, Terminate(k) PROVE HandlerInv'
  BY <1>10 DEF Terminate
<1>11. ASSUME NEW k \in Connection, ReceiveEnd(k) PROVE HandlerInv'
  BY <1>11 DEF ReceiveEnd
<1>12. ASSUME NEW k \in Connection, Shutdown(k) PROVE HandlerInv'
  BY <1>12 DEF Shutdown
<1>13. CASE InTime
  BY <1>13 DEF InTime
<1>14. CASE EraseClient
  BY <1>14 DEF EraseClient, MayHandle
<1>15. CASE EraseNothing
  BY <1>15 DEF EraseNothing
<1>16. ASSUME NEW k \in Connection, Accept(k) PROVE HandlerInv'
  BY <1>16 DEF Accept
<1>17. CASE Join
  BY <1>17 DEF Join
<1>18. CASE Finished \/ UNCHANGED vars
  BY <1>18 DEF Finished, vars
<1> QED
  BY <1>1, <1>2, <1>3, <1>4, <1>5, <1>6, <1>7, <1>8, <1>9, <1>10, <1>11, <1>12, <1>13,
     <1>14, <1>15, <1>16, <1>17, <1>18
  DEF Next, Acceptor, Client, Task

LEMMA StepList ==
  ASSUME OneHandler, IInv, server = "up", server' = "up", [Next]_vars
  PROVE  ListInv'
<1> USE DEF client, threads, registry, accepting
<1>1. ASSUME NEW k \in Connection, RegisterClient(k) PROVE ListInv'
  <2> DEFINE r == newReg[k]
  <2>1. r \in Registry /\ Found(r) = {}
    BY <1>1 DEF RegisterClient, IInv, TypeOK, HandlerInv
  <2>2. EntryOf(r, k).registry = r
    BY <2>1, EntryIs
  <2>3. mRegClients' = mRegClients \cup {EntryOf(r, k)}
    BY <1>1 DEF RegisterClient
  <2>4. mTimesForClients' = mTimesForClients \cup {r}
    BY <1>1, <2>1 DEF RegisterClient, Timed
  <2> HIDE DEF r
  <2> QED
    BY <2>1, <2>2, <2>3, <2>4 DEF IInv, ListInv, Found
<1>2. ASSUME NEW k \in Connection, AnswerData(k) PROVE ListInv'
  <2>1. mRegistry[k] \in mTimesForClients
    BY <1>2 DEF AnswerData, IInv, HandlerInv, ListInv
  <2>2. UNCHANGED <<mRegClients, mTimesForClients>>
    BY <1>2, <2>1 DEF AnswerData, Timed
  <2> QED
    BY <2>2, SameList DEF IInv
<1>3. ASSUME NEW e \in mRegClients,
             mRegClients' = mRegClients \ {e}, Untimed(e.registry)
      PROVE  ListInv'
  BY <1>3 DEF IInv, ListInv, Untimed
<1>4. ASSUME NEW k \in Connection, Terminate(k) PROVE ListInv'
  BY <1>3, <1>4 DEF Terminate, IInv, HandlerInv
<1>5. CASE EraseClient
  <2>1. CASE UNCHANGED <<mRegClients, mTimesForClients>>
    BY <2>1, SameList DEF IInv
  <2>2. CASE ~ UNCHANGED <<mRegClients, mTimesForClients>>
    BY <1>3, <1>5, <2>2 DEF EraseClient, Found
  <2> QED
    BY <2>1, <2>2
<1>6. CASE UNCHANGED <<mRegClients, mTimesForClients>>
  BY <1>6, SameList DEF IInv
<1>7. ASSUME NEW k \in Connection,
             \/ ReceiveRegister(k) \/ ConfirmFreq(k) \/ FindData(k) \/ FindTerm(k)
             \/ ReceiveEnd(k) \/ Shutdown(k)
      PROVE  UNCHANGED <<mRegClients, mTimesForClients>>
  BY <1>7
  DEF ParseMsg, ReceiveRegister, ConfirmFreq, FindData, FindTerm, ReceiveEnd, Shutdown
<1>8. ASSUME NEW k \in Connection, Client(k) \/ Accept(k)
      PROVE  UNCHANGED <<mRegClients, mTimesForClients>>
  BY <1>8 DEF Client, Connect, SendFreq, SendRequest, SendTerm, Send, DropOut, Accept
<1>9. CASE InTime \/ EraseNothing \/ Join \/ Finished \/ UNCHANGED vars
  BY <1>6, <1>9 DEF InTime, EraseNothing, Join, Finished, vars
<1> QED
  BY <1>1, <1>2, <1>4, <1>5, <1>6, <1>7, <1>8, <1>9 DEF Next, Acceptor, Task

\* A step of one connection that neither enrolls nor erases it.
LEMMA SameTold ==
  ASSUME OrderlyInv, NEW k \in Connection, UNCHANGED mRegClients,
         \A j \in Connection \ {k} : UNCHANGED <<stage[j], mReg[j]>>,
         k \in Told <=> k \in Told', k \in Told => UNCHANGED mReg[k]
  PROVE  mRegClients' = {EntryOf(mReg'[j], j) : j \in Told'}
<1>1. Told' = Told
  BY DEF Told
<1>2. \A j \in Told : mReg'[j] = mReg[j]
  BY DEF Told
<1> QED
  BY <1>1, <1>2 DEF OrderlyInv

\* The registration of a connection, and what looking for it finds.
LEMMA OwnEntry ==
  ASSUME OrderlyInv, ListInv, TypeOK, NEW k \in Told
  PROVE  Found(mReg[k]) = {EntryOf(mReg[k], k)}
<1>1. EntryOf(mReg[k], k) \in mRegClients
  BY DEF OrderlyInv
<1>2. EntryOf(mReg[k], k).registry = mReg[k]
  BY EntryIs DEF TypeOK, Told
<1> QED
  BY <1>1, <1>2 DEF Found, ListInv

\* No registration outlives its client.
LEMMA NobodyGone ==
  ASSUME OrderlyInv, TypeOK, NEW e \in mRegClients
  PROVE  stage[e.dataCode] # "gone"
<1>1. PICK k \in Told : e = EntryOf(mReg[k], k)
  BY DEF OrderlyInv
<1>2. e.dataCode = k
  BY <1>1, EntryIs DEF TypeOK, Told
<1> QED
  BY <1>2 DEF Told

LEMMA StepOrderly ==
  ASSUME OneHandler, IInv, orderly', [Next]_vars
  PROVE  OrderlyInv'
<1> USE DEF client, threads, registry, accepting
<1>1. ASSUME UNCHANGED <<client, task, mRegistry, mRegClients>>, orderly
      PROVE  OrderlyInv'
  BY <1>1 DEF IInv, OrderlyInv, ConnectionInv, Told
<1>2. CASE UNCHANGED vars \/ Finished
  BY <1>1, <1>2 DEF Finished, vars, orderly
<1>3. CASE InTime \/ Join
  BY <1>1, <1>3 DEF InTime, Join, orderly
<1>4. CASE EraseClient \/ EraseNothing
  <2>1. troubles \in Nat /\ troubles' = 0
    BY DEF IInv, TypeOK, orderly
  <2>2. server = "up" /\ TooSlow
    BY <1>4 DEF EraseClient, EraseNothing, TooSlow
  <2>3. orderly /\ \E e \in Found(index) : stage[e.dataCode] = "gone"
    BY <2>1, <2>2 DEF TooSlow, orderly
  <2> QED
    BY <2>3, NobodyGone DEF IInv, Found
<1>5. ASSUME NEW k \in Connection, DropOut(k) PROVE FALSE
  BY <1>5 DEF DropOut, IInv, TypeOK, orderly
<1>6. ASSUME orderly, server = "up", NEW k \in Connection,
             ConnectionInv(k)',
             \A j \in Connection \ {k} :
               UNCHANGED <<request[j], stage[j], task[j], mRegistry[j], mReg[j]>>,
             mRegClients' = {EntryOf(mReg'[j], j) : j \in Told'}
      PROVE  OrderlyInv'
  <2>1. \A j \in Connection \ {k} : ConnectionInv(j)'
    BY <1>6, OtherConnection DEF IInv, OrderlyInv
  <2> QED
    BY <1>6, <2>1 DEF OrderlyInv
<1> USE DEF Set, TypeOK
<1>7. ASSUME NEW k \in Connection,
             Connect(k) \/ SendFreq(k) \/ SendRequest(k) \/ SendTerm(k)
      PROVE  OrderlyInv'
  <2>1. orderly /\ server = "up" /\ OrderlyInv /\ ConnectionInv(k) /\ TypeOK
    BY <1>7 DEF Connect, SendFreq, SendRequest, SendTerm, Send, orderly, IInv, OrderlyInv
  <2>2. ConnectionInv(k)'
    BY <1>7, <2>1
    DEF Connect, SendFreq, SendRequest, SendTerm, Send, ConnectionInv, Message
  <2>3. mRegClients' = {EntryOf(mReg'[j], j) : j \in Told'}
    BY <1>7, <2>1, SameTold DEF Connect, SendFreq, SendRequest, SendTerm, Send, Told
  <2> QED
    BY <1>6, <1>7, <2>1, <2>2, <2>3
    DEF Connect, SendFreq, SendRequest, SendTerm, Send
<1>8. ASSUME NEW k \in Connection, ReceiveRegister(k) \/ ReceiveEnd(k) \/ Accept(k)
      PROVE  OrderlyInv'
  <2>1. orderly /\ server = "up" /\ OrderlyInv /\ ConnectionInv(k) /\ TypeOK
    BY <1>8 DEF ParseMsg, ReceiveRegister, Receives, ReceiveEnd, Accept, orderly, IInv,
      OrderlyInv
  <2>2. ConnectionInv(k)'
    BY <1>8, <2>1
    DEF ParseMsg, ReceiveRegister, Receives, ReceiveEnd, Accept, ConnectionInv, Message
  <2>3. mRegClients' = {EntryOf(mReg'[j], j) : j \in Told'}
    BY <1>8, <2>1, SameTold DEF ParseMsg, ReceiveRegister, ReceiveEnd, Accept, Told
  <2> QED
    BY <1>6, <1>8, <2>1, <2>2, <2>3 DEF ParseMsg, ReceiveRegister, ReceiveEnd, Accept
<1>9. ASSUME NEW k \in Connection, RegisterClient(k) PROVE OrderlyInv'
  <2>1. orderly /\ server = "up" /\ OrderlyInv /\ ConnectionInv(k) /\ TypeOK
    BY <1>9 DEF RegisterClient, orderly, IInv, OrderlyInv
  <2>2. stage[k] = "connected" /\ stage'[k] = "registered"
    BY <1>9, <2>1 DEF RegisterClient, Answer, ConnectionInv
  <2>3. ConnectionInv(k)'
    BY <1>9, <2>1, <2>2 DEF RegisterClient, Answer, ConnectionInv
  <2>4. /\ \A j \in Connection \ {k} :
             UNCHANGED <<request[j], stage[j], task[j], mRegistry[j], mReg[j]>>
        /\ mReg'[k] = newReg[k]
        /\ mRegClients' = mRegClients \cup {EntryOf(newReg[k], k)}
    BY <1>9 DEF RegisterClient, Answer, IInv
  <2>5. Told' = Told \cup {k} /\ k \notin Told
    BY <2>2, <2>4 DEF Told
  <2>6. mRegClients' = {EntryOf(mReg'[j], j) : j \in Told'}
    BY <2>1, <2>4, <2>5 DEF OrderlyInv, Told
  <2> QED
    BY <1>6, <2>1, <2>3, <2>4, <2>6
<1>10. ASSUME NEW k \in Connection, ConfirmFreq(k) \/ FindData(k) \/ FindTerm(k)
       PROVE  OrderlyInv'
  <2>1. /\ orderly /\ server = "up" /\ OrderlyInv /\ ConnectionInv(k) /\ TypeOK /\ ListInv
        /\ task[k] = "receive"
    BY <1>10 DEF ParseMsg, ConfirmFreq, FindData, FindTerm, Receives, orderly, IInv,
      OrderlyInv
  <2>2. k \in Told
    BY <1>10, <2>1
    DEF ParseMsg, ConfirmFreq, FindData, FindTerm, Receives, ConnectionInv, Told
  <2>3. Found(mReg[k]) # {}
    BY <2>1, <2>2, OwnEntry
  <2>4. ConnectionInv(k)'
    <3>1. CASE ConfirmFreq(k)
      BY <2>1, <2>3, <3>1 DEF ParseMsg, ConfirmFreq, Receives, Answer, ConnectionInv
    <3>2. CASE FindData(k)
      BY <2>1, <2>3, <3>2 DEF ParseMsg, FindData, Receives, ConnectionInv
    <3>3. CASE FindTerm(k)
      BY <2>1, <2>3, <3>3 DEF ParseMsg, FindTerm, Receives, ConnectionInv
    <3> QED
      BY <1>10, <3>1, <3>2, <3>3
  <2>5. \A j \in Connection \ {k} :
          UNCHANGED <<request[j], stage[j], task[j], mRegistry[j], mReg[j]>>
    BY <1>10 DEF ParseMsg, ConfirmFreq, FindData, FindTerm, Answer, Ignore, IInv
  <2>6. k \in Told'
    <3>1. stage[k] # "gone"
      BY <2>2 DEF Told
    <3>2. CASE ConfirmFreq(k)
      BY <2>1, <2>3, <3>1, <3>2 DEF ParseMsg, ConfirmFreq, Answer, Told
    <3>3. CASE FindData(k) \/ FindTerm(k)
      BY <2>1, <2>2, <2>3, <2>4, <3>3
      DEF ParseMsg, FindData, FindTerm, Receives, Ignore, Told, ConnectionInv
    <3> QED
      BY <1>10, <3>2, <3>3
  <2>7. UNCHANGED <<mReg, mRegClients>>
    BY <1>10 DEF ParseMsg, ConfirmFreq, FindData, FindTerm
  <2>8. mRegClients' = {EntryOf(mReg'[j], j) : j \in Told'}
    BY <2>1, <2>2, <2>5, <2>6, <2>7, SameTold
  <2> QED
    BY <1>6, <2>1, <2>4, <2>5, <2>8
<1>11. ASSUME NEW k \in Connection, AnswerData(k) PROVE OrderlyInv'
  <2>1. orderly /\ server = "up" /\ OrderlyInv /\ ConnectionInv(k) /\ TypeOK
    BY <1>11 DEF AnswerData, orderly, IInv, OrderlyInv
  <2>2. ConnectionInv(k)' /\ stage[k] = "ready" /\ stage'[k] = "ready"
    BY <1>11, <2>1 DEF AnswerData, Answer, ConnectionInv
  <2>3. \A j \in Connection \ {k} :
          UNCHANGED <<request[j], stage[j], task[j], mRegistry[j], mReg[j]>>
    BY <1>11 DEF AnswerData, Answer, IInv
  <2>4. mRegClients' = {EntryOf(mReg'[j], j) : j \in Told'}
    BY <1>11, <2>1, <2>2, <2>3, SameTold DEF AnswerData, Told
  <2> QED
    BY <1>6, <2>1, <2>2, <2>3, <2>4
<1>12. ASSUME NEW k \in Connection, Terminate(k) PROVE OrderlyInv'
  <2>1. /\ orderly /\ server = "up" /\ OrderlyInv /\ ConnectionInv(k) /\ TypeOK
        /\ ListInv /\ HandlerInv
    BY <1>12 DEF Terminate, orderly, IInv, OrderlyInv
  <2>2. stage[k] = "ready" /\ mRegistry[k] = mReg[k] /\ stage'[k] = "gone"
    BY <1>12, <2>1 DEF Terminate, Answer, ConnectionInv
  <2>3. ConnectionInv(k)'
    BY <1>12, <2>1, <2>2 DEF Terminate, Answer, ConnectionInv
  <2>4. \A j \in Connection \ {k} :
          UNCHANGED <<request[j], stage[j], task[j], mRegistry[j], mReg[j]>>
    BY <1>12 DEF Terminate, Answer, IInv
  <2>5. k \in Told /\ Told' = Told \ {k}
    BY <2>2, <2>4 DEF Told
  <2>6. mIterator = EntryOf(mReg[k], k)
    BY <1>12, <2>1, <2>2, <2>5, OwnEntry DEF Terminate, HandlerInv, Found
  <2>7. mRegClients' = mRegClients \ {EntryOf(mReg[k], k)} /\ UNCHANGED mReg
    BY <1>12, <2>6 DEF Terminate
  <2>8. \A j \in Told : EntryOf(mReg[j], j) = EntryOf(mReg[k], k) => j = k
    <3>1. \A j \in Told : EntryOf(mReg[j], j).dataCode = j
      BY <2>1, EntryIs DEF Told
    <3> QED
      BY <2>5, <3>1
  <2>9. mRegClients' = {EntryOf(mReg'[j], j) : j \in Told'}
    BY <2>1, <2>5, <2>7, <2>8 DEF OrderlyInv
  <2> QED
    BY <1>6, <2>1, <2>3, <2>4, <2>9
<1>13. ASSUME NEW k \in Connection, Shutdown(k) PROVE OrderlyInv'
  <2>1. orderly /\ server = "up" /\ OrderlyInv /\ ConnectionInv(k) /\ TypeOK
    BY <1>13 DEF Shutdown, orderly, IInv, OrderlyInv
  <2>2. ConnectionInv(k)' /\ stage[k] = "gone" /\ stage'[k] = "gone"
    BY <1>13, <2>1 DEF Shutdown, ConnectionInv
  <2>3. \A j \in Connection \ {k} :
          UNCHANGED <<request[j], stage[j], task[j], mRegistry[j], mReg[j]>>
    BY <1>13 DEF Shutdown, IInv
  <2>4. mRegClients' = {EntryOf(mReg'[j], j) : j \in Told'}
    BY <1>13, <2>1, <2>2, <2>3, SameTold DEF Shutdown, Told
  <2> QED
    BY <1>6, <2>1, <2>2, <2>3, <2>4
<1> QED
  BY <1>2, <1>3, <1>4, <1>5, <1>7, <1>8, <1>9, <1>10, <1>11, <1>12, <1>13
  DEF Next, Acceptor, Client, Task, Accept

LEMMA ServedBound ==
  ASSUME TypeOK, ServingInv
  PROVE  IsFiniteSet(Served) /\ Cardinality(Served) <= Len(mDataVec)
<1> DEFINE n == Len(mDataVec)
           f == [i \in 1 .. n |-> mDataVec[i]]
<1>1. n \in Nat
  BY DEF TypeOK
<1>2. f \in Surjection(1 .. n, Accepted)
  BY DEF Surjection, Accepted
<1> HIDE DEF f, n
<1>3. IsFiniteSet(1 .. n) /\ Cardinality(1 .. n) = n
  <2>1. n \in Int /\ 1 \in Int
    BY <1>1
  <2>2. Cardinality(1 .. n) = IF 1 > n THEN 0 ELSE n - 1 + 1
    BY <2>1, FS_Interval
  <2>3. n = IF 1 > n THEN 0 ELSE n - 1 + 1
    BY <1>1
  <2> QED
    BY <2>1, <2>2, <2>3, FS_Interval
<1>4. IsFiniteSet(Accepted) /\ Cardinality(Accepted) <= n
  BY <1>2, <1>3, FS_Surjection
<1>5. IsFiniteSet(Served) /\ Cardinality(Served) <= Cardinality(Accepted)
  BY <1>4, FS_Subset DEF ServingInv
<1>6. Cardinality(Served) <= n
  BY <1>1, <1>4, <1>5, FS_CardinalityType
<1> QED
  BY <1>5, <1>6 DEF n

\* A client that registers finds a registry: the others are held by fewer clients
\* than there are registries.
LEMMA RegistryLeft ==
  ASSUME TypeOK, OrderlyInv, ServingInv,
         NEW k \in Connection, task[k] = "receive", request[k] = "CLIENT_REG"
  PROVE  \E q \in Registry : Found(q) = {}
<1> SUFFICES ASSUME \A q \in Registry : Found(q) # {} PROVE FALSE
  OBVIOUS
<1> DEFINE holder == [q \in Registry |-> CHOOSE j \in Told : mReg[j] = q]
<1>1. ASSUME NEW q \in Registry PROVE \E j \in Told : mReg[j] = q
  <2>1. PICK e \in mRegClients : e.registry = q
    BY DEF Found
  <2>2. PICK j \in Told : e = EntryOf(mReg[j], j)
    BY DEF OrderlyInv
  <2> QED
    BY <2>1, <2>2, EntryIs DEF TypeOK, Told
<1>2. \A q \in Registry : holder[q] \in Told /\ mReg[holder[q]] = q
  BY <1>1
<1>3. holder \in Injection(Registry, Told)
  BY <1>2 DEF Injection, IsInjective
<1> HIDE DEF holder
<1>4. Told \subseteq Served \ {k} /\ k \in Served
  BY DEF Told, Served, OrderlyInv, ConnectionInv
<1>5. IsFiniteSet(Served) /\ Cardinality(Served) <= MaxClients
  BY ServedBound, FS_CardinalityType, ClientsAssumption DEF ServingInv, TypeOK
<1>6. IsFiniteSet(Served \ {k}) /\ Cardinality(Served \ {k}) = Cardinality(Served) - 1
  BY <1>4, <1>5, FS_RemoveElement
<1>7. IsFiniteSet(Told) /\ Cardinality(Told) <= Cardinality(Served \ {k})
  BY <1>4, <1>6, FS_Subset
<1>8. Cardinality(Registry) <= Cardinality(Told)
  BY <1>3, <1>7, FS_Injection
<1>9. Cardinality(Registry) = MaxClients
  BY FS_Interval, ClientsAssumption DEF Registry
<1> QED
  BY <1>5, <1>6, <1>7, <1>8, <1>9, FS_CardinalityType, ClientsAssumption

LEMMA StepServing ==
  ASSUME OneHandler, IInv, orderly', [Next]_vars
  PROVE  ServingInv'
<1> USE ClientsAssumption DEF client, threads, registry, accepting, Set
<1>1. ASSUME UNCHANGED <<threads, mDataVec, acceptor, server>>, orderly
      PROVE  ServingInv'
  BY <1>1 DEF IInv, ServingInv, Served, Accepted
<1>2. CASE UNCHANGED vars \/ Finished
  BY <1>1, <1>2 DEF Finished, vars, orderly
<1>3. CASE InTime
  BY <1>3 DEF InTime, NextIndex, orderly, IInv, TypeOK, ServingInv, Served, Accepted
<1>4. CASE EraseClient \/ EraseNothing
  <2>1. troubles \in Nat /\ troubles' = 0 /\ server = "up" /\ TooSlow
    BY <1>4 DEF IInv, TypeOK, orderly, EraseClient, EraseNothing, TooSlow
  <2>2. orderly /\ \E e \in Found(index) : stage[e.dataCode] = "gone"
    BY <2>1 DEF TooSlow, orderly
  <2> QED
    BY <2>2, NobodyGone DEF IInv, Found
<1>5. ASSUME NEW k \in Connection, DropOut(k) PROVE FALSE
  BY <1>5 DEF DropOut, IInv, TypeOK, orderly
<1>6. ASSUME NEW k \in Connection,
             Connect(k) \/ SendFreq(k) \/ SendRequest(k) \/ SendTerm(k)
      PROVE  ServingInv'
  BY <1>1, <1>6 DEF Connect, SendFreq, SendRequest, SendTerm, Send, orderly
<1>7. CASE Join
  <2>1. Served = {}
    BY <1>7 DEF Join, Ended, IInv, orderly, ServingInv, Served, Accepted
  <2> QED
    BY <1>7, <2>1 DEF Join, orderly, IInv, ServingInv, Served, Accepted
<1>8. ASSUME NEW k \in Connection, Accept(k) PROVE ServingInv'
  <2>1. mDataVec \in Seq(Connection) /\ ServingInv /\ acceptor = "accept"
    BY <1>8 DEF Accept, IInv, TypeOK, orderly
  <2>2. mDataVec' = Append(mDataVec, k) /\ task' = [task EXCEPT ![k] = "receive"]
    BY <1>8 DEF Accept
  <2>3. Accepted' = Accepted \cup {k}
    BY <2>1, <2>2 DEF Accepted
  <2>4. Served' \subseteq Served \cup {k}
    BY <2>2 DEF Served, IInv, TypeOK
  <2>5. Len(mDataVec') <= MaxClients /\ acceptor' = "control"
    BY <1>8, <2>1, <2>2 DEF ServingInv, Accept
  <2> QED
    BY <1>8, <2>1, <2>2, <2>3, <2>4, <2>5 DEF Accept, ServingInv, IInv, TypeOK
<1>9. ASSUME orderly, NEW k \in Connection, UNCHANGED <<mDataVec, acceptor>>,
             server' = "up", reset' = {},
             \A j \in Connection \ {k} : UNCHANGED <<task[j], newReg[j]>>,
             task[k] \notin {"none", "ended"},
             task'[k] = "register" => newReg'[k] \in Registry
      PROVE  ServingInv'
  BY <1>9 DEF IInv, ServingInv, Served, Accepted
<1>10. ASSUME NEW k \in Connection, ReceiveRegister(k) PROVE ServingInv'
  <2>1. orderly /\ TypeOK /\ OrderlyInv /\ ServingInv
    BY <1>10 DEF ParseMsg, ReceiveRegister, IInv, orderly
  <2>2. \E q \in Registry : Found(q) = {}
    BY <1>10, <2>1, RegistryLeft DEF ParseMsg, ReceiveRegister, Receives
  <2>3. newReg'[k] \in Registry
    BY <1>10, <2>1, <2>2 DEF ParseMsg, ReceiveRegister, GetReg, TypeOK
  <2> QED
    BY <1>9, <1>10, <2>1, <2>3 DEF ParseMsg, ReceiveRegister, Receives, ServingInv, TypeOK
<1>11. ASSUME NEW k \in Connection, RegisterClient(k) PROVE ServingInv'
  <2>1. /\ orderly /\ TypeOK /\ ServingInv /\ ConnectionInv(k)
        /\ task[k] = "register" /\ newReg[k] \in Registry
    BY <1>11 DEF RegisterClient, IInv, orderly, OrderlyInv, ServingInv
  <2>2. server' = "up" /\ reset' = {}
    BY <1>11, <2>1
    DEF RegisterClient, Answer, ServingInv, ConnectionInv, NoRegistry, Registry
  <2> QED
    BY <1>9, <1>11, <2>1, <2>2 DEF RegisterClient, TypeOK
<1>12. ASSUME NEW k \in Connection, ConfirmFreq(k) \/ FindData(k) \/ FindTerm(k)
       PROVE  ServingInv'
  <2>1. /\ orderly /\ TypeOK /\ ServingInv /\ ConnectionInv(k)
        /\ task[k] = "receive" /\ stage[k] # "gone"
    BY <1>12
    DEF ParseMsg, ConfirmFreq, FindData, FindTerm, Receives, IInv, orderly, OrderlyInv,
                 ConnectionInv
  <2>2. server' = "up" /\ reset' = {}
    BY <1>12, <2>1
    DEF ParseMsg, ConfirmFreq, FindData, FindTerm, Answer, Ignore, ServingInv
  <2> QED
    BY <1>9, <1>12, <2>1, <2>2 DEF ParseMsg, ConfirmFreq, FindData, FindTerm, TypeOK
<1>13. ASSUME NEW k \in Connection, AnswerData(k) \/ Terminate(k) PROVE ServingInv'
  <2>1. /\ orderly /\ TypeOK /\ ServingInv /\ ConnectionInv(k) /\ HandlerInv
        /\ task[k] \in {"answer", "erase"}
    BY <1>13 DEF AnswerData, Terminate, IInv, orderly, OrderlyInv
  <2>2. server' = "up" /\ reset' = {}
    BY <1>13, <2>1
    DEF AnswerData, Terminate, Answer, ServingInv, ConnectionInv, HandlerInv
  <2> QED
    BY <1>9, <1>13, <2>1, <2>2 DEF AnswerData, Terminate, TypeOK
<1>14. ASSUME NEW k \in Connection, ReceiveEnd(k) \/ Shutdown(k) PROVE ServingInv'
  <2>1. orderly /\ TypeOK /\ ServingInv /\ task[k] \in {"receive", "shutdown"}
    BY <1>14 DEF ReceiveEnd, Shutdown, IInv, orderly
  <2>2. server' = "up" /\ reset' = {}
    BY <1>14, <2>1 DEF ReceiveEnd, Shutdown, ServingInv
  <2> QED
    BY <1>9, <1>14, <2>1, <2>2 DEF ReceiveEnd, Shutdown, TypeOK
<1> QED
  BY <1>2, <1>3, <1>4, <1>5, <1>6, <1>7, <1>8, <1>10, <1>11, <1>12, <1>13, <1>14
  DEF Next, Acceptor, Client, Task

-----------------------------------------------------------------------------
LEMMA Invariant == ASSUME OneHandler PROVE Spec => []IInv
<1>1. Init => IInv
  BY InitType, InitInv DEF IInv
<1>2. IInv /\ [Next]_vars => IInv'
  <2> SUFFICES ASSUME IInv, [Next]_vars PROVE IInv'
    OBVIOUS
  <2>1. server' = "up" => server = "up"
    BY DEF Next, vars, Acceptor, Client, Task, Finished, Connect, SendFreq, SendRequest,
           SendTerm, Send, DropOut, ParseMsg, ReceiveRegister, Receives, RegisterClient,
           ConfirmFreq, FindData, AnswerData, FindTerm, Terminate, ReceiveEnd, Shutdown, InTime,
           TooSlow, EraseClient, EraseNothing, Accept, Join
  <2> QED
    BY <2>1, StepType, StepHandler, StepList, StepOrderly, StepServing DEF IInv
<1> QED
  BY <1>1, <1>2, PTL DEF Spec

\* getReg gives no registry away that a client still holds, also after clients
\* have dropped out or were erased for being too slow.
THEOREM RegistriesUnique == ASSUME OneHandler PROVE Spec => []RegistriesDiffer
<1>1. IInv => RegistriesDiffer
  BY DEF IInv, ListInv, RegistriesDiffer
<1> QED
  BY <1>1, Invariant, PTL

\* controlClients never misses a registered client nor looks at a slot without one.
THEOREM TimesFollow == ASSUME OneHandler PROVE Spec => []TimesMatch
<1>1. IInv => TimesMatch
  BY DEF IInv, ListInv, TimesMatch
<1> QED
  BY <1>1, Invariant, PTL

\* Nobody is registered who has not been told or has already ended.
THEOREM StaysRegistered == ASSUME OneHandler PROVE Spec => []RegisteredUntilStop
<1>1. IInv => RegisteredUntilStop
  BY DEF IInv, OrderlyInv, Told, RegisteredUntilStop
<1> QED
  BY <1>1, Invariant, PTL

\* The thread of a registered client finds the registration of its message.
THEOREM HandlesRequests == ASSUME OneHandler PROVE Spec => []RequestsHandled
<1>1. IInv => RequestsHandled
  <2> SUFFICES ASSUME IInv, orderly, NEW k \in Connection,
                      stage[k] \in {"registered", "ready"}
               PROVE  task[k] \in {"receive", "answer", "erase"} /\ request[k] # "lost"
    BY DEF RequestsHandled
  <2>1. ConnectionInv(k) /\ TypeOK
    BY DEF IInv, OrderlyInv
  <2> QED
    BY <2>1 DEF ConnectionInv, TypeOK, InHandler
<1> QED
  BY <1>1, Invariant, PTL

\* The limit holds: the ended threads in mDataVec count as well.
THEOREM LimitHolds == ASSUME OneHandler PROVE Spec => []ClientsLimited
<1>1. IInv => ClientsLimited
  <2> SUFFICES ASSUME IInv, orderly PROVE Cardinality(Served) <= MaxClients
    BY DEF ClientsLimited, Served
  <2> QED
    BY ServedBound, FS_CardinalityType, ClientsAssumption DEF IInv, ServingInv, TypeOK
<1> QED
  BY <1>1, Invariant, PTL

\* The server runs on: there is a registry for every client it accepts, and no
\* iterator, index or connection is used after its time.
THEOREM StaysUp == ASSUME OneHandler PROVE Spec => []OrderlyStaysUp
<1>1. IInv => OrderlyStaysUp
  BY DEF IInv, ServingInv, OrderlyStaysUp
<1> QED
  BY <1>1, Invariant, PTL
=============================================================================
