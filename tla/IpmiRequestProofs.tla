------------------------- MODULE IpmiRequestProofs -------------------------
(***************************************************************************)
(* What holds for any number of readers, and what a single reader has in   *)
(* addition.                                                               *)
(***************************************************************************)
EXTENDS IpmiRequest, TLAPS

\* The mutex has one owner, the reader that is inside ipmi_request, and it
\* waits for the current id.
MutexInv ==
  /\ \A r \in Reader : pc[r] \in Held <=> r \in ipmi_mutex
  /\ \A r, s \in ipmi_mutex : r = s
  /\ \A r \in Reader : pc[r] \in {"wait", "answered", "expired"} => own[r] = msgid

\* The current id is on its way only while its reader waits for it.
PendingInv ==
  msgid \in pending =>
    \E r \in Reader : pc[r] \in {"wait", "answered", "expired"}

Stored == datarc_length = msgid /\ datarc = msgid
Storing == handler.at \in {"store", "complete"}

\* A reader that waits: the callback stores only its answer, once, after
\* every late one.
WaitInv ==
  /\ \A r \in Reader : pc[r] = "send" => ~Storing /\ ~read_complete
  /\ \A r \in Reader : pc[r] = "wait" =>
       /\ Storing => handler.id = msgid /\ ~read_complete
       /\ Storing \/ read_complete => pending = {}
       /\ handler.at = "complete" => Stored
       /\ read_complete => handler = Idle /\ Stored
  /\ \A r \in Reader : pc[r] = "answered" =>
       pending = {} /\ handler = Idle /\ Stored

Kept(r) == datarc_length = own[r] /\ datarc = own[r]

\* A single reader: nothing is under way while it copies the answer.
CopyInv ==
  \A r \in Reader :
    /\ pc[r] \in {"length", "copy"} => pending = {} /\ handler = Idle /\ Kept(r)
    /\ pc[r] = "copy" => got[r].length = own[r]
    /\ pc[r] = "ok" => got[r] = [length |-> own[r], bytes |-> own[r]]

Inv == TypeOK /\ MutexInv /\ PendingInv

-----------------------------------------------------------------------------
LEMMA InitInv == Init => Inv /\ WaitInv /\ CopyInv
<1> SUFFICES ASSUME Init PROVE Inv /\ WaitInv /\ CopyInv
  OBVIOUS
<1>1. TypeOK
  <2>1. ipmi_mutex \in SUBSET Reader /\ pending \in SUBSET (1 .. msgid)
    BY DEF Init
  <2>2. pc \in [Reader -> Rest \cup Held \cup {"lock", "length", "copy"}]
    BY DEF Init, Rest
  <2>3. own \in [Reader -> 0 .. msgid] 
        /\ got \in [Reader -> [length : Errno .. msgid, bytes : 0 .. msgid]]
    BY DEF Init, None, Errno
  <2>4. handler \in [at : {"idle", "clear", "store", "complete"}, id : 0 .. msgid]
    BY DEF Init, Idle, None
  <2>5. msgid \in Nat \ {0} /\ datarc_length \in 0 .. msgid /\ datarc \in 0 .. msgid
    BY DEF Init, None
  <2>6. read_complete \in BOOLEAN
    BY DEF Init
  <2> QED
    BY <2>1, <2>2, <2>3, <2>4, <2>5, <2>6 DEF TypeOK
<1>2. MutexInv /\ PendingInv
  BY DEF Init, MutexInv, PendingInv, Held
<1>3. WaitInv /\ CopyInv
  BY DEF Init, WaitInv, CopyInv
<1> QED
  BY <1>1, <1>2, <1>3 DEF Inv

LEMMA TypeStep == TypeOK /\ [Next]_vars => TypeOK'
<1> SUFFICES ASSUME TypeOK, [Next]_vars PROVE TypeOK'
  OBVIOUS
<1> USE DEF TypeOK, vars, ipmi_data, Rest, Held, Idle, None, Errno
<1>1. ASSUME NEW r \in Reader, Call(r) PROVE TypeOK'
  BY <1>1 DEF Call
<1>2. ASSUME NEW r \in Reader, Lock(r) PROVE TypeOK'
  <2>1. ipmi_mutex' \in SUBSET Reader
    BY <1>2 DEF Lock
  <2>2. datarc_length' \in 0 .. msgid'
    BY <1>2 DEF Lock
  <2>3. pc' \in [Reader -> Rest \cup Held \cup {"lock", "length", "copy"}]
    BY <1>2 DEF Lock
  <2> QED
    BY <1>2, <2>1, <2>2, <2>3 DEF Lock
<1>3. ASSUME NEW r \in Reader, SendFails(r) PROVE TypeOK'
  BY <1>3 DEF SendFails
<1>4. ASSUME NEW r \in Reader, Send(r) PROVE TypeOK'
  BY <1>4 DEF Send
<1>5. ASSUME NEW r \in Reader, Answered(r) PROVE TypeOK'
  BY <1>5 DEF Answered
<1>6. ASSUME NEW r \in Reader, Expire(r) PROVE TypeOK'
  BY <1>6 DEF Expire
<1>7. ASSUME NEW r \in Reader, EndRequest(r) PROVE TypeOK'
  BY <1>7 DEF EndRequest
<1>8. ASSUME NEW r \in Reader, ReadLength(r) PROVE TypeOK'
  BY <1>8 DEF ReadLength
<1>9. ASSUME NEW r \in Reader, CopyToUser(r) PROVE TypeOK'
  BY <1>9 DEF CopyToUser
<1>10. ASSUME NEW m \in pending, LoseAnswer(m) PROVE TypeOK'
  BY <1>10 DEF LoseAnswer
<1>11. ASSUME NEW m \in pending, HandlerTake(m) PROVE TypeOK'
  BY <1>11 DEF HandlerTake
<1>12. CASE HandlerClear
  BY <1>12 DEF HandlerClear
<1>13. CASE HandlerStore
  BY <1>13 DEF HandlerStore
<1>14. CASE HandlerComplete
  BY <1>14 DEF HandlerComplete
<1>15. CASE UNCHANGED vars
  BY <1>15
<1> QED
  BY <1>1, <1>2, <1>3, <1>4, <1>5, <1>6, <1>7, <1>8, <1>9,
     <1>10, <1>11, <1>12, <1>13, <1>14, <1>15 DEF Next, Request, Callback

LEMMA MutexStep == Inv /\ TypeOK' /\ [Next]_vars => MutexInv'
<1> SUFFICES ASSUME TypeOK, MutexInv, TypeOK', [Next]_vars PROVE MutexInv'
  BY DEF Inv
<1> USE DEF MutexInv, Free, TypeOK, vars, ipmi_data, Rest, Held, Idle, None, Errno
<1>1. ASSUME NEW r \in Reader, Call(r) PROVE MutexInv'
  BY <1>1 DEF Call
<1>2. ASSUME NEW r \in Reader, Lock(r) PROVE MutexInv'
  BY <1>2 DEF Lock
<1>3. ASSUME NEW r \in Reader, SendFails(r) PROVE MutexInv'
  BY <1>3 DEF SendFails
<1>4. ASSUME NEW r \in Reader, Send(r) PROVE MutexInv'
  BY <1>4 DEF Send
<1>5. ASSUME NEW r \in Reader, Answered(r) PROVE MutexInv'
  BY <1>5 DEF Answered
<1>6. ASSUME NEW r \in Reader, Expire(r) PROVE MutexInv'
  BY <1>6 DEF Expire
<1>7. ASSUME NEW r \in Reader, EndRequest(r) PROVE MutexInv'
  BY <1>7 DEF EndRequest
<1>8. ASSUME NEW r \in Reader, ReadLength(r) PROVE MutexInv'
  BY <1>8 DEF ReadLength
<1>9. ASSUME NEW r \in Reader, CopyToUser(r) PROVE MutexInv'
  BY <1>9 DEF CopyToUser
<1>10. ASSUME NEW m \in pending, LoseAnswer(m) PROVE MutexInv'
  BY <1>10 DEF LoseAnswer
<1>11. ASSUME NEW m \in pending, HandlerTake(m) PROVE MutexInv'
  BY <1>11 DEF HandlerTake
<1>12. CASE HandlerClear
  BY <1>12 DEF HandlerClear
<1>13. CASE HandlerStore
  BY <1>13 DEF HandlerStore
<1>14. CASE HandlerComplete
  BY <1>14 DEF HandlerComplete
<1>15. CASE UNCHANGED vars
  BY <1>15
<1> QED
  BY <1>1, <1>2, <1>3, <1>4, <1>5, <1>6, <1>7, <1>8, <1>9,
     <1>10, <1>11, <1>12, <1>13, <1>14, <1>15 DEF Next, Request, Callback

LEMMA PendingStep == Inv /\ TypeOK' /\ [Next]_vars => PendingInv'
<1> SUFFICES ASSUME TypeOK, MutexInv, PendingInv, TypeOK', [Next]_vars PROVE PendingInv'
  BY DEF Inv
<1> USE DEF MutexInv, PendingInv, Free, TypeOK, vars, ipmi_data, Rest, Held, Idle, None, Errno
<1>1. ASSUME NEW r \in Reader, Call(r) PROVE PendingInv'
  BY <1>1 DEF Call
<1>2. ASSUME NEW r \in Reader, Lock(r) PROVE PendingInv'
  BY <1>2 DEF Lock
<1>3. ASSUME NEW r \in Reader, SendFails(r) PROVE PendingInv'
  BY <1>3 DEF SendFails
<1>4. ASSUME NEW r \in Reader, Send(r) PROVE PendingInv'
  BY <1>4 DEF Send
<1>5. ASSUME NEW r \in Reader, Answered(r) PROVE PendingInv'
  BY <1>5 DEF Answered
<1>6. ASSUME NEW r \in Reader, Expire(r) PROVE PendingInv'
  BY <1>6 DEF Expire
<1>7. ASSUME NEW r \in Reader, EndRequest(r) PROVE PendingInv'
  BY <1>7 DEF EndRequest
<1>8. ASSUME NEW r \in Reader, ReadLength(r) PROVE PendingInv'
  BY <1>8 DEF ReadLength
<1>9. ASSUME NEW r \in Reader, CopyToUser(r) PROVE PendingInv'
  BY <1>9 DEF CopyToUser
<1>10. ASSUME NEW m \in pending, LoseAnswer(m) PROVE PendingInv'
  BY <1>10 DEF LoseAnswer
<1>11. ASSUME NEW m \in pending, HandlerTake(m) PROVE PendingInv'
  BY <1>11 DEF HandlerTake
<1>12. CASE HandlerClear
  BY <1>12 DEF HandlerClear
<1>13. CASE HandlerStore
  BY <1>13 DEF HandlerStore
<1>14. CASE HandlerComplete
  BY <1>14 DEF HandlerComplete
<1>15. CASE UNCHANGED vars
  BY <1>15
<1> QED
  BY <1>1, <1>2, <1>3, <1>4, <1>5, <1>6, <1>7, <1>8, <1>9,
     <1>10, <1>11, <1>12, <1>13, <1>14, <1>15 DEF Next, Request, Callback

LEMMA WaitStep ==
  ASSUME PromptCallback PROVE Inv /\ Inv' /\ WaitInv /\ [Next]_vars => WaitInv'
<1> SUFFICES ASSUME Inv, Inv', WaitInv, [Next]_vars PROVE WaitInv'
  OBVIOUS
<1> USE DEF Inv, MutexInv, PendingInv, WaitInv, Stored, Storing, Free, TypeOK, vars,
        ipmi_data, Rest, Held, Idle, None, Errno
<1>1. ASSUME NEW r \in Reader, Call(r) PROVE WaitInv'
  BY <1>1 DEF Call
<1>2. ASSUME NEW r \in Reader, Lock(r) PROVE WaitInv'
  BY <1>2 DEF Lock
<1>3. ASSUME NEW r \in Reader, SendFails(r) PROVE WaitInv'
  BY <1>3 DEF SendFails
<1>4. ASSUME NEW r \in Reader, Send(r) PROVE WaitInv'
  BY <1>4 DEF Send
<1>5. ASSUME NEW r \in Reader, Answered(r) PROVE WaitInv'
  BY <1>5 DEF Answered
<1>6. ASSUME NEW r \in Reader, Expire(r) PROVE WaitInv'
  BY <1>6 DEF Expire
<1>7. ASSUME NEW r \in Reader, EndRequest(r) PROVE WaitInv'
  BY <1>7 DEF EndRequest
<1>8. ASSUME NEW r \in Reader, ReadLength(r) PROVE WaitInv'
  BY <1>8 DEF ReadLength
<1>9. ASSUME NEW r \in Reader, CopyToUser(r) PROVE WaitInv'
  BY <1>9 DEF CopyToUser
<1>10. ASSUME NEW m \in pending, LoseAnswer(m) PROVE WaitInv'
  BY <1>10 DEF LoseAnswer
<1>11. ASSUME NEW m \in pending, HandlerTake(m) PROVE WaitInv'
  BY <1>11 DEF HandlerTake
<1>12. CASE HandlerClear
  BY <1>12 DEF HandlerClear
<1>13. CASE HandlerStore
  BY <1>13 DEF HandlerStore
<1>14. CASE HandlerComplete
  BY <1>14 DEF HandlerComplete
<1>15. CASE UNCHANGED vars
  BY <1>15
<1> QED
  BY <1>1, <1>2, <1>3, <1>4, <1>5, <1>6, <1>7, <1>8, <1>9,
     <1>10, <1>11, <1>12, <1>13, <1>14, <1>15 DEF Next, Request, Callback

LEMMA CopyStep ==
  ASSUME PromptCallback, Accepts, \A r, s \in Reader : r = s
  PROVE  Inv /\ Inv' /\ WaitInv /\ CopyInv /\ [Next]_vars => CopyInv'
<1> SUFFICES ASSUME Inv, Inv', WaitInv, CopyInv, [Next]_vars PROVE CopyInv'
  OBVIOUS
<1> USE DEF Inv, MutexInv, WaitInv, CopyInv, Stored, Kept, Free, TypeOK, vars,
        ipmi_data, Rest, Held, Idle, None, Errno
<1>1. ASSUME NEW r \in Reader, Call(r) PROVE CopyInv'
  BY <1>1 DEF Call
<1>2. ASSUME NEW r \in Reader, Lock(r) PROVE CopyInv'
  BY <1>2 DEF Lock
<1>3. ASSUME NEW r \in Reader, SendFails(r) PROVE CopyInv'
  BY <1>3 DEF SendFails
<1>4. ASSUME NEW r \in Reader, Send(r) PROVE CopyInv'
  BY <1>4 DEF Send
<1>5. ASSUME NEW r \in Reader, Answered(r) PROVE CopyInv'
  BY <1>5 DEF Answered
<1>6. ASSUME NEW r \in Reader, Expire(r) PROVE CopyInv'
  BY <1>6 DEF Expire
<1>7. ASSUME NEW r \in Reader, EndRequest(r) PROVE CopyInv'
  BY <1>7 DEF EndRequest
<1>8. ASSUME NEW r \in Reader, ReadLength(r) PROVE CopyInv'
  BY <1>8 DEF ReadLength
<1>9. ASSUME NEW r \in Reader, CopyToUser(r) PROVE CopyInv'
  BY <1>9 DEF CopyToUser
<1>10. ASSUME NEW m \in pending, LoseAnswer(m) PROVE CopyInv'
  BY <1>10 DEF LoseAnswer
<1>11. ASSUME NEW m \in pending, HandlerTake(m) PROVE CopyInv'
  BY <1>11 DEF HandlerTake
<1>12. CASE HandlerClear
  BY <1>12 DEF HandlerClear
<1>13. CASE HandlerStore
  BY <1>13 DEF HandlerStore
<1>14. CASE HandlerComplete
  BY <1>14 DEF HandlerComplete
<1>15. CASE UNCHANGED vars
  BY <1>15
<1> QED
  BY <1>1, <1>2, <1>3, <1>4, <1>5, <1>6, <1>7, <1>8, <1>9,
     <1>10, <1>11, <1>12, <1>13, <1>14, <1>15 DEF Next, Request, Callback

-----------------------------------------------------------------------------
LEMMA InvStep == Inv /\ [Next]_vars => Inv'
  BY TypeStep, MutexStep, PendingStep DEF Inv

\* Every variable keeps its type and no id runs ahead of msgid, for any
\* number of readers and whatever the callback overtakes.
THEOREM TypeCorrect == Spec => []TypeOK
<1>1. Inv => TypeOK
  BY DEF Inv
<1> QED
  BY InitInv, InvStep, <1>1, PTL DEF Spec

\* ipmi_request never runs twice at a time, and a request that has ended
\* leaves none of its id behind.
THEOREM OneRequestAtATime == Spec => []OneRequest
<1>1. Inv => OneRequest
  BY DEF Inv, MutexInv, PendingInv, OneRequest, TypeOK, Held
<1> QED
  BY InitInv, InvStep, <1>1, PTL DEF Spec

\* Late answers are never taken for the answer to a later request, for any
\* number of readers, if a callback is through before the next request.
THEOREM AnswersAreOwn ==
  ASSUME PromptCallback PROVE Spec => []AnswerIsOwn
<1>1. Inv /\ WaitInv => AnswerIsOwn
  BY DEF Inv, MutexInv, WaitInv, Stored, AnswerIsOwn
<1> QED
  BY InitInv, InvStep, WaitStep, <1>1, PTL DEF Spec

\* A single reader gets its own answer, and all of it.
THEOREM SingleReaderReadsOwn ==
  ASSUME PromptCallback, Accepts, \A r, s \in Reader : r = s
  PROVE  Spec => []ReadIsOwn
<1>1. CopyInv => ReadIsOwn
  BY DEF CopyInv, ReadIsOwn
<1> QED
  BY InitInv, InvStep, WaitStep, CopyStep, <1>1, PTL DEF Spec
=============================================================================
