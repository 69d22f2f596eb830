---------------------------- MODULE IpmiRequest ----------------------------
(***************************************************************************)
(* driver_read of the kernel driver for an IPMI sensor: a reader sends a   *)
(* request to the BMC and waits until the callback ipmi_msg_handler has    *)
(* stored the answer or the timeout is over.  Every process that has the   *)
(* device open shares one IPMI_DATA: message id, answer and completion.    *)
(*                                                                         *)
(* The id a request was sent with stands for the request, for the length   *)
(* and the bytes of its answer.  Answers may come late or never; the       *)
(* system interface carries one message at a time, so they come in the     *)
(* order of the requests.                                                  *)
(***************************************************************************)
EXTENDS Integers

CONSTANTS
  Reader,           \* the processes that read
  MaxId,            \* bound of msgid
  PromptCallback,   \* a callback is through before the next request
  Accepts           \* the IPMI layer accepts every request

ASSUME MaxIdAssumption == MaxId \in Nat \ {0}
ASSUME EnvironmentAssumption == PromptCallback \in BOOLEAN /\ Accepts \in BOOLEAN

None == 0     \* no answer
Errno == -1   \* an error number, where a length is expected

VARIABLES
  ipmi_mutex,       \* its owner: a set with at most one reader
  msgid, datarc_length, datarc, read_complete,    \* IPMI_DATA
  pending,          \* requests the BMC has not answered
  handler,          \* the callback: what it does next, with which answer
  pc,               \* where each reader is
  own,              \* history: the id of its last request
  got               \* the length and the bytes copied to it

ipmi_data == <<msgid, datarc_length, datarc, read_complete>>
vars == <<ipmi_mutex, ipmi_data, pending, handler, pc, own, got>>

Rest == {"closed", "ok", "failed"}    \* outside read(), which has returned
Held == {"send", "wait", "answered", "expired"}

Free == ipmi_mutex = {}
Idle == [at |-> "idle", id |-> None]

Init ==
  /\ ipmi_mutex = {}
  /\ msgid = 1
  /\ datarc_length = None
  /\ datarc = None
  /\ read_complete = FALSE
  /\ pending = {}
  /\ handler = Idle
  /\ pc = [r \in Reader |-> "closed"]
  /\ own = [r \in Reader |-> None]
  /\ got = [r \in Reader |-> [length |-> None, bytes |-> None]]

-----------------------------------------------------------------------------
(* Faulty variants: the callback does not compare the ids; the request     *)
(* keeps the mutex on an error.                                            *)

HandlerTakeAny(m) ==
  /\ handler = Idle
  /\ m \in pending
  /\ \A n \in pending : m <= n
  /\ pending' = pending \ {m}
  /\ handler' = [at |-> "store", id |-> m]
  /\ UNCHANGED <<ipmi_mutex, ipmi_data, pc, own, got>>

SendFailsLocked(r) ==
  /\ pc[r] = "send"
  /\ ~Accepts
  /\ got' = [got EXCEPT ![r].length = Errno]
  /\ pc' = [pc EXCEPT ![r] = "ok"]
  /\ UNCHANGED <<ipmi_mutex, ipmi_data, pending, handler, own>>

-----------------------------------------------------------------------------
(* A reader.                                                               *)

Call(r) ==
  /\ pc[r] \in Rest
  /\ msgid < MaxId
  /\ pc' = [pc EXCEPT ![r] = "lock"]
  /\ UNCHANGED <<ipmi_mutex, ipmi_data, pending, handler, own, got>>

Lock(r) ==
  /\ pc[r] = "lock"
  /\ Free
  /\ PromptCallback => handler = Idle
  /\ ipmi_mutex' = {r}
  /\ datarc_length' = None
  /\ read_complete' = FALSE
  /\ pc' = [pc EXCEPT ![r] = "send"]
  /\ UNCHANGED <<msgid, datarc, pending, handler, own, got>>

\* A bad address, or the IPMI layer refuses the request.  Its error number
\* is negative; what driver_read returns, negated once more, is a length.
SendFails(r) ==
  /\ pc[r] = "send"
  /\ ~Accepts
  /\ ipmi_mutex' = {}
  /\ got' = [got EXCEPT ![r].length = Errno]
  /\ pc' = [pc EXCEPT ![r] = "ok"]
  /\ UNCHANGED <<ipmi_data, pending, handler, own>>

Send(r) ==
  /\ pc[r] = "send"
  /\ pending' = pending \cup {msgid}
  /\ own' = [own EXCEPT ![r] = msgid]
  /\ pc' = [pc EXCEPT ![r] = "wait"]
  /\ UNCHANGED <<ipmi_mutex, ipmi_data, handler, got>>

Answered(r) ==
  /\ pc[r] = "wait"
  /\ read_complete
  /\ read_complete' = FALSE
  /\ pc' = [pc EXCEPT ![r] = "answered"]
  /\ UNCHANGED <<ipmi_mutex, msgid, datarc_length, datarc, pending, handler, own, got>>

Expire(r) ==
  /\ pc[r] = "wait"
  /\ ~read_complete
  /\ pc' = [pc EXCEPT ![r] = "expired"]
  /\ UNCHANGED <<ipmi_mutex, ipmi_data, pending, handler, own, got>>

EndRequest(r) ==
  /\ pc[r] \in {"answered", "expired"}
  /\ msgid' = msgid + 1
  /\ ipmi_mutex' = {}
  /\ pc' = [pc EXCEPT ![r] = IF pc[r] = "answered" THEN "length" ELSE "failed"]
  /\ UNCHANGED <<datarc_length, datarc, read_complete, pending, handler, own, got>>

\* After ipmi_request, without the mutex.
ReadLength(r) ==
  /\ pc[r] = "length"
  /\ got' = [got EXCEPT ![r].length = datarc_length]
  /\ pc' = [pc EXCEPT ![r] = "copy"]
  /\ UNCHANGED <<ipmi_mutex, ipmi_data, pending, handler, own>>

CopyToUser(r) ==
  /\ pc[r] = "copy"
  /\ got' = [got EXCEPT ![r].bytes = datarc]
  /\ pc' = [pc EXCEPT ![r] = "ok"]
  /\ UNCHANGED <<ipmi_mutex, ipmi_data, pending, handler, own>>

-----------------------------------------------------------------------------
(* The BMC and the callback.                                               *)

LoseAnswer(m) ==
  /\ m \in pending
  /\ pending' = pending \ {m}
  /\ UNCHANGED <<ipmi_mutex, ipmi_data, handler, pc, own, got>>

HandlerTake(m) ==
  /\ handler = Idle
  /\ m \in pending
  /\ \A n \in pending : m <= n
  /\ pending' = pending \ {m}
  /\ handler' = [at |-> IF m = msgid THEN "store" ELSE "clear", id |-> m]
  /\ UNCHANGED <<ipmi_mutex, ipmi_data, pc, own, got>>

HandlerClear ==
  /\ handler.at = "clear"
  /\ datarc_length' = None
  /\ handler' = Idle
  /\ UNCHANGED <<ipmi_mutex, msgid, datarc, read_complete, pending, pc, own, got>>

HandlerStore ==
  /\ handler.at = "store"
  /\ datarc_length' = handler.id
  /\ datarc' = handler.id
  /\ handler' = [handler EXCEPT !.at = "complete"]
  /\ UNCHANGED <<ipmi_mutex, msgid, read_complete, pending, pc, own, got>>

HandlerComplete ==
  /\ handler.at = "complete"
  /\ read_complete' = TRUE
  /\ handler' = Idle
  /\ UNCHANGED <<ipmi_mutex, msgid, datarc_length, datarc, pending, pc, own, got>>

-----------------------------------------------------------------------------
Request(r) ==
  \/ SendFails(r) \/ Send(r) \/ Answered(r) \/ Expire(r) \/ EndRequest(r)
  \/ ReadLength(r) \/ CopyToUser(r)

Callback == HandlerClear \/ HandlerStore \/ HandlerComplete

Next ==
  \/ \E r \in Reader : Call(r) \/ Lock(r) \/ Request(r)
  \/ \E m \in pending : LoseAnswer(m) \/ HandlerTake(m)
  \/ Callback

Spec == Init /\ [][Next]_vars

\* The scheduler runs the readers and the callback; a kernel mutex queues
\* its waiters.
Fairness ==
  /\ \A r \in Reader : WF_vars(Request(r)) /\ SF_vars(Lock(r))
  /\ WF_vars(Callback)

FairSpec == Spec /\ Fairness

-----------------------------------------------------------------------------
\* The variables have their types; no id is ahead of msgid.
TypeOK ==
  /\ ipmi_mutex \in SUBSET Reader
  /\ msgid \in Nat \ {0}
  /\ datarc_length \in 0 .. msgid /\ datarc \in 0 .. msgid
  /\ read_complete \in BOOLEAN
  /\ pending \in SUBSET (1 .. msgid)
  /\ handler \in [at : {"idle", "clear", "store", "complete"}, id : 0 .. msgid]
  /\ pc \in [Reader -> Rest \cup Held \cup {"lock", "length", "copy"}]
  /\ own \in [Reader -> 0 .. msgid]
  /\ got \in [Reader -> [length : Errno .. msgid, bytes : 0 .. msgid]]

\* While ipmi_request still holds the mutex the answer it was woken for is
\* the answer to this request, not a late one to an earlier request.
AnswerIsOwn ==
  \A r \in Reader :
    pc[r] = "answered" => datarc_length = own[r] /\ datarc = own[r]

\* A read that succeeds returns all of its own answer and nothing else.
ReadIsOwn ==
  \A r \in Reader :
    pc[r] = "ok" => got[r] = [length |-> own[r], bytes |-> own[r]]

\* Two requests are never under way at the same time, and a request that
\* has ended leaves no answer behind that could be taken for a later one.
OneRequest ==
  /\ \A r, s \in Reader : pc[r] \in Held /\ pc[s] \in Held => r = s
  /\ msgid \in pending => \E r \in Reader : pc[r] \in Held /\ own[r] = msgid

\* Every read returns, whatever the BMC answers and whoever else reads.
ReadReturns ==
  \A r \in Reader : (pc[r] = "lock") ~> (pc[r] \in Rest)
=============================================================================
