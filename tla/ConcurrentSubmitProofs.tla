----------------------- MODULE ConcurrentSubmitProofs -----------------------
(***************************************************************************)
(* Requests that call the hub under the lock, for any number of threads,   *)
(* requests and nodes: their steps interleave as if each submit were one.  *)
(***************************************************************************)
EXTENDS ConcurrentSubmit, SequenceTheorems, FiniteSetTheorems, TLAPS

(* The labels of a thread that has put its event into the hub's log.        *)
Delivering == {"receive", "buffer", "test", "pop", "apply", "log_local",
               "load_next", "store_next", "answer"}
Sequencing == {"sequence", "load_id", "store_id", "log"}

Last == Len(event_log)
Failed == Last > 0 /\ event_log[Last].raises

(* What a node has of the hub's log: the first k events in its own log, and *)
(* the first k requests given to its adapter.                               *)
Logged(n, k) ==
  /\ Len(local_log[n]) = k
  /\ \A i \in 1 .. k : local_log[n][i] = event_log[i]
Called(n, k) ==
  /\ Len(calls[n]) = k
  /\ \A i \in 1 .. k : calls[n][i] = event_log[i].req
Stands(n, id, logged, called) ==
  next[n] = id /\ Logged(n, logged) /\ Called(n, called)

(* A node that has had the last event, applied it unless it raises; one     *)
(* that waits for it; and one to which a thread is delivering it.           *)
Served(n) ==
  /\ buffer[n] = {}
  /\ IF Failed THEN Stands(n, Last, Last - 1, Last) ELSE Stands(n, Last + 1, Last, Last)
Waiting(n) == buffer[n] = {} /\ Stands(n, Last, Last - 1, Last - 1)

Holding(n, e) == buffer[n] = {e} /\ Stands(n, Last, Last - 1, Last - 1)
Applying(t, n) ==
  CASE pc[t] \in {"receive", "buffer"} -> Waiting(n)
    [] pc[t] = "test"       -> Holding(n, event[t]) \/ (Served(n) /\ ~Failed)
    [] pc[t] = "pop"        -> Holding(n, event[t])
    [] pc[t] = "apply"      -> Waiting(n) /\ popped[t] = event[t]
    [] pc[t] = "log_local"  -> /\ buffer[n] = {} /\ Stands(n, Last, Last - 1, Last)
                               /\ popped[t] = event[t] /\ ~Failed
    [] pc[t] = "load_next"  -> /\ buffer[n] = {} /\ Stands(n, Last, Last, Last)
                               /\ ~Failed
    [] pc[t] = "store_next" -> /\ buffer[n] = {} /\ Stands(n, Last, Last, Last)
                               /\ loaded[t] = Last /\ ~Failed
    [] OTHER -> FALSE

(* Who is not idle holds the lock.                                          *)
Exclusion == \A t \in Threads : pc[t] # "idle" <=> lock = t

(* The log has the ids 1, 2, ..., and only its last event can raise.        *)
Ordered ==
  \A i \in 1 .. Last : /\ event_log[i].cid = i
                       /\ event_log[i].req \in Requests
                       /\ i < Last => ~event_log[i].raises

(* The counter follows the log, also between the load and the store.        *)
Counting ==
  /\ (\A t \in Threads : pc[t] # "log") => causal_id = Last + 1
  /\ \A t \in Threads :
       /\ pc[t] = "log" => causal_id = Last + 2
       /\ pc[t] \in {"load_id", "store_id", "log"} => event[t].cid = Last + 1
       /\ pc[t] = "store_id" => loaded[t] = Last + 1
       /\ pc[t] # "idle" => event[t].req \in Requests

(* Between two deliveries all nodes have been served, and the hub is halted *)
(* exactly if its last event raised.                                        *)
Resting ==
  (\A t \in Threads : pc[t] \notin Delivering) =>
    (halted <=> Failed) /\ \A n \in Nodes : Served(n)

(* A request that is not yet in the log has reached no node, and after the  *)
(* first test the hub is not halted.                                        *)
Fresh ==
  \A t \in Threads :
    /\ pc[t] \in Sequencing => ~halted
    /\ pc[t] \in Sequencing \cup {"enter"} => at[t] = 1 /\ ~rejected[t]

(* A thread delivers the last event to one node after the other.            *)
Delivery(t) ==
  /\ Last > 0
  /\ event[t] = event_log[Last]
  /\ at[t] \in 1 .. (MaxNodes + 1)
  /\ pc[t] = "answer" <=> at[t] = MaxNodes + 1
  /\ rejected[t] <=> (Failed /\ at[t] > 1)
  /\ halted <=> (Failed /\ at[t] > 1)
  /\ \A n \in Nodes : /\ n < at[t] => Served(n)
                      /\ n > at[t] => Waiting(n)
  /\ at[t] \in Nodes => Applying(t, at[t])

Deliveries == \A t \in Threads : pc[t] \in Delivering => Delivery(t)

Inv ==
  /\ TypeOK /\ Exclusion /\ Ordered /\ Counting /\ Resting /\ Fresh
  /\ Deliveries /\ ResponsesAreTruthful
-----------------------------------------------------------------------------
(***************************************************************************)
(* Types.                                                                  *)
(***************************************************************************)
(* The number of answered requests is a number.                             *)
LEMMA AnsweredIsNatural ==
  ASSUME NEW t \in Threads
  PROVE  Answered(t) \in Nat
<1> DEFINE S == {r \in Requests : r[1] = t /\ response[r] # "none"}
<1>1. IsFiniteSet(1 .. MaxRequests)
  BY FS_Interval, ConcurrencyAssumption
<1>2. IsFiniteSet(Requests)
  BY <1>1, FS_Product, ConcurrencyAssumption DEF Requests
<1>3. IsFiniteSet(S)
  BY <1>2, FS_Subset
<1> QED
  BY <1>3, FS_CardinalityType DEF Answered

(* Only one thread is past idle.                                            *)
LEMMA Alone ==
  ASSUME Exclusion, NEW t \in Threads, pc[t] # "idle"
  PROVE  /\ lock = t
         /\ \A u \in Threads : u # t => pc[u] = "idle"
  BY DEF Exclusion

(* The thread that takes an event out of a buffer takes its own.            *)
LEMMA PopsItsOwn ==
  ASSUME TypeOK, Deliveries, NEW t \in Threads, pc[t] = "pop"
  PROVE  /\ at[t] \in Nodes /\ event[t].cid = event_log[Last].cid
         /\ buffer[at[t]] = {event[t]} /\ next[at[t]] = Last
<1>1. Delivery(t)
  BY DEF Deliveries, Delivering
<1>2. at[t] \in Nodes
  BY <1>1, ConcurrencyAssumption DEF Delivery, Nodes
<1> QED
  BY <1>1, <1>2 DEF Delivery, Applying, Holding, Stands

(* A request that begins has a number of its own.                           *)
LEMMA BeginTypes ==
  ASSUME TypeOK, NEW t \in Threads, NEW raises \in Outcomes, Begin(t, raises)
  PROVE  TypeOK' /\ event'[t].req \in Requests
<1>1. Answered(t) + 1 \in 1 .. MaxRequests
  BY AnsweredIsNatural, ConcurrencyAssumption DEF Begin
<1>2. <<t, Answered(t) + 1>> \in Requests
  BY <1>1 DEF Requests
<1>3. [cid |-> 0, req |-> <<t, Answered(t) + 1>>, raises |-> raises] \in Event
  BY <1>2, ConcurrencyAssumption DEF Event
<1>4. event' \in [Threads -> Event]
  BY <1>3 DEF TypeOK, Begin
<1>5. event'[t].req \in Requests
  BY <1>2 DEF TypeOK, Begin
<1>6. lock' \in Threads \cup {NoThread}
  BY DEF TypeOK, Begin, Acquire
<1>7. at' \in [Threads -> 1 .. (MaxNodes + 1)]
  BY ConcurrencyAssumption DEF TypeOK, Begin
<1>8. /\ rejected' \in [Threads -> BOOLEAN]
      /\ pc' = [pc EXCEPT ![t] = "enter"]
      /\ UNCHANGED <<hub, nodes, loaded, popped, response>>
  BY DEF TypeOK, Begin, Goto
<1> QED
  BY <1>4, <1>5, <1>6, <1>7, <1>8 DEF TypeOK, hub, nodes

(* Every access keeps the types, because what it adds to the logs, buffers  *)
(* and adapters is an event that a request has submitted.                   *)
LEMMA StepTypes ==
  ASSUME Inv, NEW t \in Threads, Step(t)
  PROVE  TypeOK'
<1> USE DEF Goto, hub, nodes, locals
<1>1. CASE Refused(t)
  <2>1. event[t].req \in Requests
    BY <1>1 DEF Inv, Counting, Refused
  <2>2. lock' \in Threads \cup {NoThread}
    BY <1>1 DEF Inv, TypeOK, Refused, Release
  <2>3. response' \in [Requests -> {"none", "applied", "rejected", "halted"}]
    BY <1>1, <2>1 DEF Inv, TypeOK, Refused
  <2>4. pc' = [pc EXCEPT ![t] = "idle"] /\ UNCHANGED <<hub, nodes, locals>>
    BY <1>1 DEF Refused
  <2> QED
    BY <2>2, <2>3, <2>4 DEF Inv, TypeOK
<1>2. CASE Accepted(t)
  BY <1>2 DEF Inv, TypeOK, Accepted
<1>3. CASE Sequence(t)
  <2>1. event' \in [Threads -> Event]
    <3>1. event \in [Threads -> Event] /\ causal_id \in Nat
      BY DEF Inv, TypeOK
    <3>2. event' = [event EXCEPT ![t].cid = causal_id]
      BY <1>3 DEF Sequence
    <3> QED
      BY <3>1, <3>2 DEF Event
  <2>2. /\ pc' = [pc EXCEPT ![t] = "load_id"]
        /\ UNCHANGED <<lock, hub, nodes, loaded, at, popped, rejected, response>>
    BY <1>3 DEF Sequence
  <2> QED
    BY <2>1, <2>2 DEF Inv, TypeOK
<1>4. CASE LoadId(t)
  BY <1>4 DEF Inv, TypeOK, LoadId
<1>5. CASE StoreId(t)
  BY <1>5 DEF Inv, TypeOK, StoreId
<1>6. CASE LogEvent(t)
  BY <1>6 DEF Inv, TypeOK, LogEvent
<1>7. ASSUME pc[t] \in Delivering \ {"answer"}
      PROVE  /\ at[t] \in Nodes
             /\ [at EXCEPT ![t] = @ + 1] \in [Threads -> 1 .. (MaxNodes + 1)]
             /\ event[t] \in Event
  <2>1. Delivery(t)
    BY <1>7 DEF Inv, Deliveries
  <2>2. at[t] \in Nodes
    BY <1>7, <2>1, ConcurrencyAssumption DEF Delivery, Nodes
  <2>3. at \in [Threads -> 1 .. (MaxNodes + 1)] /\ event \in [Threads -> Event]
    BY DEF Inv, TypeOK
  <2>4. at[t] + 1 \in 1 .. (MaxNodes + 1)
    BY <2>2, ConcurrencyAssumption DEF Nodes
  <2> QED
    BY <2>2, <2>3, <2>4
<1>8. CASE Receive(t)
  BY <1>8, <1>7 DEF Inv, TypeOK, Receive, Delivered, Delivering
<1>9. CASE Buffer(t)
  <2>1. buffer' \in [Nodes -> SUBSET Event]
    BY <1>9, <1>7 DEF Inv, TypeOK, Buffer, Delivering
  <2> QED
    BY <1>9, <2>1 DEF Inv, TypeOK, Buffer
<1>10. CASE Test(t)
  BY <1>10, <1>7 DEF Inv, TypeOK, Test, Delivered, Delivering
<1>11. CASE Pop(t)
  <2>1. /\ buffer' \in [Nodes -> SUBSET Event]
        /\ popped' \in [Threads -> Event]
    <3>1. CASE Buffered(at[t], next[at[t]])
      <4>1. PICK e \in buffer[at[t]] :
              /\ buffer' = [buffer EXCEPT ![at[t]] = @ \ {e}]
              /\ popped' = [popped EXCEPT ![t] = e]
        BY <1>11, <3>1 DEF Pop
      <4>2. e \in Event
        BY <1>11, <1>7 DEF Inv, TypeOK, Delivering, Pop
      <4> QED
        BY <4>1, <4>2 DEF Inv, TypeOK
    <3>2. CASE ~Buffered(at[t], next[at[t]])
      BY <1>11, <3>2 DEF Inv, TypeOK, Pop
    <3> QED BY <3>1, <3>2
  <2>2. /\ at' \in [Threads -> 1 .. (MaxNodes + 1)]
        /\ rejected' \in [Threads -> BOOLEAN]
        /\ halted' \in BOOLEAN
        /\ \E label \in {"apply", "answer", "receive"} : pc' = [pc EXCEPT ![t] = label]
    BY <1>11, <1>7 DEF Inv, TypeOK, Pop, Reject, Delivered, Delivering
  <2> QED
    BY <1>11, <2>1, <2>2 DEF Inv, TypeOK, Pop
<1>12. CASE Apply(t)
  <2>1. popped[t].req \in Requests
    <3>1. Delivery(t) /\ at[t] \in Nodes
      BY <1>12, <1>7 DEF Inv, Deliveries, Apply, Delivering
    <3>2. popped[t] = event[t]
      BY <1>12, <3>1 DEF Delivery, Applying, Apply
    <3> QED
      BY <1>12, <3>2 DEF Inv, Counting, Apply
  <2>2. calls' \in [Nodes -> Seq(Requests)]
    BY <1>12, <1>7, <2>1 DEF Inv, TypeOK, Apply, Delivering
  <2>3. /\ at' \in [Threads -> 1 .. (MaxNodes + 1)]
        /\ rejected' \in [Threads -> BOOLEAN]
        /\ halted' \in BOOLEAN
        /\ \E label \in {"log_local", "answer", "receive"} : pc' = [pc EXCEPT ![t] = label]
    BY <1>12, <1>7 DEF Inv, TypeOK, Apply, Reject, Delivered, Delivering
  <2> QED
    BY <1>12, <2>2, <2>3 DEF Inv, TypeOK, Apply
<1>13. CASE LogLocally(t)
  BY <1>13, <1>7 DEF Inv, TypeOK, LogLocally, Delivering
<1>14. CASE LoadNext(t)
  BY <1>14, <1>7 DEF Inv, TypeOK, LoadNext, Delivering
<1>15. CASE StoreNext(t)
  BY <1>15, <1>7 DEF Inv, TypeOK, StoreNext, Delivering
<1>16. CASE Answer(t)
  <2>1. event[t].req \in Requests
    BY <1>16 DEF Inv, Counting, Answer
  <2>2. lock' \in Threads \cup {NoThread}
    BY <1>16 DEF Inv, TypeOK, Answer, Release
  <2> QED
    BY <1>16, <2>1, <2>2 DEF Inv, TypeOK, Answer
<1> QED
  BY <1>1, <1>2, <1>3, <1>4, <1>5, <1>6, <1>8, <1>9, <1>10, <1>11, <1>12, <1>13,
     <1>14, <1>15, <1>16 DEF Step
-----------------------------------------------------------------------------
(***************************************************************************)
(* The steps before a delivery.                                            *)
(***************************************************************************)
(* A node of which nothing changes stands where it stood.                   *)
LEMMA NodeKeeps ==
  ASSUME NEW n \in Nodes, event_log' = event_log,
         next'[n] = next[n], buffer'[n] = buffer[n],
         local_log'[n] = local_log[n], calls'[n] = calls[n]
  PROVE  /\ Served(n)' <=> Served(n)
         /\ Waiting(n)' <=> Waiting(n)
         /\ Failed' <=> Failed
         /\ \A id, i, j : Stands(n, id, i, j)' <=> Stands(n, id, i, j)
<1>1. Failed' <=> Failed
  BY DEF Failed, Last
<1>2. \A id, i, j : Stands(n, id, i, j)' <=> Stands(n, id, i, j)
  BY DEF Stands, Logged, Called
<1> QED
  BY <1>1, <1>2 DEF Served, Waiting, Last

(* A request that begins or goes on before it has put its event into the    *)
(* log leaves the hub's log and the nodes as they are.                      *)
LEMMA BeforeDelivery ==
  ASSUME Inv, TypeOK', NEW t \in Threads, NEW label \in Sequencing \cup {"enter"},
         Locking, pc[t] \in Sequencing \cup {"enter"} \/ (pc[t] = "idle" /\ lock = NoThread),
         pc' = [pc EXCEPT ![t] = label], lock' = t,
         UNCHANGED <<event_log, halted, nodes, response>>,
         pc[t] = "idle" <=> label = "enter",
         label \in Sequencing => ~halted,
         \A u \in Threads : u # t => event'[u] = event[u] /\ loaded'[u] = loaded[u],
         event'[t].req \in Requests, at'[t] = 1, ~rejected'[t],
         causal_id' = IF label = "log" THEN Last + 2 ELSE Last + 1,
         label \in {"load_id", "store_id", "log"} => event'[t].cid = Last + 1,
         label = "store_id" => loaded'[t] = Last + 1
  PROVE  Inv'
<1>1. \A u \in Threads : u # t => pc[u] = "idle" /\ pc'[u] = "idle"
  <2>1. lock # t => lock = NoThread
    BY Alone, ConcurrencyAssumption DEF Inv, Exclusion, TypeOK, Sequencing
  <2> QED
    BY <2>1, ConcurrencyAssumption DEF Inv, Exclusion, TypeOK, Sequencing
<1>2. pc'[t] = label
  BY DEF Inv, TypeOK
<1>3. label \notin Delivering /\ pc[t] \notin Delivering /\ label # "idle"
  BY DEF Sequencing, Delivering
<1>4. Exclusion'
  BY <1>1, <1>2, <1>3 DEF Exclusion
<1>5. Ordered'
  BY DEF Inv, Ordered, Last
<1>6. Last' = Last
  BY DEF Last
<1>7. Counting'
  <2>1. (\A u \in Threads : pc'[u] # "log") => causal_id' = Last' + 1
    BY <1>2, <1>6
  <2>2. ASSUME NEW u \in Threads
        PROVE  /\ pc'[u] = "log" => causal_id' = Last' + 2
               /\ pc'[u] \in {"load_id", "store_id", "log"} => event'[u].cid = Last' + 1
               /\ pc'[u] = "store_id" => loaded'[u] = Last' + 1
               /\ pc'[u] # "idle" => event'[u].req \in Requests
    BY <1>1, <1>2, <1>6
  <2> QED BY <2>1, <2>2 DEF Counting
<1>8. Resting'
  <2>1. \A u \in Threads : pc[u] \notin Delivering
    BY <1>1, <1>3 DEF Delivering
  <2>2. (halted <=> Failed) /\ \A n \in Nodes : Served(n)
    BY <2>1 DEF Inv, Resting
  <2>3. \A n \in Nodes : Served(n)' <=> Served(n)
    BY NodeKeeps DEF nodes
  <2>4. Failed' <=> Failed
    BY DEF Failed, Last
  <2> QED
    BY <2>2, <2>3, <2>4 DEF Resting
<1>9. Fresh'
  BY <1>1, <1>2 DEF Fresh, Sequencing
<1>10. Deliveries'
  BY <1>1, <1>2, <1>3 DEF Deliveries, Delivering
<1>11. ResponsesAreTruthful'
  BY DEF Inv, ResponsesAreTruthful, nodes
<1> QED
  BY <1>4, <1>5, <1>7, <1>8, <1>9, <1>10, <1>11 DEF Inv

(* Where the counter and the events of a thread stand before a delivery.    *)
LEMMA CounterFacts ==
  ASSUME Inv, NEW t \in Threads, pc[t] \in Sequencing \cup {"enter"}
  PROVE  causal_id = IF pc[t] = "log" THEN Last + 2 ELSE Last + 1
  BY Alone DEF Inv, Counting, Sequencing

(* A request that begins takes the lock.                                    *)
LEMMA BeginKeeps ==
  ASSUME Inv, Locking, NEW t \in Threads, NEW raises \in Outcomes, Begin(t, raises)
  PROVE  Inv'
<1>1. TypeOK' /\ event'[t].req \in Requests
  BY BeginTypes DEF Inv
<1>2. /\ pc[t] = "idle" /\ lock = NoThread /\ lock' = t
      /\ pc' = [pc EXCEPT ![t] = "enter"]
      /\ UNCHANGED <<event_log, halted, nodes, response, causal_id>>
      /\ \A u \in Threads : u # t => event'[u] = event[u] /\ loaded'[u] = loaded[u]
      /\ at'[t] = 1 /\ ~rejected'[t]
  BY DEF Inv, TypeOK, Begin, Acquire, Goto, hub
<1>3. \A u \in Threads : pc[u] = "idle"
  BY <1>2, ConcurrencyAssumption DEF Inv, Exclusion
<1>4. causal_id' = Last + 1
  BY <1>2, <1>3 DEF Inv, Counting
<1> QED
  BY <1>1, <1>2, <1>4, BeforeDelivery, Zenon DEF Sequencing

(* A request that a halted hub refuses gives the lock back.                 *)
LEMMA RefusedKeeps ==
  ASSUME Inv, Locking, NEW t \in Threads, Refused(t)
  PROVE  Inv'
<1> USE DEF hub, nodes, locals
<1>1. TypeOK'
  BY StepTypes DEF Step
<1>2. /\ pc[t] = "enter" /\ lock = t /\ lock' = NoThread
      /\ pc' = [pc EXCEPT ![t] = "idle"] /\ pc'[t] = "idle"
      /\ \A u \in Threads : u # t => pc[u] = "idle" /\ pc'[u] = "idle"
  BY Alone DEF Inv, TypeOK, Refused, Release, Goto
<1>3. Exclusion'
  BY <1>2, ConcurrencyAssumption DEF Exclusion
<1>4. Ordered'
  BY DEF Inv, Ordered, Last, Refused
<1>5. Counting'
  BY <1>2, CounterFacts DEF Counting, Last, Refused
<1>6. Resting'
  <2>1. (halted <=> Failed) /\ \A n \in Nodes : Served(n)
    BY <1>2 DEF Inv, Resting, Delivering
  <2>2. /\ \A n \in Nodes : Served(n)' <=> Served(n)
        /\ Failed' <=> Failed
    BY NodeKeeps DEF Refused, Failed, Last
  <2> QED
    BY <2>1, <2>2 DEF Resting, Refused
<1>7. Fresh' /\ Deliveries'
  BY <1>2 DEF Fresh, Deliveries, Sequencing, Delivering
<1>8. ResponsesAreTruthful'
  <2>1. ASSUME NEW r \in Requests
        PROVE  response'[r] \in {response[r], "halted"}
    BY <2>1 DEF Inv, TypeOK, Refused
  <2>2. local_log' = local_log /\ event_log' = event_log
    BY DEF Refused
  <2>3. ResponsesAreTruthful
    BY DEF Inv
  <2> QED
    BY <2>1, <2>2, <2>3 DEF ResponsesAreTruthful
<1> QED
  BY <1>1, <1>3, <1>4, <1>5, <1>6, <1>7, <1>8 DEF Inv

(* The steps up to the store of the counter.                                *)
LEMMA SequencingKeeps ==
  ASSUME Inv, Locking, NEW t \in Threads,
         Accepted(t) \/ Sequence(t) \/ LoadId(t) \/ StoreId(t)
  PROVE  Inv'
<1> USE DEF Goto, hub, nodes, locals
<1>1. TypeOK'
  BY StepTypes DEF Step
<1>2. ASSUME NEW label \in Sequencing,
             pc[t] \in Sequencing \cup {"enter"} /\ pc[t] # "idle",
             pc' = [pc EXCEPT ![t] = label],
             UNCHANGED <<lock, event_log, halted, nodes, response, at, rejected>>,
             ~halted,
             \A u \in Threads : u # t => event'[u] = event[u] /\ loaded'[u] = loaded[u],
             event'[t].req = event[t].req,
             causal_id' = IF label = "log" THEN Last + 2 ELSE Last + 1,
             label \in {"load_id", "store_id", "log"} => event'[t].cid = Last + 1,
             label = "store_id" => loaded'[t] = Last + 1
      PROVE  Inv'
  <2>1. lock' = t /\ event'[t].req \in Requests /\ at'[t] = 1 /\ ~rejected'[t]
    BY <1>2, Alone DEF Inv, Counting, Fresh
  <2> QED
    BY <1>1, <1>2, <2>1, BeforeDelivery DEF Sequencing
<1>3. CASE Accepted(t)
  BY <1>2, <1>3, CounterFacts DEF Accepted, Sequencing
<1>4. CASE Sequence(t)
  <2>1. causal_id = Last + 1 /\ ~halted
    BY <1>4, CounterFacts DEF Inv, Fresh, Sequence, Sequencing
  <2>2. event'[t] = [event[t] EXCEPT !.cid = Last + 1] /\ event[t] \in Event
    BY <1>4, <2>1 DEF Inv, TypeOK, Sequence
  <2>3. event'[t].cid = Last + 1 /\ event'[t].req = event[t].req
    BY <2>2 DEF Event
  <2> QED
    BY <1>2, <1>4, <2>1, <2>3 DEF Inv, TypeOK, Sequence, Sequencing
<1>5. CASE LoadId(t)
  <2>1. causal_id = Last + 1 /\ ~halted /\ event[t].cid = Last + 1
    BY <1>5, CounterFacts DEF Inv, Fresh, Counting, LoadId, Sequencing
  <2> QED
    BY <1>2, <1>5, <2>1 DEF Inv, TypeOK, LoadId, Sequencing
<1>6. CASE StoreId(t)
  <2>1. loaded[t] = Last + 1 /\ ~halted /\ event[t].cid = Last + 1
    BY <1>6 DEF Inv, Fresh, Counting, StoreId, Sequencing
  <2>2. causal_id' = Last + 2
    BY <1>6, <2>1 DEF Inv, TypeOK, StoreId, Last
  <2> QED
    BY <1>2, <1>6, <2>1, <2>2 DEF Inv, TypeOK, StoreId, Sequencing
<1> QED
  BY <1>3, <1>4, <1>5, <1>6

(* An event enters the log when all nodes have been served.                 *)
LEMMA LogEventKeeps ==
  ASSUME Inv, Locking, NEW t \in Threads, LogEvent(t)
  PROVE  Inv'
<1> USE DEF hub, nodes, locals
<1>1. TypeOK'
  BY StepTypes DEF Step
<1>2. /\ pc[t] = "log" /\ lock = t /\ lock' = t /\ pc'[t] = "receive"
      /\ \A u \in Threads : u # t => pc[u] = "idle" /\ pc'[u] = "idle"
  BY Alone DEF Inv, TypeOK, LogEvent, Goto
<1>3. /\ Last \in Nat
      /\ Last' = Last + 1 /\ event_log'[Last'] = event[t]
      /\ \A i \in 1 .. Last : event_log'[i] = event_log[i]
  BY DEF Inv, TypeOK, LogEvent, Last
<1>4. /\ ~halted /\ ~Failed /\ \A n \in Nodes : Served(n)
      /\ causal_id = Last + 2 /\ event[t].cid = Last + 1 /\ event[t].req \in Requests
  BY <1>2 DEF Inv, Fresh, Resting, Counting, Sequencing, Delivering
<1>5. Exclusion'
  BY <1>2, ConcurrencyAssumption DEF Exclusion
<1>6. Ordered'
  <2> SUFFICES ASSUME NEW i \in 1 .. (Last + 1)
               PROVE  /\ event_log'[i].cid = i
                      /\ event_log'[i].req \in Requests
                      /\ i < Last + 1 => ~event_log'[i].raises
    BY <1>3 DEF Ordered
  <2>1. CASE i = Last + 1
    BY <1>3, <1>4, <2>1
  <2>2. CASE i # Last + 1
    <3>1. i \in 1 .. Last /\ event_log'[i] = event_log[i]
      BY <1>3, <2>2
    <3>2. ~event_log[i].raises
      <4>1. CASE i = Last
        BY <1>3, <1>4, <3>1, <4>1 DEF Failed
      <4>2. CASE i # Last
        BY <1>3, <3>1, <4>2 DEF Inv, Ordered
      <4> QED BY <4>1, <4>2
    <3> QED
      BY <3>1, <3>2 DEF Inv, Ordered
  <2> QED BY <2>1, <2>2
<1>7. Counting'
  BY <1>2, <1>3, <1>4 DEF Counting, LogEvent
<1>8. Resting' /\ Fresh'
  BY <1>2 DEF Resting, Fresh, Delivering, Sequencing
<1>9. Delivery(t)'
  <2>1. at'[t] = 1 /\ ~rejected'[t] /\ ~halted' /\ event'[t] = event_log'[Last']
    BY <1>2, <1>3, <1>4 DEF Inv, Fresh, LogEvent, Sequencing
  <2>2. \A n \in Nodes : Waiting(n)'
    <3> SUFFICES ASSUME NEW n \in Nodes PROVE Waiting(n)'
      OBVIOUS
    <3>1. buffer[n] = {} /\ Stands(n, Last + 1, Last, Last)
      BY <1>4 DEF Served
    <3>2. Last' = Last + 1 /\ Last' - 1 = Last
      BY <1>3
    <3>3. Stands(n, Last, Last - 1, Last - 1)'
      BY <1>3, <3>1, <3>2 DEF Stands, Logged, Called, LogEvent
    <3> QED
      BY <3>1, <3>3 DEF Waiting, LogEvent
  <2>3. 1 \in Nodes /\ 1 \in 1 .. (MaxNodes + 1) /\ 1 # MaxNodes + 1
    BY ConcurrencyAssumption DEF Nodes
  <2>4. /\ \A n \in Nodes : ~(n < 1)
        /\ Last' > 0
    BY <1>3 DEF Nodes
  <2>5. Applying(t, 1)'
    BY <1>2, <2>2, <2>3 DEF Applying
  <2> QED
    BY <1>2, <2>1, <2>2, <2>3, <2>4, <2>5 DEF Delivery
<1>10. Deliveries'
  BY <1>2, <1>9 DEF Deliveries, Delivering
<1>11. ResponsesAreTruthful'
  <2>1. ASSUME NEW r \in Requests, response[r] = "rejected"
        PROVE  \E i \in DOMAIN event_log' : event_log'[i].req = r /\ event_log'[i].raises
    <3>1. PICK i \in DOMAIN event_log : event_log[i].req = r /\ event_log[i].raises
      BY <2>1 DEF Inv, ResponsesAreTruthful
    <3>2. event_log \in Seq(Event) /\ event_log' \in Seq(Event)
      BY <1>1 DEF Inv, TypeOK
    <3>3. /\ Last \in Nat /\ DOMAIN event_log = 1 .. Last
          /\ DOMAIN event_log' = 1 .. Last'
      BY <3>2 DEF Last
    <3>4. i \in 1 .. Last /\ i \in DOMAIN event_log'
      BY <1>3, <3>1, <3>3
    <3> QED
      BY <1>3, <3>1, <3>4
  <2> QED
    BY <2>1 DEF Inv, ResponsesAreTruthful, LogEvent
<1> QED
  BY <1>1, <1>5, <1>6, <1>7, <1>8, <1>10, <1>11 DEF Inv
-----------------------------------------------------------------------------
(***************************************************************************)
(* The steps of a delivery.                                                *)
(***************************************************************************)
Working == Delivering \ {"answer"}

(* What is true of the thread that delivers, and of the node it is at.      *)
LEMMA WorkingFacts ==
  ASSUME Inv, NEW t \in Threads, pc[t] \in Working
  PROVE  /\ Delivery(t) /\ at[t] \in Nodes /\ Applying(t, at[t])
         /\ at[t] \in 1 .. MaxNodes /\ Last \in Nat \ {0}
         /\ event[t].cid = Last /\ event[t].req = event_log[Last].req
         /\ event[t].raises = event_log[Last].raises
<1>1. Delivery(t)
  BY DEF Inv, Deliveries, Working
<1>2. Last \in Nat \ {0} /\ Last \in 1 .. Last
  BY <1>1 DEF Inv, TypeOK, Delivery, Last
<1>3. at[t] \in Nodes
  BY <1>1, ConcurrencyAssumption DEF Delivery, Nodes, Working
<1> QED
  BY <1>1, <1>2, <1>3 DEF Delivery, Inv, Ordered, Nodes

(* Whatever a delivery does, it is enough that it keeps Delivery and takes  *)
(* nothing out of a node's log.                                             *)
LEMMA DeliveryStep ==
  ASSUME Inv, TypeOK', NEW t \in Threads, NEW label \in Delivering, pc[t] \in Working,
         pc' = [pc EXCEPT ![t] = label],
         UNCHANGED <<lock, causal_id, event_log, event, response>>,
         \A n \in Nodes : \A i \in DOMAIN local_log[n] :
           i \in DOMAIN local_log'[n] /\ local_log'[n][i] = local_log[n][i],
         Delivery(t)'
  PROVE  Inv'
<1>1. /\ lock = t /\ pc'[t] = label /\ label # "idle"
      /\ \A u \in Threads : u # t => pc[u] = "idle" /\ pc'[u] = "idle"
  BY Alone DEF Inv, TypeOK, Working, Delivering
<1>2. Exclusion'
  BY <1>1 DEF Exclusion
<1>3. Ordered'
  BY DEF Inv, Ordered, Last
<1>4. Counting'
  <2>1. causal_id = Last + 1 /\ event[t].req \in Requests
    BY <1>1 DEF Inv, Counting, Working, Delivering
  <2>2. Last' = Last
    BY DEF Last
  <2> QED
    BY <1>1, <2>1, <2>2 DEF Counting, Delivering
<1>5. Resting' /\ Fresh'
  BY <1>1 DEF Resting, Fresh, Delivering, Sequencing
<1>6. Deliveries'
  BY <1>1 DEF Deliveries, Delivering
<1>7. ResponsesAreTruthful'
  <2> SUFFICES ASSUME NEW r \in Requests, response[r] = "applied", NEW n \in Nodes
               PROVE  \E i \in DOMAIN local_log'[n] : local_log'[n][i].req = r
    BY DEF Inv, ResponsesAreTruthful
  <2>1. PICK i \in DOMAIN local_log[n] : local_log[n][i].req = r
    BY DEF Inv, ResponsesAreTruthful
  <2> QED
    BY <2>1
<1> QED
  BY <1>2, <1>3, <1>4, <1>5, <1>6, <1>7 DEF Inv

(* A thread that stays at its node.                                         *)
LEMMA StayingKeeps ==
  ASSUME Inv, TypeOK', NEW t \in Threads, NEW label \in Working, pc[t] \in Working,
         pc' = [pc EXCEPT ![t] = label],
         UNCHANGED <<lock, causal_id, event_log, event, response, at, rejected, halted>>,
         \A n \in Nodes \ {at[t]} : /\ next'[n] = next[n] /\ buffer'[n] = buffer[n]
                                    /\ local_log'[n] = local_log[n] /\ calls'[n] = calls[n],
         \A i \in DOMAIN local_log[at[t]] :
           /\ i \in DOMAIN local_log'[at[t]]
           /\ local_log'[at[t]][i] = local_log[at[t]][i],
         Applying(t, at[t])'
  PROVE  Inv'
<1>1. /\ Delivery(t) /\ at[t] \in 1 .. MaxNodes /\ label # "answer" /\ label \in Delivering
      /\ pc'[t] = label
  BY WorkingFacts DEF Working, Inv, TypeOK
<1>2. \A n \in Nodes \ {at[t]} : (Served(n)' <=> Served(n)) /\ (Waiting(n)' <=> Waiting(n))
  BY NodeKeeps
<1>3. (Failed' <=> Failed) /\ Last' = Last
  BY DEF Failed, Last
<1>4. \A n \in Nodes : (n < at'[t] => Served(n)') /\ (n > at'[t] => Waiting(n)')
  <2> SUFFICES ASSUME NEW n \in Nodes
               PROVE  (n < at[t] => Served(n)') /\ (n > at[t] => Waiting(n)')
    OBVIOUS
  <2>1. CASE n = at[t]
    BY <1>1, <2>1
  <2>2. CASE n # at[t]
    BY <1>1, <1>2, <2>2 DEF Delivery
  <2> QED BY <2>1, <2>2
<1>5. Delivery(t)'
  BY <1>1, <1>3, <1>4, WorkingFacts, ConcurrencyAssumption DEF Delivery, Working
<1>6. \A n \in Nodes : \A i \in DOMAIN local_log[n] :
        i \in DOMAIN local_log'[n] /\ local_log'[n][i] = local_log[n][i]
  OBVIOUS
<1> QED
  BY <1>1, <1>5, <1>6, DeliveryStep

(* A thread that goes on to the next node, or to its answer.                *)
LEMMA MovingKeeps ==
  ASSUME Inv, TypeOK', NEW t \in Threads, pc[t] \in Working,
         NEW k \in Nodes, at[t] = k, Delivered(t),
         UNCHANGED <<lock, causal_id, event_log, event, response, local_log>>,
         \A n \in Nodes \ {k} : /\ next'[n] = next[n] /\ buffer'[n] = buffer[n]
                                    /\ calls'[n] = calls[n],
         Served(k)',
         rejected'[t] <=> Failed, halted' <=> Failed
  PROVE  Inv'
<1>1. /\ Delivery(t) /\ k \in 1 .. MaxNodes /\ at'[t] = k + 1
      /\ MaxNodes \in Nat
  BY WorkingFacts, ConcurrencyAssumption DEF Delivered, Inv, TypeOK
<1>2. PICK label \in Delivering :
        /\ label = IF k = MaxNodes THEN "answer" ELSE "receive"
        /\ pc' = [pc EXCEPT ![t] = label]
        /\ pc'[t] = label
  BY DEF Delivered, Goto, Delivering, Inv, TypeOK
<1>3. \A n \in Nodes \ {k} : (Served(n)' <=> Served(n)) /\ (Waiting(n)' <=> Waiting(n))
  BY NodeKeeps
<1>4. (Failed' <=> Failed) /\ Last' = Last
  BY DEF Failed, Last
<1>5. \A n \in Nodes : (n < at'[t] => Served(n)') /\ (n >= at'[t] => Waiting(n)')
  <2> SUFFICES ASSUME NEW n \in Nodes
               PROVE  (n < k + 1 => Served(n)') /\ (n >= k + 1 => Waiting(n)')
    BY <1>1
  <2>1. CASE n = k
    BY <1>1, <2>1
  <2>2. CASE n # k
    <3>1. n \in Nat /\ (n < k + 1 => n < at[t]) /\ (n >= k + 1 => n > at[t])
      BY <1>1, <2>2 DEF Nodes
    <3> QED
      BY <1>1, <1>3, <2>2, <3>1 DEF Delivery
  <2> QED BY <2>1, <2>2
<1>6. at'[t] \in Nodes => Applying(t, at[t])'
  <2> SUFFICES ASSUME k + 1 \in Nodes PROVE Applying(t, k + 1)'
    BY <1>1
  <2>1. k # MaxNodes
    BY <1>1 DEF Nodes
  <2>2. Waiting(k + 1)' /\ pc'[t] = "receive"
    BY <1>1, <1>2, <1>5, <2>1
  <2> QED
    BY <2>2 DEF Applying
<1>7. Delivery(t)'
  <2>1. /\ at'[t] \in 1 .. (MaxNodes + 1) /\ at'[t] > 1
        /\ pc'[t] = "answer" <=> at'[t] = MaxNodes + 1
    BY <1>1, <1>2
  <2>2. \A n \in Nodes : (n < at'[t] => Served(n)') /\ (n > at'[t] => Waiting(n)')
    BY <1>1, <1>5 DEF Nodes
  <2> QED
    BY <1>1, <1>4, <1>6, <2>1, <2>2 DEF Delivery
<1> QED
  BY <1>2, <1>7, DeliveryStep

(* An event that is delivered is never an old one, since the node waits for *)
(* it.                                                                      *)
LEMMA ReceiveKeeps ==
  ASSUME Inv, NEW t \in Threads, Receive(t) \/ Buffer(t)
  PROVE  Inv'
<1> USE DEF Goto, hub, nodes, locals
<1>1. TypeOK' /\ pc[t] \in Working
  BY StepTypes DEF Step, Receive, Buffer, Working, Delivering
<1>2. PICK k \in Nodes : at[t] = k
  BY <1>1, WorkingFacts
<1>3. Waiting(k) /\ event[t].cid = Last /\ Last \in Nat
  BY <1>1, <1>2, WorkingFacts DEF Applying, Receive, Buffer
<1>4. CASE Receive(t)
  <2>1. ~(event[t].cid < next[k])
    BY <1>3 DEF Waiting, Stands
  <2>2. /\ pc' = [pc EXCEPT ![t] = "buffer"] /\ pc'[t] = "buffer"
        /\ UNCHANGED <<lock, hub, nodes, event, loaded, popped, rejected, response, at>>
    BY <1>2, <1>4, <2>1 DEF Receive, Inv, TypeOK
  <2>3. Waiting(k)'
    BY <1>3, <2>2, NodeKeeps
  <2>4. Applying(t, at[t])'
    BY <1>2, <2>2, <2>3 DEF Applying
  <2> QED
    BY <1>1, <2>2, <2>4, StayingKeeps DEF Working, Delivering
<1>5. CASE Buffer(t)
  <2>1. /\ pc' = [pc EXCEPT ![t] = "test"] /\ pc'[t] = "test"
        /\ UNCHANGED <<lock, hub, next, local_log, calls, locals, response>>
        /\ buffer'[k] = {event[t]}
        /\ \A n \in Nodes \ {k} : buffer'[n] = buffer[n]
    BY <1>2, <1>3, <1>5 DEF Buffer, Inv, TypeOK, Waiting
  <2>2. Holding(k, event[t])'
    BY <1>3, <2>1 DEF Holding, Waiting, Stands, Logged, Called, Last
  <2>3. Applying(t, at[t])'
    BY <1>2, <2>1, <2>2 DEF Applying
  <2> QED
    BY <1>1, <1>2, <2>1, <2>3, StayingKeeps DEF Working, Delivering
<1> QED
  BY <1>4, <1>5

(* The loop goes on exactly while the thread's own event is in the buffer.  *)
LEMMA TestKeeps ==
  ASSUME Inv, NEW t \in Threads, Test(t)
  PROVE  Inv'
<1> USE DEF Goto, hub, nodes, locals
<1>1. TypeOK' /\ pc[t] \in Working /\ pc[t] = "test"
  BY StepTypes DEF Step, Test, Working, Delivering
<1>2. PICK k \in Nodes : at[t] = k
  BY <1>1, WorkingFacts
<1>3. /\ Holding(k, event[t]) \/ (Served(k) /\ ~Failed)
      /\ event[t].cid = Last
  BY <1>1, <1>2, WorkingFacts DEF Applying
<1>4. CASE Holding(k, event[t])
  <2>1. Buffered(k, next[k])
    BY <1>3, <1>4 DEF Holding, Stands, Buffered
  <2>2. /\ pc' = [pc EXCEPT ![t] = "pop"] /\ pc'[t] = "pop"
        /\ UNCHANGED <<lock, hub, nodes, event, loaded, popped, rejected, response, at>>
    BY <1>2, <2>1 DEF Test, Inv, TypeOK
  <2>3. Holding(k, event[t])'
    BY <1>4, <2>2 DEF Holding, Stands, Logged, Called, Last
  <2>4. Applying(t, at[t])'
    BY <1>2, <2>2, <2>3 DEF Applying
  <2> QED
    BY <1>1, <2>2, <2>4, StayingKeeps DEF Working, Delivering
<1>5. CASE Served(k) /\ ~Failed
  <2>1. ~Buffered(k, next[k])
    BY <1>5 DEF Served, Buffered
  <2>2. /\ Delivered(t)
        /\ UNCHANGED <<lock, hub, nodes, event, loaded, popped, rejected, response>>
    BY <1>2, <2>1 DEF Test
  <2>3. Served(k)'
    BY <1>5, <2>2, NodeKeeps
  <2>4. ~rejected'[t] /\ ~halted'
    BY <1>1, <1>5, <2>2, WorkingFacts DEF Delivery
  <2> QED
    BY <1>1, <1>2, <1>5, <2>2, <2>3, <2>4, MovingKeeps
<1> QED
  BY <1>3, <1>4, <1>5

(* A thread pops its own event: no other thread can have taken it.          *)
LEMMA PopKeeps ==
  ASSUME Inv, NEW t \in Threads, Pop(t)
  PROVE  Inv'
<1> USE DEF Goto, hub, nodes, locals
<1>1. TypeOK' /\ pc[t] \in Working /\ pc[t] = "pop"
  BY StepTypes DEF Step, Pop, Working, Delivering
<1>2. PICK k \in Nodes : at[t] = k
  BY <1>1, WorkingFacts
<1>3. Holding(k, event[t]) /\ event[t].cid = Last
  BY <1>1, <1>2, WorkingFacts DEF Applying
<1>4. Buffered(k, next[k])
  BY <1>3 DEF Holding, Stands, Buffered
<1>5. PICK e \in buffer[k] : /\ e.cid = next[k]
                             /\ buffer' = [buffer EXCEPT ![k] = @ \ {e}]
                             /\ popped' = [popped EXCEPT ![t] = e]
  BY <1>2, <1>4 DEF Pop
<1>6. e = event[t] /\ buffer'[k] = {} /\ popped'[t] = event[t]
  BY <1>3, <1>5 DEF Holding, Inv, TypeOK
<1>7. /\ pc' = [pc EXCEPT ![t] = "apply"] /\ pc'[t] = "apply"
      /\ UNCHANGED <<lock, hub, next, local_log, calls, event, loaded, at, rejected, response>>
  BY <1>2, <1>4 DEF Pop, Inv, TypeOK
<1>8. \A n \in Nodes \ {k} : buffer'[n] = buffer[n]
  BY <1>5
<1>9. Waiting(k)'
  BY <1>3, <1>6, <1>7 DEF Holding, Waiting, Stands, Logged, Called, Last
<1>10. Applying(t, at[t])'
  BY <1>2, <1>6, <1>7, <1>9 DEF Applying
<1> QED
  BY <1>1, <1>2, <1>7, <1>8, <1>10, StayingKeeps DEF Working, Delivering

(* A payload that raises halts the hub and ends the delivery to this node   *)
(* only: the next node raises on it as well.                                *)
LEMMA ApplyKeeps ==
  ASSUME Inv, NEW t \in Threads, Apply(t)
  PROVE  Inv'
<1> USE DEF Goto, hub, nodes, locals
<1>1. TypeOK' /\ pc[t] \in Working /\ pc[t] = "apply"
  BY StepTypes DEF Step, Apply, Working, Delivering
<1>2. PICK k \in Nodes : at[t] = k
  BY <1>1, WorkingFacts
<1>3. /\ Waiting(k) /\ popped[t] = event[t] /\ Last \in Nat \ {0}
      /\ event[t].req = event_log[Last].req
      /\ event[t].raises <=> Failed
  BY <1>1, <1>2, WorkingFacts DEF Applying, Failed
<1>4. /\ calls'[k] = Append(calls[k], event[t].req)
      /\ \A n \in Nodes \ {k} : calls'[n] = calls[n]
      /\ UNCHANGED <<lock, causal_id, event_log, next, buffer, local_log, event,
                     loaded, popped, response>>
  BY <1>2, <1>3 DEF Apply, Inv, TypeOK
<1>5. Last' = Last /\ (Failed' <=> Failed)
  BY <1>4 DEF Failed, Last
<1>6. Called(k, Last)'
  <2>1. calls[k] \in Seq(Requests) /\ Called(k, Last - 1)
    BY <1>3 DEF Inv, TypeOK, Waiting, Stands
  <2>2. /\ Len(calls'[k]) = Last
        /\ \A i \in 1 .. (Last - 1) : calls'[k][i] = calls[k][i]
        /\ calls'[k][Last] = event[t].req
    BY <1>3, <1>4, <2>1 DEF Called
  <2>3. \A i \in 1 .. Last : calls'[k][i] = event_log[i].req
    <3> SUFFICES ASSUME NEW i \in 1 .. Last PROVE calls'[k][i] = event_log[i].req
      OBVIOUS
    <3>1. CASE i = Last
      BY <1>3, <2>2, <3>1
    <3>2. CASE i # Last
      BY <1>3, <2>1, <2>2, <3>2 DEF Called
    <3> QED BY <3>1, <3>2
  <2> QED
    BY <1>4, <1>5, <2>2, <2>3 DEF Called
<1>7. buffer'[k] = {} /\ Stands(k, Last, Last - 1, Last)'
  BY <1>3, <1>4, <1>5, <1>6 DEF Waiting, Stands, Logged
<1>8. CASE popped[t].raises
  <2>1. Reject(t) /\ Delivered(t) /\ rejected'[t] /\ halted'
    BY <1>8 DEF Apply, Reject, Inv, TypeOK
  <2>2. Served(k)'
    BY <1>3, <1>5, <1>7, <1>8 DEF Served
  <2> QED
    BY <1>1, <1>2, <1>3, <1>4, <1>8, <2>1, <2>2, MovingKeeps
<1>9. CASE ~popped[t].raises
  <2>1. /\ pc' = [pc EXCEPT ![t] = "log_local"] /\ pc'[t] = "log_local"
        /\ UNCHANGED <<at, rejected, halted>>
    BY <1>9 DEF Apply, Inv, TypeOK
  <2>2. Applying(t, at[t])'
    BY <1>2, <1>3, <1>4, <1>5, <1>7, <1>9, <2>1 DEF Applying
  <2> QED
    BY <1>1, <1>2, <1>4, <2>1, <2>2, StayingKeeps DEF Working, Delivering
<1> QED
  BY <1>8, <1>9

(* An event that was applied is logged, and the position advanced.          *)
LEMMA LogLocallyKeeps ==
  ASSUME Inv, NEW t \in Threads, LogLocally(t)
  PROVE  Inv'
<1> USE DEF Goto, hub, nodes, locals
<1>1. TypeOK' /\ pc[t] \in Working /\ pc[t] = "log_local"
  BY StepTypes DEF Step, LogLocally, Working, Delivering
<1>2. PICK k \in Nodes : at[t] = k
  BY <1>1, WorkingFacts
<1>3. /\ buffer[k] = {} /\ Stands(k, Last, Last - 1, Last)
      /\ popped[t] = event[t] /\ ~Failed /\ Last \in Nat \ {0}
      /\ event[t] = event_log[Last]
  BY <1>1, <1>2, WorkingFacts DEF Applying, Delivery
<1>4. /\ local_log'[k] = Append(local_log[k], event[t])
      /\ \A n \in Nodes \ {k} : local_log'[n] = local_log[n]
      /\ pc' = [pc EXCEPT ![t] = "load_next"] /\ pc'[t] = "load_next"
      /\ UNCHANGED <<lock, hub, next, buffer, calls, locals, response>>
  BY <1>2, <1>3 DEF LogLocally, Inv, TypeOK
<1>5. Last' = Last /\ (Failed' <=> Failed)
  BY <1>4 DEF Failed, Last
<1>6. /\ Len(local_log'[k]) = Last
      /\ \A i \in 1 .. (Last - 1) : local_log'[k][i] = local_log[k][i]
      /\ local_log'[k][Last] = event[t]
      /\ DOMAIN local_log[k] = 1 .. (Last - 1) /\ DOMAIN local_log'[k] = 1 .. Last
  <2>1. local_log[k] \in Seq(Event) /\ local_log'[k] \in Seq(Event) /\ Len(local_log[k]) = Last - 1
    BY <1>1, <1>3 DEF Inv, TypeOK, Stands, Logged
  <2> QED
    BY <1>3, <1>4, <2>1
<1>7. \A i \in 1 .. Last : local_log'[k][i] = event_log[i]
  <2> SUFFICES ASSUME NEW i \in 1 .. Last PROVE local_log'[k][i] = event_log[i]
    OBVIOUS
  <2>1. CASE i = Last
    BY <1>3, <1>6, <2>1
  <2>2. CASE i # Last
    BY <1>3, <1>6, <2>2 DEF Stands, Logged
  <2> QED BY <2>1, <2>2
<1>8. buffer'[k] = {} /\ Stands(k, Last, Last, Last)'
  BY <1>3, <1>4, <1>5, <1>6, <1>7 DEF Stands, Logged, Called
<1>9. Applying(t, at[t])'
  BY <1>2, <1>3, <1>4, <1>5, <1>8 DEF Applying
<1>10. \A i \in DOMAIN local_log[at[t]] :
         /\ i \in DOMAIN local_log'[at[t]]
         /\ local_log'[at[t]][i] = local_log[at[t]][i]
  BY <1>2, <1>3, <1>6
<1>11. UNCHANGED <<lock, causal_id, event_log, event, response, at, rejected, halted>>
  BY <1>4
<1>12. \A n \in Nodes \ {at[t]} : /\ next'[n] = next[n] /\ buffer'[n] = buffer[n]
                                  /\ local_log'[n] = local_log[n] /\ calls'[n] = calls[n]
  BY <1>2, <1>4
<1> QED
  BY <1>1, <1>4, <1>9, <1>10, <1>11, <1>12, StayingKeeps DEF Working, Delivering

(* The position is loaded and stored, and no other thread writes it between.*)
LEMMA AdvanceKeeps ==
  ASSUME Inv, NEW t \in Threads, LoadNext(t) \/ StoreNext(t)
  PROVE  Inv'
<1> USE DEF Goto, hub, nodes, locals
<1>1. TypeOK' /\ pc[t] \in Working
  BY StepTypes DEF Step, LoadNext, StoreNext, Working, Delivering
<1>2. PICK k \in Nodes : at[t] = k
  BY <1>1, WorkingFacts
<1>3. buffer[k] = {} /\ Stands(k, Last, Last, Last) /\ ~Failed /\ Last \in Nat
  BY <1>1, <1>2, WorkingFacts DEF Applying, LoadNext, StoreNext
<1>4. CASE LoadNext(t)
  <2>1. /\ pc' = [pc EXCEPT ![t] = "store_next"] /\ pc'[t] = "store_next"
        /\ UNCHANGED <<lock, hub, nodes, event, at, popped, rejected, response>>
        /\ loaded'[t] = Last
    BY <1>2, <1>3, <1>4 DEF LoadNext, Inv, TypeOK, Stands
  <2>2. /\ buffer'[k] = {} /\ Stands(k, Last, Last, Last)'
        /\ ~Failed' /\ Last' = Last
    BY <1>3, <2>1 DEF Stands, Logged, Called, Failed, Last
  <2>3. Applying(t, at[t])'
    BY <1>2, <2>1, <2>2 DEF Applying
  <2> QED
    BY <1>1, <2>1, <2>3, StayingKeeps DEF Working, Delivering
<1>5. CASE StoreNext(t)
  <2>1. loaded[t] = Last
    BY <1>1, <1>2, <1>5, WorkingFacts DEF Applying, StoreNext
  <2>2. /\ pc' = [pc EXCEPT ![t] = "test"] /\ pc'[t] = "test"
        /\ UNCHANGED <<lock, hub, buffer, local_log, calls, locals, response>>
        /\ next'[k] = Last + 1
        /\ \A n \in Nodes \ {k} : next'[n] = next[n]
    BY <1>2, <1>5, <2>1 DEF StoreNext, Inv, TypeOK
  <2>3. ~Failed' /\ Last' = Last
    BY <1>3, <2>2 DEF Failed, Last
  <2>4. Stands(k, Last + 1, Last, Last)'
    BY <1>3, <2>2, <2>3 DEF Stands, Logged, Called
  <2>5. Served(k)'
    BY <1>3, <2>2, <2>3, <2>4 DEF Served
  <2>6. Applying(t, at[t])'
    BY <1>2, <2>2, <2>3, <2>5 DEF Applying
  <2> QED
    BY <1>1, <1>2, <2>2, <2>6, StayingKeeps DEF Working, Delivering
<1> QED
  BY <1>4, <1>5

(* When a request is answered all nodes have been served, and it is         *)
(* answered as rejected exactly if its payload raised.                      *)
LEMMA AnswerKeeps ==
  ASSUME Inv, NEW t \in Threads, Answer(t)
  PROVE  Inv'
<1> USE DEF hub, nodes, locals
<1>1. TypeOK'
  BY StepTypes DEF Step
<1>2. /\ pc[t] = "answer" /\ lock = t /\ lock' = NoThread /\ pc'[t] = "idle"
      /\ \A u \in Threads : u # t => pc[u] = "idle" /\ pc'[u] = "idle"
  BY Alone DEF Inv, TypeOK, Answer, Release, Goto
<1>3. /\ Delivery(t) /\ at[t] = MaxNodes + 1 /\ MaxNodes \in Nat \ {0}
      /\ event[t].req \in Requests /\ causal_id = Last + 1
  BY <1>2, ConcurrencyAssumption DEF Inv, Deliveries, Delivery, Delivering, Counting
<1>4. /\ \A n \in Nodes : Served(n)
      /\ rejected[t] <=> Failed
      /\ halted <=> Failed
      /\ Last \in Nat \ {0} /\ event[t] = event_log[Last]
  BY <1>3 DEF Delivery, Nodes, Inv, TypeOK, Last
<1>5. Exclusion'
  BY <1>2, ConcurrencyAssumption DEF Exclusion
<1>6. Ordered'
  BY DEF Inv, Ordered, Last, Answer
<1>7. Counting'
  BY <1>2, <1>3 DEF Counting, Last, Answer
<1>8. Resting'
  <2>1. /\ \A n \in Nodes : Served(n)' <=> Served(n)
        /\ Failed' <=> Failed
    BY NodeKeeps DEF Answer, Failed, Last
  <2> QED
    BY <1>4, <2>1 DEF Resting, Answer
<1>9. Fresh' /\ Deliveries'
  BY <1>2 DEF Fresh, Deliveries, Sequencing, Delivering
<1>10. ResponsesAreTruthful'
  <2>1. UNCHANGED <<local_log, event_log>>
    BY DEF Answer
  <2>2. ASSUME NEW r \in Requests, r # event[t].req PROVE response'[r] = response[r]
    BY <2>2 DEF Answer, Inv, TypeOK
  <2>3. response'[event[t].req] = IF Failed THEN "rejected" ELSE "applied"
    BY <1>3, <1>4 DEF Answer, Inv, TypeOK
  <2>4. ASSUME Failed
        PROVE  \E i \in DOMAIN event_log :
                 event_log[i].req = event[t].req /\ event_log[i].raises
    BY <1>4, <2>4 DEF Failed, Last, Inv, TypeOK
  <2>5. ASSUME ~Failed, NEW n \in Nodes
        PROVE  \E i \in DOMAIN local_log[n] : local_log[n][i].req = event[t].req
    <3>1. Len(local_log[n]) = Last /\ local_log[n][Last] = event[t]
      BY <1>4, <2>5 DEF Served, Stands, Logged
    <3>2. Last \in DOMAIN local_log[n]
      BY <1>4, <3>1 DEF Inv, TypeOK
    <3> QED
      BY <3>1, <3>2
  <2> QED
    BY <2>1, <2>2, <2>3, <2>4, <2>5 DEF Inv, ResponsesAreTruthful
<1> QED
  BY <1>1, <1>5, <1>6, <1>7, <1>8, <1>9, <1>10 DEF Inv
-----------------------------------------------------------------------------
(***************************************************************************)
(* The theorems.                                                           *)
(***************************************************************************)
LEMMA InvInit == Init => Inv
<1> SUFFICES ASSUME Init PROVE Inv
  OBVIOUS
<1>1. NoEvent \in Event
  BY DEF NoEvent, Event
<1>2. TypeOK
  <2>1. /\ lock = NoThread /\ causal_id = 1
        /\ event_log = <<>> /\ halted = FALSE
    BY DEF Init
  <2>2. /\ next \in [Nodes -> Nat \ {0}] /\ buffer \in [Nodes -> SUBSET Event]
        /\ local_log \in [Nodes -> Seq(Event)] /\ calls \in [Nodes -> Seq(Requests)]
    BY DEF Init
  <2>3. /\ event \in [Threads -> Event] /\ popped \in [Threads -> Event]
        /\ loaded \in [Threads -> Nat] /\ at \in [Threads -> 1 .. (MaxNodes + 1)]
        /\ rejected \in [Threads -> BOOLEAN]
    BY <1>1, ConcurrencyAssumption DEF Init
  <2>4. /\ pc \in [Threads -> {"idle", "enter"} \cup Sequencing \cup Delivering]
        /\ response \in [Requests -> {"none", "applied", "rejected", "halted"}]
    BY DEF Init
  <2>5. lock \in Threads \cup {NoThread} /\ halted \in BOOLEAN
    BY <2>1, Zenon
  <2>6. causal_id \in Nat \ {0}
    BY <2>1
  <2>7. event_log \in Seq(Event)
    BY <2>1, EmptySeq
  <2> QED
    BY <2>2, <2>3, <2>4, <2>5, <2>6, <2>7 DEF TypeOK, Sequencing, Delivering
<1>3. Last = 0
  BY DEF Init, Last
<1>4. Exclusion /\ Ordered /\ Counting /\ Fresh /\ Deliveries
  BY <1>3, ConcurrencyAssumption
     DEF Init, Exclusion, Ordered, Counting, Fresh, Deliveries, Sequencing, Delivering
<1>5. Resting
  BY <1>3 DEF Init, Resting, Failed, Served, Stands, Logged, Called
<1>6. ResponsesAreTruthful
  BY DEF Init, ResponsesAreTruthful
<1> QED
  BY <1>2, <1>4, <1>5, <1>6 DEF Inv

LEMMA StepKeeps ==
  ASSUME Locking, Inv, [Next]_vars
  PROVE  Inv'
<1>1. ASSUME NEW t \in Threads, NEW raises \in Outcomes, Begin(t, raises) PROVE Inv'
  BY <1>1, BeginKeeps
<1>2. ASSUME NEW t \in Threads, Step(t) PROVE Inv'
  BY <1>2, RefusedKeeps, SequencingKeeps, LogEventKeeps, ReceiveKeeps, TestKeeps, PopKeeps,
     ApplyKeeps, LogLocallyKeeps, AdvanceKeeps, AnswerKeeps DEF Step
<1>3. CASE UNCHANGED vars
  <2> USE <1>3 DEF vars, hub, nodes, locals
  <2>1. \A n \in Nodes : (Served(n)' <=> Served(n)) /\ (Waiting(n)' <=> Waiting(n))
    BY NodeKeeps
  <2>2. Last' = Last /\ (Failed' <=> Failed)
    BY DEF Last, Failed
  <2>3. ASSUME NEW t \in Threads PROVE Delivery(t)' <=> Delivery(t)
    <3>1. \A n \in Nodes : Applying(t, n)' <=> Applying(t, n)
      BY <2>1, <2>2 DEF Applying, Holding, Stands, Logged, Called
    <3> QED
      BY <2>1, <2>2, <3>1 DEF Delivery
  <2>4. Deliveries'
    BY <2>3 DEF Inv, Deliveries
  <2>5. Resting'
    BY <2>1, <2>2 DEF Inv, Resting
  <2> QED
    BY <2>2, <2>4, <2>5
       DEF Inv, TypeOK, Exclusion, Ordered, Counting, Fresh, ResponsesAreTruthful
<1> QED
  BY <1>1, <1>2, <1>3 DEF Next

(* Under the lock the steps of a submit are as good as one: who is past     *)
(* idle is alone, and the nodes are served one after the other.             *)
THEOREM Invariance == ASSUME Locking PROVE Spec => []Inv
<1>1. Init => Inv
  BY InvInit
<1>2. Inv /\ [Next]_vars => Inv'
  BY StepKeeps
<1> QED
  BY <1>1, <1>2, PTL DEF Spec

(* TypeOK of ConcurrentSubmit. *)
THEOREM TypeCorrectness == ASSUME Locking PROVE Spec => []TypeOK
<1>1. Inv => TypeOK
  BY DEF Inv
<1> QED
  BY <1>1, Invariance, PTL

(* At any time, half way through a delivery too, the log of a node is a     *)
(* prefix of the hub's.                                                     *)
LEMMA LogsArePrefixes ==
  ASSUME Inv, NEW n \in Nodes
  PROVE  /\ Last \in Nat
         /\ \E k \in 0 .. Last : Logged(n, k)
<1>1. Last \in Nat /\ (Last > 0 => Last - 1 \in 0 .. Last) /\ Last \in 0 .. Last
  BY DEF Inv, TypeOK, Last
<1>2. Served(n) => \E k \in 0 .. Last : Logged(n, k)
  BY <1>1 DEF Served, Stands, Failed
<1>3. CASE \A t \in Threads : pc[t] \notin Delivering
  BY <1>1, <1>2, <1>3 DEF Inv, Resting
<1>4. CASE \E t \in Threads : pc[t] \in Delivering
  <2>1. PICK t \in Threads : pc[t] \in Delivering
    BY <1>4
  <2>2. Delivery(t)
    BY <2>1 DEF Inv, Deliveries
  <2>3. Waiting(n) => \E k \in 0 .. Last : Logged(n, k)
    BY <1>1, <2>2 DEF Waiting, Stands, Delivery
  <2>4. CASE n = at[t]
    <3>1. Applying(t, n)
      BY <2>2, <2>4 DEF Delivery
    <3> QED
      BY <1>1, <1>2, <2>2, <2>3, <3>1 DEF Applying, Holding, Stands, Delivery
  <2>5. CASE n # at[t]
    <3>1. n < at[t] \/ n > at[t]
      BY <2>2, <2>5 DEF Delivery, Nodes
    <3>2. Served(n) \/ Waiting(n)
      BY <2>2, <3>1 DEF Delivery
    <3> QED
      BY <1>1, <1>2, <2>3, <3>2
  <2> QED BY <2>4, <2>5
<1> QED BY <1>1, <1>3, <1>4

(* Under the lock the i-th event that a node applies is the one with id i,  *)
(* which without it is not so (execution_interface.py:53).                  *)
THEOREM EventsAreAppliedInSequence == ASSUME Locking PROVE Spec => []AppliedInSequence
<1>1. Inv => AppliedInSequence
  <2> SUFFICES ASSUME Inv, NEW n \in Nodes, NEW i \in DOMAIN local_log[n]
               PROVE  local_log[n][i].cid = i
    BY DEF AppliedInSequence
  <2>1. PICK k \in 0 .. Last : Logged(n, k)
    BY LogsArePrefixes
  <2>2. i \in 1 .. k /\ i \in 1 .. Last
    <3>1. local_log[n] \in Seq(Event) /\ Len(local_log[n]) = k
      BY <2>1 DEF Inv, TypeOK, Logged
    <3>2. i \in 1 .. k
      BY <3>1
    <3> QED
      BY <2>1, <3>2, LogsArePrefixes
  <2>3. local_log[n][i] = event_log[i]
    BY <2>1, <2>2 DEF Logged
  <2> QED
    BY <2>2, <2>3 DEF Inv, Ordered
<1> QED
  BY <1>1, Invariance, PTL

(* A request answered "applied" is in every node's log, and one answered    *)
(* "rejected" had a payload that raises.                                    *)
THEOREM ResponsesTellTheTruth == ASSUME Locking PROVE Spec => []ResponsesAreTruthful
<1>1. Inv => ResponsesAreTruthful
  BY DEF Inv
<1> QED
  BY <1>1, Invariance, PTL

(* Whenever no request is in progress, all nodes have applied the same and  *)
(* buffer nothing, whether the hub has halted or not.                       *)
THEOREM QuietNodesAgree == ASSUME Locking PROVE Spec => []QuietConsensus
<1>1. Inv => QuietConsensus
  <2> SUFFICES ASSUME Inv, \A t \in Threads : pc[t] = "idle",
                      NEW m \in Nodes, NEW n \in Nodes
               PROVE  buffer[n] = {} /\ calls[m] = calls[n]
    BY DEF QuietConsensus
  <2>1. Served(m) /\ Served(n)
    BY DEF Inv, Resting, Delivering
  <2>2. Called(m, Last) /\ Called(n, Last) /\ buffer[n] = {}
    BY <2>1 DEF Served, Stands
  <2>3. calls[m] \in Seq(Requests) /\ calls[n] \in Seq(Requests)
    BY DEF Inv, TypeOK
  <2>4. Len(calls[m]) = Len(calls[n]) /\ \A i \in 1 .. Len(calls[m]) : calls[m][i] = calls[n][i]
    BY <2>2 DEF Called
  <2>5. calls[m] = calls[n]
    BY <2>3, <2>4, SeqEqual
  <2> QED
    BY <2>2, <2>5
<1> QED
  BY <1>1, Invariance, PTL
-----------------------------------------------------------------------------
(***************************************************************************)
(* The implementation of the sequenced log.                                *)
(***************************************************************************)
(* The requests of a sequence of events.                                    *)
LEMMA RequestsOfSequence ==
  ASSUME NEW s \in Seq(Event), \A i \in 1 .. Len(s) : s[i].req \in Requests
  PROVE  /\ RequestsOf(s) \in Seq(Requests)
         /\ Len(RequestsOf(s)) = Len(s)
         /\ \A i \in 1 .. Len(s) : RequestsOf(s)[i] = s[i].req
<1>1. RequestsOf(s) = [i \in 1 .. Len(s) |-> s[i].req] /\ Len(s) \in Nat
  BY DEF RequestsOf
<1>2. RequestsOf(s) \in [1 .. Len(s) -> Requests]
  BY <1>1
<1> QED
  BY <1>1, <1>2, SeqDef

(* No step takes anything out of a node's log.                              *)
LEMMA LogsGrow ==
  ASSUME TypeOK, [Next]_vars, NEW n \in Nodes
  PROVE  /\ Len(local_log[n]) <= Len(local_log'[n])
         /\ \A i \in 1 .. Len(local_log[n]) : local_log'[n][i] = local_log[n][i]
<1>1. local_log[n] \in Seq(Event) /\ Len(local_log[n]) \in Nat
  BY DEF TypeOK
<1>2. ASSUME NEW t \in Threads, LogLocally(t)
      PROVE  local_log'[n] = local_log[n] \/ \E e \in Event : local_log'[n] = Append(local_log[n], e)
  BY <1>2 DEF TypeOK, LogLocally
<1>3. \/ local_log'[n] = local_log[n]
      \/ \E e \in Event : local_log'[n] = Append(local_log[n], e)
  BY <1>2 DEF Next, vars, hub, nodes, locals, Begin, Step, Refused, Accepted, Sequence, LoadId,
              StoreId, LogEvent, Receive, Buffer, Test, Pop, Apply, LoadNext, StoreNext, Answer
<1> QED
  BY <1>1, <1>3

(* Under the lock the threads implement the abstract sequenced log: a step  *)
(* of a thread is a step of the abstract specification or a stutter.        *)
THEOREM Implementation == ASSUME Locking PROVE Spec => ImplementsSequencedLog
<1> DEFINE copy == [n \in Nodes |-> RequestsOf(local_log[n])]
           glog == RequestsOf(event_log)
           Prefixes == \A n \in Nodes : \E k \in 0 .. Last : Logged(n, k)
<1>1. Init => Sequenced!Init
  BY DEF Init, Sequenced!Init, RequestsOf
<1>2. Inv /\ Inv' /\ Prefixes' /\ [Next]_vars => [Sequenced!Next]_(Sequenced!vars)
  <2> SUFFICES ASSUME Inv, Inv', Prefixes', [Next]_vars
               PROVE  Sequenced!Next
    OBVIOUS
  <2>1. /\ event_log \in Seq(Event) /\ \A i \in 1 .. Len(event_log) : event_log[i].req \in Requests
        /\ event_log' \in Seq(Event)
        /\ \A i \in 1 .. Len(event_log') : event_log'[i].req \in Requests
    BY DEF Inv, TypeOK, Ordered, Last
  <2>2. glog' = glog \/ \E r \in Requests : glog' = Append(glog, r)
    <3>1. CASE event_log' = event_log
      BY <3>1
    <3>2. ASSUME NEW e \in Event, event_log' = Append(event_log, e)
          PROVE  \E r \in Requests : glog' = Append(glog, r)
      <4>1. /\ Len(event_log) \in Nat /\ Len(event_log') = Len(event_log) + 1
            /\ event_log'[Len(event_log) + 1] = e
            /\ \A i \in 1 .. Len(event_log) : event_log'[i] = event_log[i]
        BY <2>1, <3>2
      <4>2. e.req \in Requests
        BY <2>1, <4>1
      <4>3. /\ glog \in Seq(Requests) /\ Len(glog) = Len(event_log)
            /\ \A i \in 1 .. Len(event_log) : glog[i] = event_log[i].req
        BY <2>1, RequestsOfSequence
      <4>4. /\ RequestsOf(event_log') \in Seq(Requests)
            /\ Len(RequestsOf(event_log')) = Len(event_log')
            /\ \A i \in 1 .. Len(event_log') : RequestsOf(event_log')[i] = event_log'[i].req
        BY <2>1, RequestsOfSequence
      <4>5. glog' = RequestsOf(event_log')
        BY DEF RequestsOf
      <4> HIDE DEF glog
      <4>6. /\ Append(glog, e.req) \in Seq(Requests)
            /\ Len(Append(glog, e.req)) = Len(glog) + 1
            /\ Append(glog, e.req)[Len(glog) + 1] = e.req
            /\ \A i \in 1 .. Len(glog) : Append(glog, e.req)[i] = glog[i]
        BY <4>2, <4>3
      <4>7. \A i \in 1 .. (Len(event_log) + 1) :
              RequestsOf(event_log')[i] = Append(glog, e.req)[i]
        <5> SUFFICES ASSUME NEW i \in 1 .. (Len(event_log) + 1)
                     PROVE  RequestsOf(event_log')[i] = Append(glog, e.req)[i]
          OBVIOUS
        <5>1. RequestsOf(event_log')[i] = event_log'[i].req
          BY <4>1, <4>4
        <5>2. CASE i = Len(event_log) + 1
          BY <4>1, <4>3, <4>6, <5>1, <5>2
        <5>3. CASE i # Len(event_log) + 1
          BY <4>1, <4>3, <4>6, <5>1, <5>3
        <5> QED BY <5>2, <5>3
      <4>8. RequestsOf(event_log') = Append(glog, e.req)
        BY <4>1, <4>3, <4>4, <4>6, <4>7, SeqEqual
      <4> QED
        BY <4>2, <4>5, <4>8
    <3>3. event_log' = event_log \/ \E e \in Event : event_log' = Append(event_log, e)
      BY DEF Next, vars, hub, nodes, locals, Begin, Step, Refused, Accepted, Sequence, LoadId,
             StoreId, LogEvent, Receive, Buffer, Test, Pop, Apply, LogLocally, LoadNext,
             StoreNext, Answer, Inv, TypeOK
    <3> QED
      BY <3>1, <3>2, <3>3
  <2>3. ASSUME NEW n \in Nodes
        PROVE  Sequenced!Copies(n)
    <3> DEFINE old == RequestsOf(local_log[n])
               new == RequestsOf(local_log'[n])
               now == RequestsOf(event_log')
    <3>1. PICK k \in 0 .. Len(event_log') :
            /\ Len(local_log'[n]) = k
            /\ \A i \in 1 .. k : local_log'[n][i] = event_log'[i]
      BY DEF Logged, Last
    <3>2. /\ Len(local_log[n]) <= k
          /\ \A i \in 1 .. Len(local_log[n]) : local_log'[n][i] = local_log[n][i]
      BY <3>1, LogsGrow DEF Inv
    <3>3. /\ local_log[n] \in Seq(Event) /\ local_log'[n] \in Seq(Event)
          /\ Len(local_log[n]) \in Nat /\ Len(event_log') \in Nat
      <4>1. local_log \in [Nodes -> Seq(Event)] /\ local_log' \in [Nodes -> Seq(Event)]
        BY DEF Inv, TypeOK
      <4>2. event_log' \in Seq(Event)
        BY DEF Inv, TypeOK
      <4> QED
        BY <4>1, <4>2
    <3>4. \A i \in 1 .. k : local_log'[n][i].req \in Requests
      <4> SUFFICES ASSUME NEW i \in 1 .. k PROVE local_log'[n][i].req \in Requests
        OBVIOUS
      <4>1. local_log'[n][i] = event_log'[i] /\ i \in 1 .. Len(event_log')
        BY <3>1, <3>3
      <4> QED
        BY <2>1, <4>1
    <3>5. \A i \in 1 .. Len(local_log[n]) : local_log[n][i].req \in Requests
      <4> SUFFICES ASSUME NEW i \in 1 .. Len(local_log[n])
                   PROVE  local_log[n][i].req \in Requests
        OBVIOUS
      <4>1. i \in 1 .. k /\ local_log'[n][i] = local_log[n][i]
        BY <3>2, <3>3
      <4> QED BY <3>4, <4>1
    <3>6. /\ new \in Seq(Requests) /\ Len(new) = k
          /\ \A i \in 1 .. k : new[i] = local_log'[n][i].req
      BY <3>1, <3>3, <3>4, RequestsOfSequence
    <3>7. /\ Len(old) = Len(local_log[n])
          /\ \A i \in 1 .. Len(old) : old[i] = local_log[n][i].req
      BY <3>3, <3>5, RequestsOfSequence
    <3>8. /\ Len(now) = Len(event_log')
          /\ \A i \in 1 .. Len(now) : now[i] = event_log'[i].req
      BY <2>1, RequestsOfSequence
    <3>9. copy[n] = old /\ copy'[n] = new /\ glog' = now
      BY DEF RequestsOf
    <3> HIDE DEF old, new, now, copy, glog
    <3>10. Sequenced!IsPrefixOf(old, new)
      <4>1. ASSUME NEW i \in 1 .. Len(old) PROVE old[i] = new[i]
        <5>1. i \in 1 .. k /\ local_log'[n][i] = local_log[n][i]
          BY <3>2, <3>3, <3>7
        <5> QED BY <3>6, <3>7, <5>1
      <4> QED BY <3>2, <3>6, <3>7, <4>1 DEF Sequenced!IsPrefixOf
    <3>11. Sequenced!IsPrefixOf(new, now)
      <4>1. ASSUME NEW i \in 1 .. Len(new) PROVE new[i] = now[i]
        <5>1. i \in 1 .. k /\ i \in 1 .. Len(now)
          BY <3>3, <3>6, <3>8
        <5> QED BY <3>1, <3>6, <3>8, <5>1
      <4> QED BY <3>3, <3>6, <3>8, <4>1 DEF Sequenced!IsPrefixOf
    <3> QED
      BY <3>6, <3>9, <3>10, <3>11 DEF Sequenced!Copies, copy, glog
  <2> QED
    BY <2>2, <2>3 DEF Sequenced!Next
<1>3. Spec => []Inv
  BY Invariance
<1>4. Inv => Prefixes
  BY LogsArePrefixes
<1> QED
  BY <1>1, <1>2, <1>3, <1>4, PTL DEF Spec, ImplementsSequencedLog, Sequenced!Spec
=============================================================================
