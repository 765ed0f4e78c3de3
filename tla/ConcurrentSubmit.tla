-------------------------- MODULE ConcurrentSubmit --------------------------
(***************************************************************************)
(* Requests that reach the hub from several threads: the handlers of       *)
(* /execute, which call hub.submit as it is, and the clients of the stress *)
(* simulation, which call it under sequencer_lock.                         *)
(*                                                                         *)
(* Each step is one access to an object that threads share: the hub's      *)
(* counter, its log and halted flag, and the nodes' positions, buffers,    *)
(* logs and adapters.  The interpreter may switch threads between any two, *)
(* so that += is a load and a store; only the loop's test and its pop read *)
(* the position together with the buffer.  pc names a thread's next step.  *)
(***************************************************************************)
EXTENDS Naturals, Sequences, FiniteSets

CONSTANTS
  Threads,
  NoThread,
  MaxRequests,  \* requests of a thread
  MaxNodes,     \* the nodes registered with the hub
  Outcomes,     \* whether the payload of a request raises in the adapter
  Locking       \* whether the hub is called under the lock

Nodes == 1 .. MaxNodes
Requests == Threads \X (1 .. MaxRequests)

ASSUME ConcurrencyAssumption ==
  /\ IsFiniteSet(Threads) /\ NoThread \notin Threads
  /\ MaxRequests \in Nat \ {0}
  /\ MaxNodes \in Nat \ {0}
  /\ Outcomes \subseteq BOOLEAN
  /\ Locking \in BOOLEAN

VARIABLES
  lock,       \* the thread that holds sequencer_lock
  causal_id,  \* _global_causal_id
  event_log,  \* _event_log
  halted,     \* _halted
  next,       \* next_expected_causal_id of each node
  buffer,     \* event_buffer of each node: its events, at most one for an id
  local_log,  \* local_log of each node
  calls,      \* the requests that each node's adapter was given
  pc,         \* the next access of each thread
  event,      \* the event that the thread is submitting
  loaded,     \* what the thread loaded and has not stored yet
  at,         \* the node to which the thread is delivering
  popped,     \* the event that the thread took out of the node's buffer
  rejected,   \* whether a node rejected the thread's event
  response    \* the response to each request

hub == <<causal_id, event_log, halted>>
nodes == <<next, buffer, local_log, calls>>
locals == <<event, loaded, at, popped, rejected>>
vars == <<lock, hub, nodes, pc, locals, response>>

NoEvent == [cid |-> 0, req |-> <<>>, raises |-> FALSE]
Answered(t) == Cardinality({r \in Requests : r[1] = t /\ response[r] # "none"})
Buffered(n, cid) == \E e \in buffer[n] : e.cid = cid
Goto(t, label) == pc' = [pc EXCEPT ![t] = label]

Init ==
  /\ lock = NoThread
  /\ causal_id = 1 /\ event_log = <<>> /\ halted = FALSE
  /\ next = [n \in Nodes |-> 1]
  /\ buffer = [n \in Nodes |-> {}]
  /\ local_log = [n \in Nodes |-> <<>>]
  /\ calls = [n \in Nodes |-> <<>>]
  /\ pc = [t \in Threads |-> "idle"]
  /\ event = [t \in Threads |-> NoEvent]
  /\ loaded = [t \in Threads |-> 0]
  /\ at = [t \in Threads |-> 1]
  /\ popped = [t \in Threads |-> NoEvent]
  /\ rejected = [t \in Threads |-> FALSE]
  /\ response = [r \in Requests |-> "none"]
-----------------------------------------------------------------------------
(* the lock is not taken *)
AcquireFault(t) == lock' = t

Acquire(t) ==
  IF Locking THEN lock = NoThread /\ lock' = t ELSE UNCHANGED lock

Release(t) == lock' = IF lock = t THEN NoThread ELSE lock

(* A client of the stress simulation does not catch the RuntimeError with   *)
(* which a halted hub refuses its request: it sends no other one.           *)
Stopped(t) == Locking /\ \E r \in Requests : r[1] = t /\ response[r] = "halted"

(* the requests are numbered from 0 *)
BeginFault(t, raises) ==
  /\ pc[t] = "idle"
  /\ Answered(t) < MaxRequests
  /\ ~Stopped(t)
  /\ Acquire(t)
  /\ event' = [event EXCEPT ![t] =
                 [cid |-> 0, req |-> <<t, Answered(t)>>, raises |-> raises]]
  /\ at' = [at EXCEPT ![t] = 1]
  /\ rejected' = [rejected EXCEPT ![t] = FALSE]
  /\ Goto(t, "enter")
  /\ UNCHANGED <<hub, nodes, loaded, popped, response>>

(* A request arrives with a payload. *)
Begin(t, raises) ==
  /\ pc[t] = "idle"
  /\ Answered(t) < MaxRequests
  /\ ~Stopped(t)
  /\ Acquire(t)
  /\ event' = [event EXCEPT ![t] =
                 [cid |-> 0, req |-> <<t, Answered(t) + 1>>, raises |-> raises]]
  /\ at' = [at EXCEPT ![t] = 1]
  /\ rejected' = [rejected EXCEPT ![t] = FALSE]
  /\ Goto(t, "enter")
  /\ UNCHANGED <<hub, nodes, loaded, popped, response>>

(* the lock is not given back *)
RefusedFault(t) ==
  /\ pc[t] = "enter" /\ halted
  /\ response' = [response EXCEPT ![event[t].req] = "halted"]
  /\ Goto(t, "idle")
  /\ UNCHANGED <<lock, hub, nodes, locals>>

(* A halted hub refuses the request: the handler tests is_halted before it  *)
(* calls submit, which tests it again.  As the hub stays halted, only the   *)
(* second test matters.                                                     *)
Refused(t) ==
  /\ pc[t] = "enter" /\ halted
  /\ response' = [response EXCEPT ![event[t].req] = "halted"]
  /\ Release(t)
  /\ Goto(t, "idle")
  /\ UNCHANGED <<hub, nodes, locals>>

Accepted(t) ==
  /\ pc[t] = "enter" /\ ~halted
  /\ Goto(t, "sequence")
  /\ UNCHANGED <<lock, hub, nodes, locals, response>>

(* The event is created with the value of _global_causal_id ... *)
Sequence(t) ==
  /\ pc[t] = "sequence"
  /\ event' = [event EXCEPT ![t].cid = causal_id]
  /\ Goto(t, "load_id")
  /\ UNCHANGED <<lock, hub, nodes, loaded, at, popped, rejected, response>>

(* ... which is incremented afterwards. *)
LoadId(t) ==
  /\ pc[t] = "load_id"
  /\ loaded' = [loaded EXCEPT ![t] = causal_id]
  /\ Goto(t, "store_id")
  /\ UNCHANGED <<lock, hub, nodes, event, at, popped, rejected, response>>

StoreId(t) ==
  /\ pc[t] = "store_id"
  /\ causal_id' = loaded[t] + 1
  /\ Goto(t, "log")
  /\ UNCHANGED <<lock, event_log, halted, nodes, locals, response>>

LogEvent(t) ==
  /\ pc[t] = "log"
  /\ event_log' = Append(event_log, event[t])
  /\ Goto(t, "receive")
  /\ UNCHANGED <<lock, causal_id, halted, nodes, locals, response>>
-----------------------------------------------------------------------------
(* the last node is left out *)
DeliveredFault(t) ==
  /\ at' = [at EXCEPT ![t] = @ + 1]
  /\ Goto(t, IF at[t] = MaxNodes - 1 THEN "answer" ELSE "receive")

(* The thread is done with its node, and the loop of submit goes on.  After *)
(* the last node the handler answers.                                       *)
Delivered(t) ==
  /\ at' = [at EXCEPT ![t] = @ + 1]
  /\ Goto(t, IF at[t] = MaxNodes THEN "answer" ELSE "receive")

(* receive_event: an old event is ignored. *)
Receive(t) ==
  /\ pc[t] = "receive"
  /\ IF event[t].cid < next[at[t]]
       THEN Delivered(t)
       ELSE Goto(t, "buffer") /\ UNCHANGED at
  /\ UNCHANGED <<lock, hub, nodes, event, loaded, popped, rejected, response>>

(* The buffer is a dictionary: an event with the same id is replaced. *)
Buffer(t) ==
  /\ pc[t] = "buffer"
  /\ buffer' = [buffer EXCEPT ![at[t]] =
                  {e \in @ : e.cid # event[t].cid} \cup {event[t]}]
  /\ Goto(t, "test")
  /\ UNCHANGED <<lock, hub, next, local_log, calls, locals, response>>

(* The condition of the loop of _process_buffer. *)
Test(t) ==
  /\ pc[t] = "test"
  /\ IF Buffered(at[t], next[at[t]])
       THEN Goto(t, "pop") /\ UNCHANGED at
       ELSE Delivered(t)
  /\ UNCHANGED <<lock, hub, nodes, event, loaded, popped, rejected, response>>

(* the loop over the nodes ends *)
RejectFault(t) ==
  /\ rejected' = [rejected EXCEPT ![t] = TRUE]
  /\ halted' = TRUE
  /\ Goto(t, "answer")
  /\ UNCHANGED at

(* An exception in the loop is caught by execute_sequenced_event, whose     *)
(* REJECTED acknowledgement halts the hub.                                  *)
Reject(t) ==
  /\ rejected' = [rejected EXCEPT ![t] = TRUE]
  /\ halted' = TRUE
  /\ Delivered(t)

(* pop raises a KeyError when the event that Test saw is no longer there. *)
Pop(t) ==
  /\ pc[t] = "pop"
  /\ LET n == at[t]
     IN  IF Buffered(n, next[n])
           THEN /\ \E e \in buffer[n] :
                     /\ e.cid = next[n]
                     /\ buffer' = [buffer EXCEPT ![n] = @ \ {e}]
                     /\ popped' = [popped EXCEPT ![t] = e]
                /\ Goto(t, "apply")
                /\ UNCHANGED <<at, rejected, halted>>
           ELSE /\ Reject(t)
                /\ UNCHANGED <<buffer, popped>>
  /\ UNCHANGED <<lock, causal_id, event_log, next, local_log, calls, event,
                 loaded, response>>

(* adapter.apply_event_payload *)
Apply(t) ==
  /\ pc[t] = "apply"
  /\ calls' = [calls EXCEPT ![at[t]] = Append(@, popped[t].req)]
  /\ IF popped[t].raises
       THEN Reject(t)
       ELSE Goto(t, "log_local") /\ UNCHANGED <<at, rejected, halted>>
  /\ UNCHANGED <<lock, causal_id, event_log, next, buffer, local_log, event,
                 loaded, popped, response>>

LogLocally(t) ==
  /\ pc[t] = "log_local"
  /\ local_log' = [local_log EXCEPT ![at[t]] = Append(@, popped[t])]
  /\ Goto(t, "load_next")
  /\ UNCHANGED <<lock, hub, next, buffer, calls, locals, response>>

LoadNext(t) ==
  /\ pc[t] = "load_next"
  /\ loaded' = [loaded EXCEPT ![t] = next[at[t]]]
  /\ Goto(t, "store_next")
  /\ UNCHANGED <<lock, hub, nodes, event, at, popped, rejected, response>>

StoreNext(t) ==
  /\ pc[t] = "store_next"
  /\ next' = [next EXCEPT ![at[t]] = loaded[t] + 1]
  /\ Goto(t, "test")
  /\ UNCHANGED <<lock, hub, buffer, local_log, calls, locals, response>>

(* The receipt is returned, and the request answered. *)
Answer(t) ==
  /\ pc[t] = "answer"
  /\ response' = [response EXCEPT ![event[t].req] =
                    IF rejected[t] THEN "rejected" ELSE "applied"]
  /\ Release(t)
  /\ Goto(t, "idle")
  /\ UNCHANGED <<hub, nodes, locals>>

(* One access of thread t, after its request has begun. *)
Step(t) ==
  \/ Refused(t) \/ Accepted(t) \/ Sequence(t) \/ LoadId(t) \/ StoreId(t)
  \/ LogEvent(t) \/ Receive(t) \/ Buffer(t) \/ Test(t) \/ Pop(t) \/ Apply(t)
  \/ LogLocally(t) \/ LoadNext(t) \/ StoreNext(t) \/ Answer(t)

Next ==
  \/ \E t \in Threads, raises \in Outcomes : Begin(t, raises)
  \/ \E t \in Threads : Step(t)

Spec == Init /\ [][Next]_vars
FairSpec ==
  /\ Spec
  /\ \A t \in Threads :
       WF_vars(Step(t)) /\ WF_vars(\E raises \in Outcomes : Begin(t, raises))
-----------------------------------------------------------------------------
Event == [cid : Nat, req : Requests \cup {<<>>},
          raises : BOOLEAN]

(* The types of the variables. *)
TypeOK ==
  /\ lock \in Threads \cup {NoThread}
  /\ causal_id \in Nat \ {0}
  /\ event_log \in Seq(Event)
  /\ halted \in BOOLEAN
  /\ next \in [Nodes -> Nat \ {0}]
  /\ buffer \in [Nodes -> SUBSET Event]
  /\ local_log \in [Nodes -> Seq(Event)]
  /\ calls \in [Nodes -> Seq(Requests)]
  /\ pc \in [Threads -> {"idle", "enter", "sequence", "load_id", "store_id",
                          "log", "receive", "buffer", "test", "pop", "apply",
                          "log_local", "load_next", "store_next", "answer"}]
  /\ event \in [Threads -> Event]
  /\ loaded \in [Threads -> Nat]
  /\ at \in [Threads -> 1 .. (MaxNodes + 1)]
  /\ popped \in [Threads -> Event]
  /\ rejected \in [Threads -> BOOLEAN]
  /\ response \in [Requests -> {"none", "applied", "rejected", "halted"}]

(* Events are applied strictly across the sequence (the docstring of        *)
(* /execute): the i-th event that a node applies is the one with id i.      *)
AppliedInSequence ==
  \A n \in Nodes : \A i \in DOMAIN local_log[n] : local_log[n][i].cid = i

(* A response tells what happened: a request answered "applied" is in the   *)
(* log of every node, and one answered "rejected" had a payload that raises.*)
ResponsesAreTruthful ==
  \A r \in Requests :
    /\ response[r] = "applied" =>
         \A n \in Nodes : \E i \in DOMAIN local_log[n] : local_log[n][i].req = r
    /\ response[r] = "rejected" =>
         \E i \in DOMAIN event_log : event_log[i].req = r /\ event_log[i].raises

(* Whenever no request is in progress check_full_consensus holds: no node   *)
(* buffers events, and the adapters were given the same payloads.  The      *)
(* stress simulation ends with this check.                                  *)
QuietConsensus ==
  (\A t \in Threads : pc[t] = "idle") =>
    \A m, n \in Nodes : buffer[n] = {} /\ calls[m] = calls[n]

(* Every request is answered, even when the hub halts before or while it is *)
(* served: no thread waits for the lock, or goes round a loop, for ever.    *)
(* Only a client that an error has stopped leaves requests unsent.          *)
EveryRequestIsAnswered ==
  \A r \in Requests : <>(response[r] # "none" \/ Stopped(r[1]))

(* Requests under the lock are as good as requests made one after another:  *)
(* there is one sequence of events, and every node holds a prefix of it.    *)
RequestsOf(s) == [i \in DOMAIN s |-> s[i].req]
Sequenced == INSTANCE SequencedLog WITH
               Events <- Requests,
               glog <- RequestsOf(event_log),
               copy <- [n \in Nodes |-> RequestsOf(local_log[n])]
ImplementsSequencedLog == Sequenced!Spec
=============================================================================
