-------------------------- MODULE UnrealBroadcast --------------------------
(***************************************************************************)
(* The websocket server that broadcasts karmic events to game clients      *)
(* (UnrealBroadcastManager).  Its coroutines share one event loop, so that *)
(* an action runs from one await to the next: handlers of connections that *)
(* come and go, the server's loop over the event queue, a driver that      *)
(* calls process_queue as well (scripts/unreal_simulation.py), and a       *)
(* send_to_client.                                                         *)
(*                                                                         *)
(* self.clients is the table of a Python dict: entries in the order of     *)
(* insertion, an entry that is deleted is left empty, one whose key is     *)
(* assigned again stays in its place.  An iteration over it walks up the   *)
(* table and raises RuntimeError when it finds that the number of entries  *)
(* is not what it was at its start.  MaxConnections is at most 5: with no  *)
(* more insertions than that, CPython never rebuilds the table.  The       *)
(* handler subscribes every client to all the types of events, so that     *)
(* the test of the subscription always passes.                             *)
(***************************************************************************)
EXTENDS Naturals, Sequences, FiniteSets, SequencesExt

CONSTANTS
  ClientIds,       \* the ids that clients connect with, their paths
  MaxConnections,  \* bound on the connections made
  MaxEvents        \* bound on the events queued

Tasks == {"server", "driver"}

ASSUME BroadcastAssumption ==
  /\ MaxConnections \in 0 .. 5
  /\ MaxEvents \in Nat

VARIABLES
  running,  \* self.running
  serving,  \* whether the listening socket of websockets.serve is open
  clients,  \* self.clients: Seq([id, conn]), where conn = 0 is an empty entry
  conns,    \* the connections made: id, state of the handler, whether the
            \* socket is up, and the events sent on it, in order
  queued,   \* how many events were queued; events are numbered from 1
  queue,    \* self.event_queue
  task,     \* for each task: broadcast_event in progress, or idle, or dead
  direct    \* the send_to_client in progress, as a set of at most one

broadcastVars == <<running, serving, clients, conns, queued, queue, task, direct>>

Live == {i \in DOMAIN clients : clients[i].conn # 0}
Registered == {clients[i].conn : i \in Live}

(* Whether event e was sent on connection c. *)
Has(c, e) == \E i \in DOMAIN conns[c].got : conns[c].got[i].event = e

(* del self.clients[id], where there is such an id *)
Without(ids) ==
  [i \in DOMAIN clients |->
     IF clients[i].id \in ids THEN [clients[i] EXCEPT !.conn = 0] ELSE clients[i]]

(* self.clients[id] = connection *)
With(id, c) ==
  IF \E i \in Live : clients[i].id = id
    THEN [i \in DOMAIN clients |->
            IF i \in Live /\ clients[i].id = id
              THEN [clients[i] EXCEPT !.conn = c] ELSE clients[i]]
    ELSE Append(clients, [id |-> id, conn |-> c])

Idle == [pc |-> "idle", event |-> 0, index |-> 0, size |-> 0, conn |-> 0,
         gone |-> {}, present |-> {}]

BroadcastInit ==
  /\ running = TRUE
  /\ serving = TRUE
  /\ clients = <<>>
  /\ conns = <<>>
  /\ queued = 0
  /\ queue = <<>>
  /\ task = [t \in Tasks |-> Idle]
  /\ direct = {}
-----------------------------------------------------------------------------
(* A client connects: handler, and register_client up to the await of the   *)
(* welcome message.                                                         *)
Connect(id) ==
  /\ serving
  /\ Len(conns) < MaxConnections
  /\ conns' = Append(conns, [id |-> id, handler |-> "welcoming", up |-> TRUE,
                             got |-> <<>>])
  /\ clients' = With(id, Len(conns) + 1)
  /\ UNCHANGED <<running, serving, queued, queue, task, direct>>

(* The welcome message is sent, and the handler listens. *)
Welcomed(c) ==
  /\ conns[c].handler = "welcoming"
  /\ conns' = [conns EXCEPT ![c].handler = "listening"]
  /\ UNCHANGED <<running, serving, clients, queued, queue, task, direct>>

(* The welcome message cannot be sent.  register_client is called outside   *)
(* the try block of the handler: nothing unregisters the client.            *)
WelcomeFails(c) ==
  /\ conns[c].handler = "welcoming"
  /\ ~conns[c].up
  /\ conns' = [conns EXCEPT ![c].handler = "over"]
  /\ UNCHANGED <<running, serving, clients, queued, queue, task, direct>>

(* The peer, or the network, closes the connection. *)
Drop(c) ==
  /\ conns[c].up
  /\ conns' = [conns EXCEPT ![c].up = FALSE]
  /\ UNCHANGED <<running, serving, clients, queued, queue, task, direct>>

(* The handler notices, and unregisters whoever has the client's id now. *)
Leave(c) ==
  /\ conns[c].handler = "listening"
  /\ ~conns[c].up
  /\ conns' = [conns EXCEPT ![c].handler = "over"]
  /\ clients' = Without({conns[c].id})
  /\ UNCHANGED <<running, serving, queued, queue, task, direct>>

(* queue_event *)
QueueEvent ==
  /\ queued < MaxEvents
  /\ queued' = queued + 1
  /\ queue' = Append(queue, queued')
  /\ UNCHANGED <<running, serving, clients, conns, task, direct>>
-----------------------------------------------------------------------------
(* the first lost connection ends the loop *)
AdvanceFault(t, tk) ==
  LET ahead == IF tk.gone # {} THEN {} ELSE {i \in Live : i > tk.index}
      i == CHOOSE j \in ahead : \A k \in ahead : j <= k
      c == clients[i].conn
  IN  \/ /\ Cardinality(Live) # tk.size
         /\ task' = [task EXCEPT ![t] = [Idle EXCEPT !.pc = "dead"]]
         /\ UNCHANGED <<clients, conns>>
      \/ /\ Cardinality(Live) = tk.size
         /\ ahead = {}
         /\ clients' = Without(tk.gone)
         /\ task' = [task EXCEPT ![t] = Idle]
         /\ UNCHANGED conns
      \/ /\ Cardinality(Live) = tk.size
         /\ ahead # {}
         /\ task' = [task EXCEPT ![t] =
                       [tk EXCEPT !.pc = "sending", !.index = i, !.conn = c]]
         /\ conns' = IF conns[c].up
                       THEN [conns EXCEPT ![c].got =
                                    Append(@, [event |-> tk.event, task |-> t])]
                       ELSE conns
         /\ UNCHANGED clients

(* The loop of broadcast_event in task t, whose record is tk, up to its     *)
(* next await.  A table of another size raises, and nothing catches it; at  *)
(* the end of the table those whose connection was closed are unregistered, *)
(* by their ids; else the event is sent to the next client.  A message is   *)
(* written at once if the socket is up, and the rest is waiting.            *)
Advance(t, tk) ==
  LET ahead == {i \in Live : i > tk.index}
      i == CHOOSE j \in ahead : \A k \in ahead : j <= k
      c == clients[i].conn
  IN  \/ /\ Cardinality(Live) # tk.size
         /\ task' = [task EXCEPT ![t] = [Idle EXCEPT !.pc = "dead"]]
         /\ UNCHANGED <<clients, conns>>
      \/ /\ Cardinality(Live) = tk.size
         /\ ahead = {}
         /\ clients' = Without(tk.gone)
         /\ task' = [task EXCEPT ![t] = Idle]
         /\ UNCHANGED conns
      \/ /\ Cardinality(Live) = tk.size
         /\ ahead # {}
         /\ task' = [task EXCEPT ![t] =
                       [tk EXCEPT !.pc = "sending", !.index = i, !.conn = c]]
         /\ conns' = IF conns[c].up
                       THEN [conns EXCEPT ![c].got =
                                    Append(@, [event |-> tk.event, task |-> t])]
                       ELSE conns
         /\ UNCHANGED clients

(* there is nothing to do without clients *)
ProcessWaitingFault(t) ==
  /\ task[t].pc = "idle"
  /\ running
  /\ queue # <<>>
  /\ Live # {}
  /\ queue' = Tail(queue)
  /\ Advance(t, [Idle EXCEPT !.event = Head(queue),
                             !.size = Cardinality(Live),
                             !.present = Registered])
  /\ UNCHANGED <<running, serving, queued, direct>>

(* pop() in place of pop(0) *)
ProcessFault(t) ==
  /\ task[t].pc = "idle"
  /\ running
  /\ queue # <<>>
  /\ queue' = Front(queue)
  /\ Advance(t, [Idle EXCEPT !.event = Last(queue),
                             !.size = Cardinality(Live),
                             !.present = Registered])
  /\ UNCHANGED <<running, serving, queued, direct>>

(* One turn of process_queue: the first event is taken from the queue and   *)
(* broadcast.                                                               *)
Process(t) ==
  /\ task[t].pc = "idle"
  /\ running
  /\ queue # <<>>
  /\ queue' = Tail(queue)
  /\ Advance(t, [Idle EXCEPT !.event = Head(queue),
                             !.size = Cardinality(Live),
                             !.present = Registered])
  /\ UNCHANGED <<running, serving, queued, direct>>

(* any exception counts as a lost connection *)
SentFault(t) ==
  /\ task[t].pc = "sending"
  /\ LET tk == task[t]
     IN  \/ Advance(t, tk)
         \/ Advance(t, [tk EXCEPT !.gone = @ \cup {clients[tk.index].id}])
  /\ UNCHANGED <<running, serving, queued, queue, direct>>

(* websocket.send returns, or raises ConnectionClosed, which it may do      *)
(* whenever the socket is not up any more.                                  *)
Sent(t) ==
  /\ task[t].pc = "sending"
  /\ LET tk == task[t]
         failed == [tk EXCEPT !.gone = @ \cup {clients[tk.index].id}]
     IN  \/ Has(tk.conn, tk.event) /\ Advance(t, tk)
         \/ ~conns[tk.conn].up /\ Advance(t, failed)
  /\ UNCHANGED <<running, serving, queued, queue, direct>>

(* send_to_client, up to its await. *)
SendToClient(i) ==
  /\ direct = {}
  /\ i \in Live
  /\ direct' = {clients[i]}
  /\ UNCHANGED <<running, serving, clients, conns, queued, queue, task>>

(* It returns; if the connection was closed, it unregisters the id. *)
SentToClient(d) ==
  /\ direct' = {}
  /\ \/ UNCHANGED clients
     \/ ~conns[d.conn].up /\ clients' = Without({d.id})
  /\ UNCHANGED <<running, serving, conns, queued, queue, task>>
-----------------------------------------------------------------------------
(* stop_server *)
StopServer ==
  /\ running
  /\ running' = FALSE
  /\ UNCHANGED <<serving, clients, conns, queued, queue, task, direct>>

(* The loop of start_server ends: server.close closes the connections. *)
CloseServer ==
  /\ serving
  /\ ~running
  /\ task["server"].pc = "idle"
  /\ serving' = FALSE
  /\ conns' = [c \in DOMAIN conns |-> [conns[c] EXCEPT !.up = FALSE]]
  /\ UNCHANGED <<running, clients, queued, queue, task, direct>>

BroadcastNext ==
  \/ \E id \in ClientIds : Connect(id)
  \/ \E c \in DOMAIN conns : Welcomed(c) \/ WelcomeFails(c) \/ Drop(c) \/ Leave(c)
  \/ QueueEvent
  \/ \E t \in Tasks : Process(t) \/ Sent(t)
  \/ \E i \in DOMAIN clients : SendToClient(i)
  \/ \E d \in direct : SentToClient(d)
  \/ StopServer
  \/ CloseServer

BroadcastSpec == BroadcastInit /\ [][BroadcastNext]_broadcastVars

(* The server's loop goes on, and every send returns: one that waits for a  *)
(* client that does not read is ended by the keepalive of the websocket.    *)
FairBroadcastSpec ==
  /\ BroadcastSpec
  /\ WF_broadcastVars(Process("server"))
  /\ \A t \in Tasks : WF_broadcastVars(Sent(t))
-----------------------------------------------------------------------------
ClientType == [id : ClientIds, conn : 0 .. Len(conns)]
ConnType ==
  [id : ClientIds, handler : {"welcoming", "listening", "over"}, up : BOOLEAN,
   got : Seq([event : 1 .. queued, task : Tasks])]
TaskType ==
  [pc : {"idle", "sending", "dead"}, event : 0 .. queued, index : 0 .. Len(clients),
   size : Nat, conn : 0 .. Len(conns), gone : SUBSET ClientIds,
   present : SUBSET DOMAIN conns]

(* The types of the variables. *)
BroadcastTypeOK ==
  /\ running \in BOOLEAN
  /\ serving \in BOOLEAN
  /\ clients \in Seq(ClientType)
  /\ conns \in Seq(ConnType)
  /\ queued \in 0 .. MaxEvents
  /\ queue \in Seq(1 .. queued)
  /\ task \in [Tasks -> TaskType]
  /\ direct \subseteq [id : ClientIds, conn : DOMAIN conns]

(* Each connection is sent the events of one task in the order in which     *)
(* they were queued, and none of them twice, whatever happens to the table  *)
(* that the loops walk over.                                                *)
DeliveredInOrder ==
  \A c \in DOMAIN conns : \A i, j \in DOMAIN conns[c].got :
    LET first == conns[c].got[i]
        later == conns[c].got[j]
    IN  i < j => /\ first.event # later.event
                 /\ first.task = later.task => first.event < later.event

(* A broadcast that gets to its end has sent the event to every open        *)
(* connection that was registered when it began and still is, although      *)
(* others joined, left or took over an id while it waited.                  *)
NobodyIsSkipped ==
  [][\A t \in Tasks :
       task[t].pc = "sending" /\ task'[t].pc = "idle" =>
         \A c \in task[t].present \cap Registered :
           conns[c].up => Has(c, task[t].event)]_broadcastVars

(* A client that is connected is registered, so that broadcasts reach it,   *)
(* unless another connection was made with the same id: neither a late      *)
(* handler, nor the clean-up after a broadcast, nor send_to_client          *)
(* unregisters the wrong one.                                               *)
ReachableUnlessReconnected ==
  \A c \in DOMAIN conns :
    /\ conns[c].handler = "listening"
    /\ conns[c].up
    /\ \A d \in DOMAIN conns \ {c} : conns[d].id # conns[c].id
    => c \in Registered

(* An event that is queued is eventually taken from the queue and its       *)
(* broadcast ended, unless the server is stopped or its loop has died.      *)
BroadcastEnds ==
  \A e \in 1 .. MaxEvents :
    e \in ToSet(queue) ~>
      \/ e \notin ToSet(queue) /\ \A t \in Tasks : task[t].event # e
      \/ ~running
      \/ task["server"].pc = "dead"
=============================================================================
