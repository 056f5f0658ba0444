---------------------------- MODULE BcmpTopology ----------------------------
(***************************************************************************)
(* The walk by which a node lists the nodes of its bus                     *)
(* (src/src/lib/bcmp/bcmp_topology.cpp), over the neighbor lists that      *)
(* heartbeats fill (bcmp_heartbeat.cpp, bcmp_neighbors.cpp).               *)
(*                                                                         *)
(* The bus is a line; each node knows those it has heard on its two ports, *)
(* in the order in which it heard them first, and forgets none.  The root  *)
(* keeps a list with a cursor.  It asks a neighbor of the node under the   *)
(* cursor for its table, puts the one that answers beside the cursor and   *)
(* goes on from there; when there is nothing more to ask, or no answer     *)
(* comes in time, the cursor moves one place back towards the root.        *)
(*                                                                         *)
(* One action is one event handled by the topology thread, one frame       *)
(* handled by a BCMP thread, one timer callback, or a change of the bus.   *)
(***************************************************************************)
EXTENDS Naturals, Sequences, FiniteSets

CONSTANTS
  Bus,     \* the nodes, from one end of the line to the other
  Root,    \* the node that walks
  Caller,  \* who may ask it to: the sampler, the serial link, the console
  Nobody,  \* the node id 0
  Faults   \* "loss": frames are lost; "late": they outlast the timer

Node == {Bus[i] : i \in DOMAIN Bus}

ASSUME BusAssumption ==
  /\ Bus \in Seq(Node)
  /\ \A i, j \in DOMAIN Bus : Bus[i] = Bus[j] => i = j
  /\ Root \in Node
  /\ Nobody \notin Node

VARIABLES
  up,           \* the links that are up
  heard,        \* _neighbors of each node
  queue,        \* _ctx.evt_queue
  topology,     \* _ctx.networkTopology, or Gone
  inProgress,   \* _ctx.in_progress
  client,       \* _ctx.callback, by the caller it belongs to
  target,       \* _target_node_id
  sentRequest,  \* _sent_request
  insertBefore, \* _insert_before
  timer,        \* topo_timer is running
  requests,     \* nodes with a request of the root on its way to them
  replies,      \* neighbor tables on their way to the root
  given,        \* history: what each caller's callback got since its call
  trouble       \* history: what has come between since the walk began

bus == <<up, heard>>
net == <<requests, replies>>
walk == <<topology, inProgress, client, target, sentRequest, insertBefore>>
vars == <<bus, queue, walk, timer, net, given, trouble>>

(***************************************************************************)
(* The bus                                                                 *)
(***************************************************************************)
Link == {{Bus[i], Bus[i + 1]} : i \in 1..(Len(Bus) - 1)}

Other(l, n) == CHOOSE m \in l : m # n

Position(n) == CHOOSE i \in DOMAIN Bus : Bus[i] = n

\* Every link between the root and n is up.
Reachable(n) ==
  \A i \in 1..(Len(Bus) - 1) :
    \/ (Position(Root) <= i) /\ (i < Position(n))
    \/ (Position(n) <= i) /\ (i < Position(Root))
    => {Bus[i], Bus[i + 1]} \in up

\* A neighbor table: the neighbors of n, and whether their ports are up.
TableOf(n) ==
  [i \in DOMAIN heard[n] |->
     [id |-> heard[n][i], up |-> {n, heard[n][i]} \in up]]

Row == [id : Node, up : BOOLEAN]
Table == {t \in Seq(Row) : Len(t) <= 2}
Entry == [node : Node, explored : Nat, table : Table]

(***************************************************************************)
(* The list and its cursor                                                 *)
(***************************************************************************)
Gone == [list |-> <<>>, at |-> 0]

Listed(t) == {t.list[i].node : i \in DOMAIN t.list}

\* What a callback gets: the nodes in order, or NULL.
Busy == <<>>
Nodes(t) == [i \in DOMAIN t.list |-> t.list[i].node]

UpCount(table) == Cardinality({i \in DOMAIN table : table[i].up})

\* Mutant: one port too early.
AllPortsButOne(t) ==
  t # Gone /\ UpCount(t.list[t.at].table) <= t.list[t.at].explored + 1

AllPortsExplored(t) ==
  t # Gone /\ UpCount(t.list[t.at].table) = t.list[t.at].explored

IsRoot(t) == t # Gone /\ t.list[t.at].node = Root

PortCountIs(t, k) == t # Gone /\ t.list[t.at].explored = k

\* The first neighbor of the node under the cursor that is not in the list,
\* whether its port is up or not.
NewNode(t) ==
  IF t = Gone THEN Nobody
  ELSE LET table == t.list[t.at].table
           New(i) == table[i].id \notin Listed(t)
       IN IF \E i \in DOMAIN table : New(i)
          THEN table[CHOOSE i \in DOMAIN table :
                       New(i) /\ \A j \in 1..(i - 1) : ~New(j)].id
          ELSE Nobody

CountPort(t) ==
  IF t = Gone THEN t ELSE [t EXCEPT !.list[t.at].explored = @ + 1]

MovePrev(t) == IF t.at > 1 THEN [t EXCEPT !.at = @ - 1] ELSE t

\* Mutant: the end of the list is not looked for.
MoveNextFurther(t) == [t EXCEPT !.at = @ + 1]

MoveNext(t) == IF t.at < Len(t.list) THEN [t EXCEPT !.at = @ + 1] ELSE t

\* One place back towards the root.
Back(t, before) == IF before THEN MoveNext(t) ELSE MovePrev(t)

InsertAfter(t, e) ==
  [t EXCEPT !.list = SubSeq(@, 1, t.at) \o <<e>>
                     \o SubSeq(@, t.at + 1, Len(@))]
InsertBefore(t, e) ==
  [t EXCEPT !.list = SubSeq(@, 1, t.at - 1) \o <<e>> \o SubSeq(@, t.at, Len(@)),
            !.at = @ + 1]

\* A new entry beside the cursor, which moves onto it.
Insert(t, e) ==
  IF insertBefore THEN MovePrev(InsertBefore(t, e))
  ELSE MoveNext(InsertAfter(t, e))

(***************************************************************************)
(* Events                                                                  *)
(***************************************************************************)
Start(c) == [type |-> "start", caller |-> c]
Add(n, table) == [type |-> "add", node |-> n, table |-> table]
Event(type) == [type |-> type]

Got(type) == queue # <<>> /\ Head(queue).type = type
Then(event) == queue' = Append(Tail(queue), event)

\* The caller waits for its callback.
Waiting(c) ==
  \/ \E i \in DOMAIN queue : queue[i] = Start(c)
  \/ inProgress /\ client = c

\* bcmp_topology_start, from any task.
StartWalk(c) ==
  /\ ~Waiting(c)
  /\ queue' = Append(queue, Start(c))
  /\ given' = [given EXCEPT ![c] = <<>>]
  /\ UNCHANGED <<bus, walk, timer, net, trouble>>

RootEntry == [node |-> Root, explored |-> 0, table |-> TableOf(Root)]

\* A walk begins with the root's own table, or is refused.
HandleStart ==
  /\ Got("start")
  /\ \/ /\ ~inProgress
        /\ inProgress' = TRUE
        /\ sentRequest' = TRUE
        /\ client' = Head(queue).caller
        /\ topology' = [list |-> <<RootEntry>>, at |-> 1]
        /\ trouble' = {}
        /\ Then(Event("check"))
        /\ UNCHANGED <<target, insertBefore, given>>
     \/ /\ inProgress
        /\ given' = [given EXCEPT ![Head(queue).caller] = Append(@, Busy)]
        /\ queue' = Tail(queue)
        /\ UNCHANGED <<walk, trouble>>
  /\ UNCHANGED <<bus, timer, net>>

\* The cursor moves on, and the node it comes to is checked.
MoveOn(t) == topology' = t /\ Then(Event("check"))

\* Mutant: the timer is not started.
AskWithoutTimer(n) ==
  /\ topology' = CountPort(topology)
  /\ target' = n
  /\ requests' = requests \cup {n}
  /\ queue' = Tail(queue)
  /\ UNCHANGED <<timer, replies, trouble>>

\* bcmp_request_neighbor_table(n): a frame to all, and the timer.
Ask(n) ==
  /\ topology' = CountPort(topology)
  /\ target' = n
  /\ timer' = TRUE
  /\ requests' = requests \cup {n}
  /\ queue' = Tail(queue)
  /\ UNCHANGED <<replies, trouble>>

AskNothing == UNCHANGED <<target, timer, net, trouble>>

HandleCheck ==
  /\ Got("check")
  /\ \/ /\ AllPortsExplored(topology)
        /\ \/ IsRoot(topology) /\ Then(Event("end")) /\ UNCHANGED topology
           \/ ~IsRoot(topology) /\ MoveOn(Back(topology, insertBefore))
        /\ UNCHANGED insertBefore
        /\ AskNothing
     \/ /\ ~AllPortsExplored(topology)
        /\ insertBefore' =
             (insertBefore \/ (IsRoot(topology) /\ PortCountIs(topology, 1)))
        /\ \/ NewNode(topology) # Nobody /\ Ask(NewNode(topology))
           \/ /\ NewNode(topology) = Nobody
              /\ MoveOn(Back(CountPort(topology), insertBefore'))
              /\ AskNothing
  /\ UNCHANGED <<bus, inProgress, client, sentRequest, given>>

\* A node that answered goes beside the one that was asked about it.
HandleAdd ==
  /\ Got("add")
  /\ LET event == Head(queue)
         entry == [node |-> event.node, explored |-> 0, table |-> event.table]
     IN IF topology = Gone \/ event.node \in Listed(topology)
        THEN MoveOn(topology)
        ELSE MoveOn(CountPort(Insert(topology, entry)))
  /\ UNCHANGED <<bus, inProgress, client, target, sentRequest, insertBefore,
                 timer, net, given, trouble>>

HandleTimeout ==
  /\ Got("timeout")
  /\ MoveOn(Back(topology, insertBefore))
  /\ UNCHANGED <<bus, inProgress, client, target, sentRequest, insertBefore,
                 timer, net, given, trouble>>

\* Mutant: the side at which nodes are inserted is not reset.
HandleEndSameSide ==
  /\ Got("end")
  /\ given' = [given EXCEPT ![client] = Append(@, Nodes(topology))]
  /\ topology' = Gone
  /\ sentRequest' = FALSE
  /\ inProgress' = FALSE
  /\ queue' = Tail(queue)
  /\ UNCHANGED <<bus, client, target, insertBefore, timer, net, trouble>>

\* Mutant: the walk goes on counting as under way.
HandleEndInProgress ==
  /\ Got("end")
  /\ given' = [given EXCEPT ![client] = Append(@, Nodes(topology))]
  /\ topology' = Gone
  /\ insertBefore' = FALSE
  /\ sentRequest' = FALSE
  /\ queue' = Tail(queue)
  /\ UNCHANGED <<bus, client, target, inProgress, timer, net, trouble>>

\* The callback gets the list, which is then freed.
HandleEnd ==
  /\ Got("end")
  /\ given' = [given EXCEPT ![client] = Append(@, Nodes(topology))]
  /\ topology' = Gone
  /\ insertBefore' = FALSE
  /\ sentRequest' = FALSE
  /\ inProgress' = FALSE
  /\ queue' = Tail(queue)
  /\ UNCHANGED <<bus, client, target, timer, net, trouble>>

Thread ==
  HandleStart \/ HandleCheck \/ HandleAdd \/ HandleTimeout \/ HandleEnd

(***************************************************************************)
(* Frames and the timer                                                    *)
(***************************************************************************)
\* The node that was asked answers all.
Answer(n) ==
  /\ n \in requests
  /\ Reachable(n)
  /\ requests' = requests \ {n}
  /\ replies' = replies \cup {[node |-> n, table |-> TableOf(n)]}
  /\ UNCHANGED <<bus, queue, walk, timer, given, trouble>>

\* Mutant: the timer is not stopped.
ReplyKeepsTimer(r) ==
  /\ r \in replies
  /\ replies' = replies \ {r}
  /\ target = r.node /\ sentRequest
  /\ queue' = Append(queue, Add(r.node, r.table))
  /\ UNCHANGED <<bus, walk, timer, requests, given, trouble>>

\* bcmp_process_neighbor_table_reply.
Reply(r) ==
  /\ r \in replies
  /\ replies' = replies \ {r}
  /\ \/ /\ target = r.node
        /\ sentRequest
        /\ timer' = FALSE
        /\ queue' = Append(queue, Add(r.node, r.table))
     \/ /\ target # r.node \/ ~sentRequest
        /\ UNCHANGED <<timer, queue>>
  /\ UNCHANGED <<bus, walk, requests, given, trouble>>

LoseRequest(n) ==
  /\ n \in requests
  /\ "loss" \in Faults \/ ~Reachable(n)
  /\ requests' = requests \ {n}
  /\ UNCHANGED <<bus, queue, walk, timer, replies, given, trouble>>

LoseReply(r) ==
  /\ r \in replies
  /\ "loss" \in Faults \/ ~Reachable(r.node)
  /\ replies' = replies \ {r}
  /\ UNCHANGED <<bus, queue, walk, timer, requests, given, trouble>>

\* topology_timer_handler, a second after the request.
TopologyTimer ==
  /\ timer
  /\ "late" \in Faults \/ (requests = {} /\ replies = {})
  /\ timer' = FALSE
  /\ queue' = Append(queue, Event("timeout"))
  /\ trouble' = trouble \cup {"silence"}
  /\ UNCHANGED <<bus, walk, net, given>>

(***************************************************************************)
(* Links and heartbeats                                                    *)
(***************************************************************************)
\* The ends of a link that came up hear each other's heartbeat
\* (bcmp_process_heartbeat): a neighbor not known goes to the end of the list.
Knows(n, m) == \E i \in DOMAIN heard[n] : heard[n][i] = m

Heartbeats(l) ==
  /\ l \in up
  /\ \E n, m \in l : n # m /\ ~Knows(n, m)
  /\ heard' = [n \in Node |->
                 IF n \in l /\ ~Knows(n, Other(l, n))
                 THEN Append(heard[n], Other(l, n)) ELSE heard[n]]
  /\ trouble' = trouble \cup {"change"}
  /\ UNCHANGED <<up, queue, walk, timer, net, given>>

LinkUp(l) ==
  /\ l \in Link \ up
  /\ up' = up \cup {l}
  /\ trouble' = trouble \cup {"change"}
  /\ UNCHANGED <<heard, queue, walk, timer, net, given>>

LinkDown(l) ==
  /\ l \in up
  /\ up' = up \ {l}
  /\ trouble' = trouble \cup {"change"}
  /\ UNCHANGED <<heard, queue, walk, timer, net, given>>

Init ==
  /\ up = {}
  /\ heard = [n \in Node |-> <<>>]
  /\ queue = <<>>
  /\ topology = Gone
  /\ inProgress = FALSE
  /\ client \in Caller
  /\ target = Nobody
  /\ sentRequest = FALSE
  /\ insertBefore = FALSE
  /\ timer = FALSE
  /\ requests = {}
  /\ replies = {}
  /\ given = [c \in Caller |-> <<>>]
  /\ trouble = {}

Network ==
  \/ \E n \in requests : Answer(n) \/ LoseRequest(n)
  \/ \E r \in replies : Reply(r) \/ LoseReply(r)

Next ==
  \/ \E c \in Caller : StartWalk(c)
  \/ Thread
  \/ TopologyTimer
  \/ Network
  \/ \E l \in Link : Heartbeats(l) \/ LinkUp(l) \/ LinkDown(l)

Spec == Init /\ [][Next]_vars

\* The topology thread runs, the timer ends, and no frame travels for ever.
FairSpec ==
  /\ Spec
  /\ WF_vars(Thread)
  /\ WF_vars(TopologyTimer)
  /\ WF_vars(Network)

(***************************************************************************)
(* Properties                                                              *)
(***************************************************************************)
TypeOK ==
  /\ up \subseteq Link
  /\ heard \in [Node -> Seq(Node)]
  /\ queue \in Seq([type : {"start"}, caller : Caller]
                   \cup [type : {"add"}, node : Node, table : Table]
                   \cup [type : {"check", "timeout", "end"}])
  /\ topology \in [list : Seq(Entry), at : Nat]
  /\ topology = Gone \/ topology.at \in DOMAIN topology.list
  /\ inProgress \in BOOLEAN
  /\ client \in Caller
  /\ target \in Node \cup {Nobody}
  /\ sentRequest \in BOOLEAN
  /\ insertBefore \in BOOLEAN
  /\ timer \in BOOLEAN
  /\ requests \subseteq Node
  /\ replies \subseteq [node : Node, table : Table]
  /\ given \in [Caller -> Seq(Seq(Node))]
  /\ trouble \subseteq {"silence", "change"}

Pending(i) == queue[i].type # "start"

\* A walk in progress has one thing to wait for, an event in the queue or the
\* timer, and no walk has none: a reply never adds a second chain of events
\* beside the one of the timer that it stopped.
OneStep ==
  /\ \A i, j \in DOMAIN queue : Pending(i) /\ Pending(j) => i = j
  /\ timer => \A i \in DOMAIN queue : ~Pending(i)
  /\ inProgress <=> timer \/ \E i \in DOMAIN queue : Pending(i)

\* The list is a piece of the bus in the order of the bus, whatever was lost
\* and whichever links changed while it was made: its readers take the order
\* for the order of the nodes on the cable.
InBusOrder ==
  LET place(i) == Position(topology.list[i].node)
      ascending(i, j) == place(j) = place(i) + 1
      pairs == 1..(Len(topology.list) - 1)
  IN \/ \A i \in pairs : ascending(i, i + 1)
     \/ \A i \in pairs : ascending(i + 1, i)

\* A call of bcmp_topology_start is answered at most once, by its walk or by
\* a refusal because another walk is under way.
ToldOnce ==
  \A c \in Caller : Len(given[c]) + (IF Waiting(c) THEN 1 ELSE 0) <= 1

\* A walk that met no silence and no change of the bus ends with every node
\* that can be reached, if nodes joined by a link know each other.
Complete ==
  /\ Got("end")
  /\ trouble = {}
  /\ \A l \in up : \A n, m \in l : n = m \/ Knows(n, m)
  => Listed(topology) = {n \in Node : Reachable(n)}

\* A call is answered, unless a node that was asked kept silent.
AnsweredUnlessSilence ==
  \A c \in Caller : Waiting(c) ~> ~Waiting(c) \/ "silence" \in trouble

\* The timer is there "to stop waiting for a nodes neighbor table": silence or
\* not, the walk comes back to the root and the call is answered.
EachCallAnswered == \A c \in Caller : Waiting(c) ~> ~Waiting(c)
=============================================================================
