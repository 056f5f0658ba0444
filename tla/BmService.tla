------------------------------ MODULE BmService ------------------------------
(***************************************************************************)
(* Services on one node (src/src/lib/middleware/bm_service.cpp,            *)
(* bm_service_request.cpp), over publish and subscribe: tasks request      *)
(* services, of this node and of others, by publishing to a request topic, *)
(* and the middleware thread gives requests to the services of this node   *)
(* and replies to those who wait for them, while a timer ends the requests *)
(* that took too long.                                                     *)
(*                                                                         *)
(* Each list has a lock, but the time to wait for it comes out as zero     *)
(* (the parenthesis of pdMS_TO_TICKS closes too late): who finds the lock  *)
(* taken gives up, whatever it had to do.                                  *)
(*                                                                         *)
(* A message goes to the callback of its topic, as BmPubSub has it.  No    *)
(* service's name begins with the name of another one.                     *)
(***************************************************************************)
EXTENDS Naturals, Sequences, RequestLists

CONSTANTS
  Service,
  Request,   \* calls of bm_service_request, each by a task of its own
  Other,     \* requests of other nodes
  ServiceOf, \* the service each request is for
  OtherId,   \* the ids that the other nodes gave to theirs
  Self, Else, \* this node, and the others
  Timeout,   \* a callback is told that its time is over
  Nil,       \* no message
  QueueLength \* NET_QUEUE_LEN

Req(s) == <<"req", s>>
Rep(s) == <<"rep", s>>
Topic == {Req(s) : s \in Service} \cup {Rep(s) : s \in Service}

\* A request and its sender, or a reply and its target.
Message ==
  [topic : Topic, node : {Self, Else}, id : Nat, of : Request \cup Other]
MessageTo(topic, node, id, r) ==
  [topic |-> topic, node |-> node, id |-> id, of |-> r]

ASSUME ServiceAssumption ==
  /\ ServiceOf \in [Request \cup Other -> Service]
  /\ OtherId \in [Other -> Nat]
  /\ QueueLength \in Nat \ {0}

ASSUME PartiesAssumption == Request \cap Other = {} /\ Self # Else

VARIABLES
  subscribed,    \* topics with a callback of this module
  netQueue,
  item,          \* the message in the hands of a callback that has the lock
  step,          \* how far each call of bm_service_request has got
  request_count,
  id,            \* of each request
  request_list,  \* requests that wait, in their order
  request_lock,  \* who holds it
  told,          \* history: what each callback was told
  service_list,
  service_lock,
  net,           \* messages on their way
  asked          \* requests of other nodes that were sent

middleware == <<netQueue, item>>
requests ==
  <<step, request_count, id, request_list, request_lock, told>>
services == <<service_list, service_lock>>
network == <<net, asked>>
vars == <<subscribed, middleware, requests, services, network>>

Listed == Elements(request_list)

(***************************************************************************)
(* The middleware queue: bm_pub_wl, middleware_net_rx_cb                   *)
(***************************************************************************)
\* Mutant: the queue takes any number of messages.
EnqueuedAnyway(m) == netQueue' = Append(netQueue, m)

\* A full queue drops the message.
Enqueued(m) ==
  netQueue' = IF Len(netQueue) < QueueLength THEN Append(netQueue, m)
              ELSE netQueue

\* What the node publishes comes back to it if it subscribes to the topic.
PublishedLocally(m) ==
  \/ m.topic \in subscribed /\ Enqueued(m)
  \/ m.topic \notin subscribed /\ UNCHANGED netQueue

(***************************************************************************)
(* The tasks: bm_service_request                                           *)
(***************************************************************************)
Goes(r, from, to) == step[r] = from /\ step' = [step EXCEPT ![r] = to]

\* _create_node reads the counter; it is written back only after other tasks
\* may have read it.
Number(r) ==
  /\ Goes(r, "idle", "numbered")
  /\ id' = [id EXCEPT ![r] = request_count]
  /\ UNCHANGED <<request_count, request_list, request_lock, told>>
  /\ UNCHANGED <<subscribed, middleware, services, network>>

Count(r) == request_count' = id[r] + 1

\* _request_list_add_request
Add(r) ==
  /\ request_lock = "free"
  /\ Goes(r, "numbered", "adding")
  /\ Count(r)
  /\ request_lock' = r
  /\ request_list' = Append(request_list, r)
  /\ UNCHANGED <<id, told, subscribed, middleware, services, network>>

AddFails(r) ==
  /\ request_lock # "free"
  /\ Goes(r, "numbered", "unlisted")
  /\ Count(r)
  /\ UNCHANGED <<id, request_list, request_lock, told>>
  /\ UNCHANGED <<subscribed, middleware, services, network>>

Added(r) ==
  /\ Goes(r, "adding", "listed")
  /\ request_lock' = "free"
  /\ UNCHANGED <<request_count, id, request_list, told>>
  /\ UNCHANGED <<subscribed, middleware, services, network>>

\* _service_request_sub_to_reply_topic
SubToReply(r) ==
  /\ Goes(r, "listed", "subscribed")
  /\ subscribed' = subscribed \cup {Rep(ServiceOf[r])}
  /\ UNCHANGED <<request_count, id, request_list, request_lock, told>>
  /\ UNCHANGED <<middleware, services, network>>

\* _service_request_send_request.  The call fails if the message can not be
\* sent, although this node may have its own copy already, and leaves the
\* request in the list.
Publish(r) ==
  LET m == MessageTo(Req(ServiceOf[r]), Self, id[r], r) IN
  /\ PublishedLocally(m)
  /\ \/ Goes(r, "subscribed", "sent") /\ net' = net \cup {m}
     \/ Goes(r, "subscribed", "failed") /\ UNCHANGED net
  /\ UNCHANGED <<request_count, id, request_list, request_lock, told>>
  /\ UNCHANGED <<subscribed, item, services, asked>>

Task(r) ==
  Number(r) \/ Add(r) \/ AddFails(r) \/ Added(r) \/ SubToReply(r) \/ Publish(r)

(***************************************************************************)
(* The timer callback thread: _service_request_timer_expiry_cb             *)
(***************************************************************************)
\* Every half second, unless the lock is taken.
ExpiryBegins ==
  /\ request_lock = "free"
  /\ request_list # <<>>
  /\ request_lock' = "timer"
  /\ UNCHANGED <<step, request_count, id, request_list, told>>
  /\ UNCHANGED <<subscribed, middleware, services, network>>

Remove(r) == request_list' = Without(request_list, r)
Tell(r, what) == told' = [told EXCEPT ![r] = Append(@, what)]

\* A request is over time.
TimesOut(r) ==
  /\ request_lock = "timer"
  /\ r \in Listed
  /\ Tell(r, Timeout)
  /\ Remove(r)
  /\ UNCHANGED <<step, request_count, id, request_lock>>
  /\ UNCHANGED <<subscribed, middleware, services, network>>

ExpiryEnds ==
  /\ request_lock = "timer"
  /\ request_lock' = "free"
  /\ UNCHANGED <<step, request_count, id, request_list, told>>
  /\ UNCHANGED <<subscribed, middleware, services, network>>

Expiry == ExpiryBegins \/ (\E r \in Request : TimesOut(r)) \/ ExpiryEnds

(***************************************************************************)
(* The middleware thread                                                   *)
(***************************************************************************)
\* Mutant: nobody looks whom a reply is for.
AcceptsAny(m) ==
  /\ m.topic \in subscribed
  /\ \/ /\ service_lock = "free"
        /\ \E s \in service_list : m.topic = Req(s)
        /\ service_lock' = "middleware"
        /\ UNCHANGED request_lock
     \/ /\ m.topic[1] = "rep"
        /\ request_lock = "free"
        /\ request_lock' = "middleware"
        /\ UNCHANGED service_lock

\* _service_request_received_cb takes the lock and finds the service, or
\* _service_request_cb takes the lock for a reply to this node.
Accepts(m) ==
  /\ m.topic \in subscribed
  /\ \/ /\ service_lock = "free"
        /\ \E s \in service_list : m.topic = Req(s)
        /\ service_lock' = "middleware"
        /\ UNCHANGED request_lock
     \/ /\ m.topic[1] = "rep" /\ m.node = Self
        /\ request_lock = "free"
        /\ request_lock' = "middleware"
        /\ UNCHANGED service_lock

\* There is no callback, no such service, or another target, or the lock is
\* taken.
Ignores(m) ==
  \/ m.topic \notin subscribed
  \/ /\ m.topic[1] = "req"
     /\ service_lock # "free" \/ \A s \in service_list : m.topic # Req(s)
  \/ m.topic[1] = "rep" /\ (m.node # Self \/ request_lock # "free")

Handle ==
  /\ item = Nil /\ netQueue # <<>>
  /\ \/ Accepts(Head(netQueue)) /\ item' = Head(netQueue)
     \/ /\ Ignores(Head(netQueue))
        /\ UNCHANGED <<item, request_lock, service_lock>>
  /\ netQueue' = Tail(netQueue)
  /\ UNCHANGED <<step, request_count, id, request_list, told>>
  /\ UNCHANGED <<subscribed, service_list, network>>

\* The handler has made a reply, which is published, or none.
Serve ==
  /\ item # Nil /\ item.topic[1] = "req"
  /\ item' = Nil
  /\ service_lock' = "free"
  /\ \/ UNCHANGED netQueue
     \/ PublishedLocally(MessageTo(Rep(item.topic[2]), item.node,
                                   item.id, item.of))
  /\ UNCHANGED <<subscribed, service_list, requests, network>>

\* The first request with the id of the reply.
WaitsFor(i) ==
  /\ i \in DOMAIN request_list
  /\ id[request_list[i]] = item.id
  /\ \A j \in 1..(i - 1) : id[request_list[j]] # item.id

\* Mutant: the request stays in the list.
ReplyKept ==
  /\ item # Nil /\ item.topic[1] = "rep"
  /\ item' = Nil
  /\ request_lock' = "free"
  /\ \/ \E i \in DOMAIN request_list :
          WaitsFor(i) /\ Tell(request_list[i], item.of)
     \/ (\A r \in Listed : id[r] # item.id) /\ UNCHANGED told
  /\ UNCHANGED <<subscribed, netQueue, step, request_count, id, request_list>>
  /\ UNCHANGED <<services, network>>

\* Mutant: the lock is given back only if there was a request.
ReplyKeepsLock ==
  /\ item # Nil /\ item.topic[1] = "rep"
  /\ item' = Nil
  /\ \/ \E i \in DOMAIN request_list :
          /\ WaitsFor(i)
          /\ Tell(request_list[i], item.of)
          /\ Remove(request_list[i])
          /\ request_lock' = "free"
     \/ /\ \A r \in Listed : id[r] # item.id
        /\ UNCHANGED <<told, request_list, request_lock>>
  /\ UNCHANGED <<subscribed, netQueue, step, request_count, id>>
  /\ UNCHANGED <<services, network>>

\* Its callback gets the reply, and it is removed; or there is none.
Reply ==
  /\ item # Nil /\ item.topic[1] = "rep"
  /\ item' = Nil
  /\ request_lock' = "free"
  /\ \/ \E i \in DOMAIN request_list :
          /\ WaitsFor(i)
          /\ Tell(request_list[i], item.of)
          /\ Remove(request_list[i])
     \/ /\ \A r \in Listed : id[r] # item.id
        /\ UNCHANGED <<told, request_list>>
  /\ UNCHANGED <<subscribed, netQueue, step, request_count, id>>
  /\ UNCHANGED <<services, network>>

Middleware == Handle \/ Serve \/ Reply

(***************************************************************************)
(* Tasks that register services: bm_service_register, _unregister          *)
(***************************************************************************)
\* bm_service_register, for a service that is not there yet.
Register(s) ==
  /\ service_lock = "free" /\ s \notin service_list
  /\ service_lock' = "task"
  /\ service_list' = service_list \cup {s}
  /\ subscribed' = subscribed \cup {Req(s)}
  /\ UNCHANGED <<middleware, requests, network>>

\* bm_service_unregister
Unregister(s) ==
  /\ service_lock = "free" /\ s \in service_list
  /\ service_lock' = "task"
  /\ subscribed' = subscribed \ {Req(s)}
  /\ service_list' = service_list \ {s}
  /\ UNCHANGED <<middleware, requests, network>>

Registered ==
  /\ service_lock = "task"
  /\ service_lock' = "free"
  /\ UNCHANGED <<service_list, subscribed, middleware, requests, network>>

(***************************************************************************)
(* The network                                                             *)
(***************************************************************************)
\* Another node asks for a service, and yet another one may have answered.
OtherAsks(o) ==
  LET m(topic) == MessageTo(topic, Else, OtherId[o], o)
      s == ServiceOf[o]
  IN /\ o \notin asked
     /\ asked' = asked \cup {o}
     /\ \E more \in {{}, {m(Rep(s))}} : net' = net \cup {m(Req(s))} \cup more
     /\ UNCHANGED <<subscribed, middleware, requests, services>>

FromHere(m) == m.topic = Req(ServiceOf[m.of]) /\ m.node = Self

\* Another node serves a request of this one.
OtherServes(m) ==
  /\ FromHere(m)
  /\ net' = (net \ {m}) \cup {[m EXCEPT !.topic = Rep(ServiceOf[m.of])]}
  /\ UNCHANGED <<subscribed, middleware, requests, services, asked>>

Arrives(m) ==
  /\ ~FromHere(m)
  /\ Enqueued(m)
  /\ net' = net \ {m}
  /\ UNCHANGED <<subscribed, item, requests, services, asked>>

Init ==
  /\ subscribed = {}
  /\ netQueue = <<>>
  /\ item = Nil
  /\ step = [r \in Request |-> "idle"]
  /\ request_count = 0
  /\ id = [r \in Request |-> 0]
  /\ request_list = <<>>
  /\ request_lock = "free"
  /\ told = [r \in Request |-> <<>>]
  /\ service_list = {}
  /\ service_lock = "free"
  /\ net = {}
  /\ asked = {}

Next ==
  \/ \E r \in Request : Task(r)
  \/ Expiry
  \/ Middleware
  \/ \E s \in Service : Register(s) \/ Unregister(s)
  \/ Registered
  \/ \E o \in Other : OtherAsks(o)
  \/ \E m \in net : OtherServes(m) \/ Arrives(m)

Spec == Init /\ [][Next]_vars

\* The threads run, the timer goes off again and again, and time passes for
\* each request.
FairSpec ==
  /\ Spec
  /\ \A r \in Request : WF_vars(Added(r)) /\ SF_vars(TimesOut(r))
  /\ WF_vars(ExpiryBegins \/ ExpiryEnds)
  /\ WF_vars(Reply)

(***************************************************************************)
(* Properties                                                              *)
(***************************************************************************)
TypeOK ==
  /\ subscribed \subseteq Topic
  /\ netQueue \in Seq(Message) /\ Len(netQueue) <= QueueLength
  /\ item \in Message \cup {Nil}
  /\ step \in [Request -> {"idle", "numbered", "unlisted", "adding", "listed",
                           "subscribed", "sent", "failed"}]
  /\ request_count \in Nat
  /\ id \in [Request -> Nat]
  /\ request_list \in Seq(Request)
  /\ request_lock \in {"free", "timer", "middleware"} \cup Request
  /\ told \in [Request -> Seq(Request \cup Other \cup {Timeout})]
  /\ service_list \subseteq Service
  /\ service_lock \in {"free", "middleware", "task"}
  /\ net \subseteq Message
  /\ asked \subseteq Other

\* The requests that got into the list, and those that got a number.
Entered(r) == step[r] \notin {"idle", "numbered", "unlisted"}
Numbered == {r \in Request : step[r] # "idle"}

\* A callback is told once, of a reply or of a timeout, and its request has
\* left the list by then; one whose request never got into the list is told
\* nothing.  Whoever gives up at a lock leaves nothing half done
\* (bm_service_request.cpp:99-149, 237).
OneOutcome ==
  \A r \in Request :
    Len(told[r]) = IF Entered(r) /\ r \notin Listed THEN 1 ELSE 0

\* A reply is the reply to one's own request, if no two requests of the node
\* got the same id: other nodes' requests, and the replies to them, may have
\* whichever ids they have.
OwnReply ==
  (\A r, q \in Numbered : id[r] = id[q] => r = q) =>
    \A r \in Request : \A i \in DOMAIN told[r] : told[r][i] \in {r, Timeout}

\* A request that is in the list ends, although the one reply to it may be
\* given up at the lock, the call may have failed, and the expiry gives up
\* when it meets somebody at the lock.
ListedEnds == \A r \in Request : r \in Listed ~> r \notin Listed
=============================================================================
