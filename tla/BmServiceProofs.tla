--------------------------- MODULE BmServiceProofs ---------------------------
(***************************************************************************)
(* Proofs about BmService: types, that each request ends once although     *)
(* whoever meets a lock gives up, and that a reply goes to its own request *)
(* if the node gave no number twice.                                       *)
(***************************************************************************)
EXTENDS BmService

(***************************************************************************)
(* Messages and the queue                                                  *)
(***************************************************************************)
\* Messages have their fields, and a request topic names its service.
LEMMA MessageTypes ==
  ASSUME NEW m \in Message
  PROVE  /\ m.topic \in Topic /\ m.node \in {Self, Else} /\ m.id \in Nat
         /\ m.of \in Request \cup Other
         /\ m.topic[2] \in Service
BY DEF Message, Topic, Req, Rep

\* A message made of a topic, a node, an id and a request is one.
LEMMA MessageToIsMessage ==
  ASSUME NEW s \in Service, NEW topic \in {Req(s), Rep(s)},
         NEW node \in {Self, Else}, NEW i \in Nat, NEW r \in Request \cup Other
  PROVE  MessageTo(topic, node, i, r) \in Message
BY DEF MessageTo, Message, Topic

\* The queue keeps its bound, and holds what was in it and perhaps the
\* message.
LEMMA EnqueuedTypes ==
  ASSUME netQueue \in Seq(Message), Len(netQueue) <= QueueLength,
         NEW m \in Message, Enqueued(m)
  PROVE  /\ netQueue' \in Seq(Message) /\ Len(netQueue') <= QueueLength
         /\ Elements(netQueue') \subseteq Elements(netQueue) \cup {m}
<1>1. CASE netQueue' = netQueue
  BY <1>1
<1>2. CASE Len(netQueue) < QueueLength /\ netQueue' = Append(netQueue, m)
  <2>1. /\ netQueue' \in Seq(Message) /\ Len(netQueue') = Len(netQueue) + 1
        /\ DOMAIN netQueue' = 1..(Len(netQueue) + 1)
        /\ DOMAIN netQueue = 1..Len(netQueue) /\ Len(netQueue) \in Nat
        /\ \A i \in DOMAIN netQueue : netQueue'[i] = netQueue[i]
        /\ netQueue'[Len(netQueue) + 1] = m
    BY <1>2
  <2> QED
    BY <1>2, <2>1, ServiceAssumption DEF Elements
<1> QED
  BY <1>1, <1>2 DEF Enqueued

\* So it is for what the node publishes itself.
LEMMA PublishedTypes ==
  ASSUME netQueue \in Seq(Message), Len(netQueue) <= QueueLength,
         NEW m \in Message, PublishedLocally(m)
  PROVE  /\ netQueue' \in Seq(Message) /\ Len(netQueue') <= QueueLength
         /\ Elements(netQueue') \subseteq Elements(netQueue) \cup {m}
BY EnqueuedTypes DEF PublishedLocally

\* Taking the first message from the queue.
LEMMA TakenTypes ==
  ASSUME netQueue \in Seq(Message), Len(netQueue) <= QueueLength,
         netQueue # <<>>, netQueue' = Tail(netQueue)
  PROVE  /\ netQueue' \in Seq(Message) /\ Len(netQueue') <= QueueLength
         /\ Head(netQueue) \in Elements(netQueue) /\ Head(netQueue) \in Message
         /\ Elements(netQueue') \subseteq Elements(netQueue)
<1>1. /\ netQueue' \in Seq(Message) /\ Len(netQueue') = Len(netQueue) - 1
      /\ Len(netQueue) \in Nat /\ Len(netQueue) > 0
      /\ DOMAIN netQueue = 1..Len(netQueue)
      /\ DOMAIN netQueue' = 1..(Len(netQueue) - 1)
      /\ \A i \in DOMAIN netQueue' : netQueue'[i] = netQueue[i + 1]
      /\ Head(netQueue) = netQueue[1]
  OBVIOUS
<1>2. Head(netQueue) \in Message
  BY <1>1
<1> QED
  BY <1>1, <1>2, ServiceAssumption DEF Elements

(***************************************************************************)
(* Types, and requests that end once                                       *)
(***************************************************************************)
OneInv ==
  /\ TypeOK
  /\ NoRepetition(request_list)
  /\ \A r \in Listed : Entered(r)
  /\ OneOutcome

\* The requests in the list are requests.
LEMMA ListedTypes == TypeOK => Listed \subseteq Request
BY DEF TypeOK, Listed, Elements

\* A request that leaves the list has been told one thing.
LEMMA LeavesTold ==
  ASSUME OneInv, NEW r \in Listed, NEW x \in Request \cup Other \cup {Timeout},
         Tell(r, x), Remove(r), step' = step
  PROVE  /\ request_list' \in Seq(Request)
         /\ told' \in [Request -> Seq(Request \cup Other \cup {Timeout})]
         /\ NoRepetition(request_list')
         /\ Listed' = Listed \ {r}
         /\ told'[r] = Append(told[r], x)
         /\ \A q \in Request : q # r => told'[q] = told[q]
         /\ OneOutcome'
<1>1. r \in Request /\ request_list \in Seq(Request) /\ NoRepetition(request_list)
  BY ListedTypes DEF OneInv, TypeOK
<1>2. /\ request_list' \in Seq(Request)
      /\ NoRepetition(request_list')
      /\ Listed' = Listed \ {r}
  BY <1>1, WithoutOne DEF Remove, Listed
<1>3. /\ told' \in [Request -> Seq(Request \cup Other \cup {Timeout})]
      /\ told'[r] = Append(told[r], x)
      /\ \A q \in Request : q # r => told'[q] = told[q]
  BY <1>1 DEF Tell, OneInv, TypeOK
<1>4. Len(told[r]) = 0 /\ told[r] \in Seq(Request \cup Other \cup {Timeout})
  BY <1>1 DEF OneInv, OneOutcome, TypeOK
<1>5. Len(told'[r]) = 1
  BY <1>3, <1>4
<1>6. \A q \in Request : Entered(q)' <=> Entered(q)
  BY DEF Entered
<1>7. Entered(r)
  BY DEF OneInv
<1>8. OneOutcome'
  BY <1>2, <1>3, <1>5, <1>6, <1>7 DEF OneInv, OneOutcome
<1> QED
  BY <1>2, <1>3, <1>8

\* Steps that leave the list, the steps and what was told alone.
LEMMA OutcomeKept ==
  ASSUME OneInv, TypeOK', UNCHANGED <<step, request_list, told>>
  PROVE  OneInv'
BY DEF OneInv, OneOutcome, Listed, Entered

\* At first nothing is told and nothing listed.
LEMMA InitOne == Init => OneInv
<1> SUFFICES ASSUME Init PROVE OneInv
  OBVIOUS
<1>1. TypeOK
  BY ServiceAssumption DEF Init, TypeOK
<1>2. Listed = {} /\ NoRepetition(request_list)
  BY DEF Init, Listed, Elements, NoRepetition
<1>3. \A r \in Request : Len(told[r]) = 0 /\ ~Entered(r)
  BY DEF Init, Entered
<1> QED
  BY <1>1, <1>2, <1>3 DEF OneInv, OneOutcome

\* A task on its way to its request.
LEMMA TaskOne == ASSUME OneInv, NEW r \in Request, Task(r) PROVE OneInv'
<1>a. step[r] \in {"idle", "numbered"} => ~Entered(r) /\ r \notin Listed
  BY DEF OneInv, Entered
<1>1. CASE Number(r)
  <2>1. TypeOK'
    BY <1>1 DEF Number, Goes, OneInv, TypeOK, middleware, services, network
  <2>2. Listed' = Listed /\ \A q \in Request : Entered(q)' <=> Entered(q)
    BY <1>1 DEF Number, Goes, OneInv, TypeOK, Listed, Entered
  <2> QED
    BY <1>1, <2>1, <2>2, ListedTypes DEF Number, OneInv, OneOutcome
<1>2. CASE Add(r)
  <2>1. /\ request_list' \in Seq(Request) /\ NoRepetition(request_list')
        /\ Listed' = Listed \cup {r}
    BY <1>2, <1>a, AppendNew DEF Add, Goes, OneInv, TypeOK, Listed
  <2>2. TypeOK'
    BY <1>2, <2>1 DEF Add, Goes, Count, OneInv, TypeOK, middleware, services, network
  <2>3. Entered(r)' /\ \A q \in Request \ {r} : Entered(q)' <=> Entered(q)
    BY <1>2 DEF Add, Goes, OneInv, TypeOK, Entered
  <2>4. OneOutcome'
    BY <1>2, <1>a, <2>1, <2>3 DEF Add, Goes, OneInv, OneOutcome
  <2> QED
    BY <2>1, <2>2, <2>3, <2>4, ListedTypes DEF OneInv
<1>3. CASE AddFails(r)
  <2>1. TypeOK'
    BY <1>3 DEF AddFails, Goes, Count, OneInv, TypeOK, middleware, services, network
  <2>2. Listed' = Listed /\ \A q \in Request : Entered(q)' <=> Entered(q)
    BY <1>3 DEF AddFails, Goes, OneInv, TypeOK, Listed, Entered
  <2> QED
    BY <1>3, <2>1, <2>2, ListedTypes DEF AddFails, OneInv, OneOutcome
<1>4. CASE Added(r) \/ SubToReply(r)
  <2>1. TypeOK'
    BY <1>4, ServiceAssumption
       DEF Added, SubToReply, Goes, OneInv, TypeOK, middleware, services, network, Topic
  <2>2. Listed' = Listed /\ \A q \in Request : Entered(q)' <=> Entered(q)
    BY <1>4 DEF Added, SubToReply, Goes, OneInv, TypeOK, Listed, Entered
  <2> QED
    BY <1>4, <2>1, <2>2, ListedTypes DEF Added, SubToReply, OneInv, OneOutcome
<1>5. CASE Publish(r)
  <2> DEFINE m == MessageTo(Req(ServiceOf[r]), Self, id[r], r)
  <2>1. m \in Message
    BY ServiceAssumption, MessageToIsMessage DEF OneInv, TypeOK
  <2>2. netQueue' \in Seq(Message) /\ Len(netQueue') <= QueueLength
    BY <1>5, <2>1, PublishedTypes DEF Publish, OneInv, TypeOK
  <2>3. TypeOK'
    BY <1>5, <2>1, <2>2 DEF Publish, Goes, OneInv, TypeOK, services
  <2>4. Listed' = Listed /\ \A q \in Request : Entered(q)' <=> Entered(q)
    BY <1>5 DEF Publish, Goes, OneInv, TypeOK, Listed, Entered
  <2> QED
    BY <1>5, <2>3, <2>4, ListedTypes DEF Publish, OneInv, OneOutcome
<1> QED
  BY <1>1, <1>2, <1>3, <1>4, <1>5 DEF Task

\* The expiry.
LEMMA ExpiryOne == ASSUME OneInv, Expiry PROVE OneInv'
<1>1. CASE ExpiryBegins \/ ExpiryEnds
  <2>1. TypeOK'
    BY <1>1 DEF ExpiryBegins, ExpiryEnds, OneInv, TypeOK, middleware, services, network
  <2> QED
    BY <1>1, <2>1, OutcomeKept DEF ExpiryBegins, ExpiryEnds
<1>2. ASSUME NEW r \in Request, TimesOut(r) PROVE OneInv'
  <2>1. /\ request_list' \in Seq(Request)
        /\ told' \in [Request -> Seq(Request \cup Other \cup {Timeout})]
        /\ NoRepetition(request_list')
        /\ Listed' = Listed \ {r}
        /\ OneOutcome'
    BY <1>2, LeavesTold DEF TimesOut
  <2>2. TypeOK'
    BY <1>2, <2>1 DEF TimesOut, OneInv, TypeOK, middleware, services, network
  <2> QED
    BY <1>2, <2>1, <2>2 DEF TimesOut, OneInv, Entered
<1> QED
  BY <1>1, <1>2 DEF Expiry

\* The middleware thread takes a message.
LEMMA HandleOne == ASSUME OneInv, Handle PROVE OneInv'
<1>1. /\ netQueue' \in Seq(Message) /\ Len(netQueue') <= QueueLength
      /\ Head(netQueue) \in Message
  BY TakenTypes DEF Handle, OneInv, TypeOK
<1>2. TypeOK'
  BY <1>1 DEF Handle, Accepts, OneInv, TypeOK, network
<1> QED
  BY <1>2, OutcomeKept DEF Handle

\* A service of this node is asked.
LEMMA ServeOne == ASSUME OneInv, Serve PROVE OneInv'
<1>1. item \in Message
  BY DEF Serve, OneInv, TypeOK
<1>2. MessageTo(Rep(item.topic[2]), item.node, item.id, item.of) \in Message
  BY <1>1, MessageTypes, MessageToIsMessage
<1>3. netQueue' \in Seq(Message) /\ Len(netQueue') <= QueueLength
  BY <1>2, PublishedTypes DEF Serve, OneInv, TypeOK
<1>4. TypeOK'
  BY <1>3 DEF Serve, OneInv, TypeOK, requests, network
<1> QED
  BY <1>4, OutcomeKept DEF Serve, requests

\* A reply is handled.
LEMMA ReplyOne == ASSUME OneInv, Reply PROVE OneInv'
<1>1. item \in Message /\ item.of \in Request \cup Other
  BY MessageTypes DEF Reply, OneInv, TypeOK
<1>2. ASSUME NEW i \in DOMAIN request_list, Tell(request_list[i], item.of),
             Remove(request_list[i])
      PROVE  OneInv'
  <2> DEFINE r == request_list[i]
  <2>1. r \in Listed
    BY DEF Listed, Elements
  <2>2. /\ request_list' \in Seq(Request)
        /\ told' \in [Request -> Seq(Request \cup Other \cup {Timeout})]
        /\ NoRepetition(request_list')
        /\ Listed' = Listed \ {r}
        /\ OneOutcome'
    BY <1>1, <1>2, <2>1, LeavesTold DEF Reply
  <2>3. TypeOK'
    BY <2>2 DEF Reply, OneInv, TypeOK, services, network
  <2> QED
    BY <2>2, <2>3 DEF Reply, OneInv, Entered
<1>3. CASE UNCHANGED <<told, request_list>>
  <2>1. TypeOK'
    BY <1>3 DEF Reply, OneInv, TypeOK, services, network
  <2> QED
    BY <1>3, <2>1, OutcomeKept DEF Reply
<1> QED
  BY <1>2, <1>3 DEF Reply, WaitsFor

\* Services come and go, other nodes ask and answer, messages arrive.
LEMMA OthersOne ==
  ASSUME OneInv,
         \/ \E s \in Service : Register(s) \/ Unregister(s)
         \/ Registered
         \/ \E o \in Other : OtherAsks(o)
         \/ \E m \in net : OtherServes(m) \/ Arrives(m)
  PROVE  OneInv'
<1>1. ASSUME NEW s \in Service, Register(s) \/ Unregister(s) PROVE OneInv'
  <2>1. TypeOK'
    BY <1>1 DEF Register, Unregister, OneInv, TypeOK, Topic, middleware, requests, network
  <2> QED
    BY <1>1, <2>1, OutcomeKept DEF Register, Unregister, requests
<1>2. CASE Registered
  <2>1. TypeOK'
    BY <1>2 DEF Registered, OneInv, TypeOK, middleware, requests, network
  <2> QED
    BY <1>2, <2>1, OutcomeKept DEF Registered, requests
<1>3. ASSUME NEW o \in Other, OtherAsks(o) PROVE OneInv'
  <2>1. ServiceOf[o] \in Service /\ OtherId[o] \in Nat
    BY ServiceAssumption
  <2>2. \A topic \in {Req(ServiceOf[o]), Rep(ServiceOf[o])} :
          MessageTo(topic, Else, OtherId[o], o) \in Message
    BY <2>1, MessageToIsMessage
  <2>3. net' \subseteq Message
    BY <1>3, <2>2 DEF OtherAsks, OneInv, TypeOK
  <2>4. TypeOK'
    BY <1>3, <2>3 DEF OtherAsks, OneInv, TypeOK, middleware, requests, services
  <2> QED
    BY <1>3, <2>4, OutcomeKept DEF OtherAsks, requests
<1>4. ASSUME NEW m \in net, OtherServes(m) PROVE OneInv'
  <2>1. m \in Message /\ ServiceOf[m.of] \in Service
    BY MessageTypes, ServiceAssumption DEF OneInv, TypeOK
  <2>2. [m EXCEPT !.topic = Rep(ServiceOf[m.of])] \in Message
    BY <2>1 DEF Message, Topic
  <2>3. TypeOK'
    BY <1>4, <2>2 DEF OtherServes, OneInv, TypeOK, middleware, requests, services
  <2> QED
    BY <1>4, <2>3, OutcomeKept DEF OtherServes, requests
<1>5. ASSUME NEW m \in net, Arrives(m) PROVE OneInv'
  <2>1. netQueue' \in Seq(Message) /\ Len(netQueue') <= QueueLength
    BY <1>5, EnqueuedTypes DEF Arrives, OneInv, TypeOK
  <2>2. TypeOK'
    BY <1>5, <2>1 DEF Arrives, OneInv, TypeOK, requests, services
  <2> QED
    BY <1>5, <2>2, OutcomeKept DEF Arrives, requests
<1> QED
  BY <1>1, <1>2, <1>3, <1>4, <1>5

\* Every step keeps the invariant.
LEMMA NextOne == ASSUME OneInv, [Next]_vars PROVE OneInv'
<1>1. CASE UNCHANGED vars
  <2>1. TypeOK'
    BY <1>1 DEF vars, OneInv, TypeOK, middleware, requests, services, network
  <2> QED
    BY <1>1, <2>1, OutcomeKept DEF vars, requests
<1>2. CASE Next
  BY <1>2, TaskOne, ExpiryOne, HandleOne, ServeOne, ReplyOne, OthersOne
     DEF Next, Middleware
<1> QED
  BY <1>1, <1>2

LEMMA OneAlways == Spec => []OneInv
<1>1. Init => OneInv
  BY InitOne
<1>2. OneInv /\ [Next]_vars => OneInv'
  BY NextOne
<1> QED
  BY <1>1, <1>2, PTL DEF Spec

\* The queue, the ids, the lists and the messages keep their types and bounds.
THEOREM TypeCorrect == Spec => []TypeOK
<1>1. OneInv => TypeOK
  BY DEF OneInv
<1> QED
  BY <1>1, OneAlways, PTL

\* A request ends once, and out of the list, whoever gives up at a lock
\* (bm_service_request.cpp:80-90, 169-184, 236-247), for any number of tasks,
\* services and messages.
THEOREM RequestsEndOnce == Spec => []OneOutcome
<1>1. OneInv => OneOutcome
  BY DEF OneInv
<1> QED
  BY <1>1, OneAlways, PTL

(***************************************************************************)
(* Replies to one's own requests                                           *)
(***************************************************************************)
\* A message about a request of this node carries its id and comes from, or
\* goes to, this node; one about a request of another node does not.
MsgInv(m) ==
  /\ m.of \in Request => m.node = Self /\ m.of \in Numbered /\ m.id = id[m.of]
  /\ m.of \in Other => m.node = Else

\* What a callback was told has the id of its request.
ToldInv ==
  \A r \in Request : \A i \in DOMAIN told[r] :
    \/ told[r][i] = Timeout
    \/ /\ told[r][i] \in Numbered /\ r \in Numbered
       /\ id[told[r][i]] = id[r]

OwnInv ==
  /\ \A m \in net \cup Elements(netQueue) : MsgInv(m)
  /\ item # Nil => MsgInv(item) /\ (item.topic[1] = "rep" => item.node = Self)
  /\ ToldInv

\* Requests keep their ids.
IdsKept == \A r \in Numbered : r \in Numbered' /\ id'[r] = id[r]

LEMMA IdsStay ==
  ASSUME OneInv, [Next]_vars
  PROVE  IdsKept
<1>1. CASE UNCHANGED <<id, step>>
  BY <1>1 DEF IdsKept, Numbered
<1>2. ASSUME NEW r \in Request, Task(r) PROVE IdsKept
  BY <1>2 DEF Task, Number, Add, AddFails, Added, SubToReply, Publish, Goes, IdsKept,
              Numbered, OneInv, TypeOK
<1>3. CASE Expiry \/ Middleware
  BY <1>1, <1>3 DEF Expiry, ExpiryBegins, TimesOut, ExpiryEnds, Middleware, Handle, Serve,
                    Reply, requests
<1>4. ASSUME \/ \E s \in Service : Register(s) \/ Unregister(s)
             \/ Registered
             \/ \E o \in Other : OtherAsks(o)
             \/ \E m \in net : OtherServes(m) \/ Arrives(m)
      PROVE  IdsKept
  BY <1>1, <1>4 DEF Register, Unregister, Registered, OtherAsks, OtherServes, Arrives,
                    requests
<1>5. CASE UNCHANGED vars
  BY <1>1, <1>5 DEF vars, requests
<1> QED
  BY <1>2, <1>3, <1>4, <1>5 DEF Next

\* A message stays what it is while ids stay what they are.
LEMMA MsgKept ==
  ASSUME IdsKept, NEW m, MsgInv(m)
  PROVE  MsgInv(m)'
BY DEF IdsKept, MsgInv

LEMMA ToldKept ==
  ASSUME IdsKept, ToldInv, told' = told
  PROVE  ToldInv'
BY DEF IdsKept, ToldInv

\* A step that only adds a sound message.
LEMMA MessageAdded ==
  ASSUME OwnInv, IdsKept, NEW m, MsgInv(m)', told' = told, item' \in {item, Nil},
         net' \subseteq net \cup {m},
         Elements(netQueue') \subseteq Elements(netQueue) \cup {m}
  PROVE  OwnInv'
<1>1. \A n \in net' \cup Elements(netQueue') : MsgInv(n)'
  BY MsgKept DEF OwnInv
<1>2. item' # Nil => MsgInv(item)' /\ (item'.topic[1] = "rep" => item'.node = Self)
  BY MsgKept DEF OwnInv
<1>3. ToldInv'
  BY ToldKept DEF OwnInv
<1> QED
  BY <1>1, <1>2, <1>3 DEF OwnInv

\* A step that brings no message.
LEMMA NoMessage ==
  ASSUME OwnInv, IdsKept, told' = told, item' \in {item, Nil},
         net' \subseteq net, Elements(netQueue') \subseteq Elements(netQueue)
  PROVE  OwnInv'
<1>1. \A n \in net' \cup Elements(netQueue') : MsgInv(n)'
  BY MsgKept DEF OwnInv
<1>2. item' # Nil => MsgInv(item)' /\ (item'.topic[1] = "rep" => item'.node = Self)
  BY MsgKept DEF OwnInv
<1>3. ToldInv'
  BY ToldKept DEF OwnInv
<1> QED
  BY <1>1, <1>2, <1>3 DEF OwnInv

\* A callback is told one thing more.
LEMMA ToldMore ==
  ASSUME OneInv, ToldInv, IdsKept, NEW r \in Request,
         NEW x \in Request \cup Other \cup {Timeout}, Tell(r, x),
         x = Timeout \/ (x \in Numbered /\ r \in Numbered /\ id[x] = id[r])
  PROVE  ToldInv'
<1>1. /\ told'[r] = Append(told[r], x)
      /\ \A q \in Request : q # r => told'[q] = told[q]
      /\ told[r] \in Seq(Request \cup Other \cup {Timeout})
  BY DEF Tell, OneInv, TypeOK
<1>2. \A i \in DOMAIN told'[r] :
        told'[r][i] = x \/ (i \in DOMAIN told[r] /\ told'[r][i] = told[r][i])
  BY <1>1
<1>3. ASSUME NEW q \in Request, NEW i \in DOMAIN told'[q]
      PROVE  \/ told'[q][i] = Timeout
             \/ /\ told'[q][i] \in Numbered /\ q \in Numbered
                /\ id[told'[q][i]] = id[q]
  BY <1>1, <1>2 DEF ToldInv
<1> QED
  BY <1>3 DEF ToldInv, IdsKept

\* A task publishes its own request.
LEMMA PublishOwn ==
  ASSUME OneInv, OwnInv, IdsKept, NEW r \in Request, Publish(r)
  PROVE  OwnInv'
<1>a. PICK m : m = MessageTo(Req(ServiceOf[r]), Self, id[r], r)
  OBVIOUS
<1>1. m \in Message
  BY <1>a, ServiceAssumption, MessageToIsMessage DEF OneInv, TypeOK
<1>2. r \in Numbered
  BY DEF Publish, Goes, Numbered
<1>3. MsgInv(m)
  BY <1>a, <1>2, PartiesAssumption DEF MsgInv, MessageTo
<1>4. MsgInv(m)'
  BY <1>3, MsgKept
<1>5. Elements(netQueue') \subseteq Elements(netQueue) \cup {m}
  BY <1>a, <1>1, PublishedTypes DEF Publish, OneInv, TypeOK
<1> QED
  BY <1>a, <1>4, <1>5, MessageAdded DEF Publish

\* The middleware thread takes a message, and a reply only to this node.
LEMMA HandleOwn ==
  ASSUME OneInv, OwnInv, IdsKept, Handle
  PROVE  OwnInv'
<1>1. /\ Elements(netQueue') \subseteq Elements(netQueue)
      /\ Head(netQueue) \in Elements(netQueue)
  BY TakenTypes DEF Handle, OneInv, TypeOK
<1>2. CASE item' = item
  BY <1>1, <1>2, NoMessage DEF Handle, network
<1>3. CASE Accepts(Head(netQueue)) /\ item' = Head(netQueue)
  <2>1. item'.topic[1] = "rep" => item'.node = Self
    BY <1>3 DEF Accepts, Req
  <2>2. MsgInv(item)'
    BY <1>1, <1>3, MsgKept DEF OwnInv
  <2>3. \A n \in net' \cup Elements(netQueue') : MsgInv(n)'
    BY <1>1, MsgKept DEF OwnInv, Handle, network
  <2>4. ToldInv'
    BY ToldKept DEF OwnInv, Handle
  <2> QED
    BY <2>1, <2>2, <2>3, <2>4 DEF OwnInv
<1> QED
  BY <1>2, <1>3 DEF Handle

\* A reply to a request carries its id and its node.
LEMMA ServeOwn ==
  ASSUME OneInv, OwnInv, IdsKept, Serve
  PROVE  OwnInv'
<1>a. PICK m : m = MessageTo(Rep(item.topic[2]), item.node, item.id, item.of)
  OBVIOUS
<1>1. item \in Message
  BY DEF Serve, OneInv, TypeOK
<1>2. m \in Message
  BY <1>a, <1>1, MessageTypes, MessageToIsMessage
<1>3. MsgInv(m)
  BY <1>a DEF Serve, OwnInv, MsgInv, MessageTo
<1>4. MsgInv(m)'
  BY <1>3, MsgKept
<1>5. Elements(netQueue') \subseteq Elements(netQueue) \cup {m}
  BY <1>a, <1>2, PublishedTypes DEF Serve, OneInv, TypeOK
<1> QED
  BY <1>a, <1>4, <1>5, MessageAdded DEF Serve, requests, network

\* A reply is given to the request that has its id.
LEMMA ReplyOwn ==
  ASSUME OneInv, OwnInv, IdsKept, Reply
  PROVE  OwnInv'
<1>1. /\ item \in Message /\ item.of \in Request \cup Other
      /\ MsgInv(item) /\ item.node = Self
  BY MessageTypes DEF Reply, OneInv, TypeOK, OwnInv
<1>2. item.of \in Numbered /\ item.id = id[item.of]
  BY <1>1, PartiesAssumption DEF MsgInv
<1>3. CASE told' = told
  BY <1>3, NoMessage DEF Reply, network
<1>4. ASSUME NEW i, WaitsFor(i), Tell(request_list[i], item.of) PROVE OwnInv'
  <2> DEFINE r == request_list[i]
  <2>1. r \in Listed /\ r \in Request /\ id[r] = item.id
    BY <1>4, ListedTypes DEF WaitsFor, Listed, Elements, OneInv
  <2>2. r \in Numbered
    BY <2>1 DEF OneInv, Entered, Numbered
  <2>3. ToldInv'
    BY <1>1, <1>2, <1>4, <2>1, <2>2, ToldMore DEF OwnInv
  <2>4. \A n \in net' \cup Elements(netQueue') : MsgInv(n)'
    BY MsgKept DEF OwnInv, Reply, network
  <2>5. item' = Nil
    BY DEF Reply
  <2> QED
    BY <2>3, <2>4, <2>5 DEF OwnInv
<1> QED
  BY <1>3, <1>4 DEF Reply

\* Other nodes ask for themselves and answer whom they were asked by.
LEMMA NetworkOwn ==
  ASSUME OneInv, OwnInv, IdsKept,
         \/ \E o \in Other : OtherAsks(o)
         \/ \E m \in net : OtherServes(m) \/ Arrives(m)
  PROVE  OwnInv'
<1>1. ASSUME NEW o \in Other, OtherAsks(o) PROVE OwnInv'
  <2>1. \A topic : MsgInv(MessageTo(topic, Else, OtherId[o], o))'
    BY PartiesAssumption DEF MsgInv, MessageTo
  <2>2. \A n \in net' : MsgInv(n)'
    BY <1>1, <2>1, MsgKept DEF OtherAsks, OwnInv
  <2>3. \A n \in Elements(netQueue') : MsgInv(n)'
    BY <1>1, MsgKept DEF OtherAsks, OwnInv, middleware
  <2>4. item' # Nil => MsgInv(item)' /\ (item'.topic[1] = "rep" => item'.node = Self)
    BY <1>1, MsgKept DEF OtherAsks, OwnInv, middleware
  <2>5. ToldInv'
    BY <1>1, ToldKept DEF OtherAsks, OwnInv, requests
  <2> QED
    BY <2>2, <2>3, <2>4, <2>5 DEF OwnInv
<1>2. ASSUME NEW m \in net, OtherServes(m) PROVE OwnInv'
  <2> DEFINE n == [m EXCEPT !.topic = Rep(ServiceOf[m.of])]
  <2>1. m \in Message /\ MsgInv(m)
    BY DEF OneInv, TypeOK, OwnInv
  <2>2. n.of = m.of /\ n.node = m.node /\ n.id = m.id
    BY <2>1 DEF Message
  <2>3. MsgInv(n)
    BY <2>1, <2>2 DEF MsgInv
  <2> QED
    BY <1>2, <2>3, MsgKept, MessageAdded DEF OtherServes, middleware, requests
<1>3. ASSUME NEW m \in net, Arrives(m) PROVE OwnInv'
  <2>1. Elements(netQueue') \subseteq Elements(netQueue) \cup {m} /\ MsgInv(m)
    BY <1>3, EnqueuedTypes DEF Arrives, OneInv, TypeOK, OwnInv
  <2> QED
    BY <1>3, <2>1, MsgKept, MessageAdded DEF Arrives, requests
<1> QED
  BY <1>1, <1>2, <1>3

\* Every step keeps ids and replies together.
LEMMA NextOwn == ASSUME OneInv, OwnInv, [Next]_vars PROVE OwnInv'
<1>1. IdsKept
  BY IdsStay
<1>2. ASSUME NEW r \in Request, Task(r) PROVE OwnInv'
  <2>1. CASE Publish(r)
    BY <1>1, <2>1, PublishOwn
  <2>2. CASE ~Publish(r)
    BY <1>1, <1>2, <2>2, NoMessage
       DEF Task, Number, Add, AddFails, Added, SubToReply, middleware, network
  <2> QED
    BY <2>1, <2>2
<1>3. CASE ExpiryBegins \/ ExpiryEnds
  BY <1>1, <1>3, NoMessage DEF ExpiryBegins, ExpiryEnds, middleware, network
<1>4. ASSUME NEW r \in Request, TimesOut(r) PROVE OwnInv'
  <2>1. ToldInv'
    BY <1>1, <1>4, ToldMore DEF TimesOut, OwnInv
  <2>2. \A n \in net' \cup Elements(netQueue') : MsgInv(n)'
    BY <1>1, <1>4, MsgKept DEF TimesOut, OwnInv, middleware, network
  <2>3. item' # Nil => MsgInv(item)' /\ (item'.topic[1] = "rep" => item'.node = Self)
    BY <1>1, <1>4, MsgKept DEF TimesOut, OwnInv, middleware
  <2> QED
    BY <2>1, <2>2, <2>3 DEF OwnInv
<1>5. CASE Middleware
  BY <1>1, <1>5, HandleOwn, ServeOwn, ReplyOwn DEF Middleware
<1>6. ASSUME NEW s \in Service, Register(s) \/ Unregister(s) PROVE OwnInv'
  BY <1>1, <1>6, NoMessage DEF Register, Unregister, middleware, requests, network
<1>7. CASE Registered
  BY <1>1, <1>7, NoMessage DEF Registered, middleware, requests, network
<1>8. CASE UNCHANGED vars
  BY <1>1, <1>8, NoMessage DEF vars, middleware, requests, network
<1> QED
  BY <1>1, <1>2, <1>3, <1>4, <1>5, <1>6, <1>7, <1>8, NetworkOwn DEF Next, Expiry

\* If the node gave no number twice, what a callback is told is the reply to
\* its request or its timeout, whichever numbers other nodes use
\* (bm_service_request.cpp:236-247).
THEOREM RepliesAreOwn == Spec => []OwnReply
<1>1. Init => OwnInv
  BY DEF Init, OwnInv, ToldInv, Elements
<1>2. OneInv /\ OwnInv /\ [Next]_vars => OwnInv'
  BY NextOwn
<1>3. OneInv /\ OwnInv => OwnReply
  BY DEF OwnInv, ToldInv, OwnReply
<1> QED
  BY <1>1, <1>2, <1>3, OneAlways, PTL DEF Spec
=============================================================================
