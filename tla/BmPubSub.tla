------------------------------ MODULE BmPubSub ------------------------------
(***************************************************************************)
(* Publish and subscribe on one node                                       *)
(* (src/src/lib/middleware/bm_pubsub.cpp, middleware.cpp): tasks subscribe *)
(* callbacks to topics and publish messages; the middleware thread takes   *)
(* messages from a queue and walks along the callbacks of their topic.     *)
(*                                                                         *)
(* There is no lock.  A call of bm_sub or bm_unsub is one step here, but   *)
(* the walk is not: callbacks come and go between any two steps of it, and *)
(* the callback node on which it stands may be freed, and allocated again. *)
(* A node that was freed keeps what was in it until then.                  *)
(***************************************************************************)
EXTENDS Naturals, Sequences, FiniteSets

CONSTANTS
  Topic,
  Callback,
  Cell,       \* memory for callback nodes
  Nil,        \* the null pointer, no topic, no callback
  QueueLength \* NET_QUEUE_LEN

ASSUME QueueAssumption == QueueLength \in Nat \ {0}
ASSUME NilAssumption == Nil \notin Topic \cup Cell \cup Callback

VARIABLES
  callbacks,   \* the callback nodes of each topic, in their order
  callback_fn, \* the callback in each node
  stale,       \* what next is in the nodes that are free
  netQueue,    \* messages, of which the topic is what matters
  item,        \* the topic of the message that is being handled
  cb_node,     \* where the walk stands
  running,     \* the callback that has not returned yet
  ran,         \* history: nodes whose callbacks the walk has called
  began,       \* history: nodes of the topic when the walk began
  added,       \* history: nodes added to the topic since
  freed,       \* history: nodes freed since
  reused       \* history: one of those was allocated again

memory == <<callbacks, callback_fn, stale>>
walk == <<item, cb_node, running, ran>>
since == <<began, added, freed, reused>>
vars == <<memory, netQueue, walk, since>>

Nodes(t) == {callbacks[t][i] : i \in DOMAIN callbacks[t]}
Allocated == UNION {Nodes(t) : t \in Topic}
Subscribed(t) == callbacks[t] # <<>>

\* The node after the one at i, as memory has it.
NextAt(t, i) == IF i < Len(callbacks[t]) THEN callbacks[t][i + 1] ELSE Nil

Following(c) ==
  IF c \in Allocated
  THEN LET t == CHOOSE t \in Topic : c \in Nodes(t)
       IN NextAt(t, CHOOSE i \in DOMAIN callbacks[t] : callbacks[t][i] = c)
  ELSE stale[c]

(***************************************************************************)
(* Any task: bm_sub_wl, bm_unsub_wl                                        *)
(***************************************************************************)
Free == Cell \ Allocated

\* Only the first node is compared with the callback: any other callback gets
\* a new node, whether it has one or not.
Known(t, f) == Subscribed(t) /\ callback_fn[callbacks[t][1]] = f

\* A new node at the end of the topic.
NewNode(t, f) ==
  \E c \in Free :
    /\ callbacks' = [callbacks EXCEPT ![t] = Append(@, c)]
    /\ callback_fn' = [callback_fn EXCEPT ![c] = f]
    /\ stale' = [stale EXCEPT ![c] = Nil]
    /\ added' = IF item = t THEN added \cup {c} ELSE added
    /\ reused' = (reused \/ c \in freed)
    /\ UNCHANGED <<netQueue, walk, began, freed>>

Sub(t, f) ==
  \/ Known(t, f) /\ UNCHANGED vars
  \/ ~Known(t, f) /\ NewNode(t, f)

\* The list without its i-th element.
Without(list, i) == SubSeq(list, 1, i - 1) \o SubSeq(list, i + 1, Len(list))

\* Mutant: the next pointer is cleared before the node is freed.
UnsubClears(t, f) ==
  \E i \in DOMAIN callbacks[t] :
    LET c == callbacks[t][i] IN
    /\ callback_fn[c] = f
    /\ \A j \in 1..(i - 1) : callback_fn[callbacks[t][j]] # f
    /\ callbacks' = [callbacks EXCEPT ![t] = Without(@, i)]
    /\ stale' = [stale EXCEPT ![c] = Nil]
    /\ freed' = IF item # Nil THEN freed \cup {c} ELSE freed
    /\ UNCHANGED <<callback_fn, netQueue, walk, began, added, reused>>

\* The first node with the callback is freed.  What is left in it matters only
\* to a walk that is under way.
Unsub(t, f) ==
  \E i \in DOMAIN callbacks[t] :
    LET c == callbacks[t][i] IN
    /\ callback_fn[c] = f
    /\ \A j \in 1..(i - 1) : callback_fn[callbacks[t][j]] # f
    /\ callbacks' = [callbacks EXCEPT ![t] = Without(@, i)]
    /\ \/ /\ item # Nil
          /\ stale' = [stale EXCEPT ![c] = NextAt(t, i)]
          /\ freed' = freed \cup {c}
          /\ UNCHANGED callback_fn
       \/ /\ item = Nil
          /\ callback_fn' = [callback_fn EXCEPT ![c] = Nil]
          /\ UNCHANGED <<stale, freed>>
    /\ UNCHANGED <<netQueue, walk, began, added, reused>>

(***************************************************************************)
(* Messages: bm_pub_wl, bm_middleware_local_pub, middleware_net_rx_cb      *)
(***************************************************************************)
\* Mutant: the queue takes any number of messages.
EnqueuedAnyway(t) == netQueue' = Append(netQueue, t)

\* A full queue drops the message.
Enqueued(t) ==
  netQueue' = IF Len(netQueue) < QueueLength THEN Append(netQueue, t)
              ELSE netQueue

\* What the node publishes comes back to it if it subscribes to the topic.
Publish(t) ==
  /\ Subscribed(t)
  /\ Enqueued(t)
  /\ UNCHANGED <<memory, walk, since>>

Arrives(t) ==
  /\ Enqueued(t)
  /\ UNCHANGED <<memory, walk, since>>

(***************************************************************************)
(* The middleware thread: middleware_net_task, bm_handle_msg               *)
(***************************************************************************)
First(t) == IF Subscribed(t) THEN callbacks[t][1] ELSE Nil

\* Mutant: topics of the same length count as equal.
TakeSameLength ==
  /\ item = Nil
  /\ netQueue # <<>>
  /\ item' = Head(netQueue)
  /\ \E t \in Topic : cb_node' = First(t)
  /\ began' = Nodes(item')
  /\ netQueue' = Tail(netQueue)
  /\ UNCHANGED <<memory, running, ran, added, freed, reused>>

Take ==
  /\ item = Nil
  /\ netQueue # <<>>
  /\ item' = Head(netQueue)
  /\ cb_node' = First(item')
  /\ began' = Nodes(item')
  /\ netQueue' = Tail(netQueue)
  /\ UNCHANGED <<memory, running, ran, added, freed, reused>>

\* The callback in the node is called, whatever the node is by now.
Call ==
  /\ cb_node # Nil /\ running = Nil
  /\ running' = callback_fn[cb_node]
  /\ ran' = IF reused THEN ran ELSE Append(ran, cb_node)
  /\ UNCHANGED <<memory, netQueue, item, cb_node, since>>

\* It returns, and only then the next node is read.
Return ==
  /\ running # Nil
  /\ running' = Nil
  /\ cb_node' = Following(cb_node)
  /\ UNCHANGED <<memory, netQueue, item, ran, since>>

\* What is left in free nodes matters to nobody any more.
Finish ==
  /\ item # Nil /\ cb_node = Nil
  /\ item' = Nil
  /\ ran' = <<>>
  /\ began' = {} /\ added' = {} /\ freed' = {} /\ reused' = FALSE
  /\ stale' = [c \in Cell |-> Nil]
  /\ callback_fn' = [c \in Cell |->
                       IF c \in Allocated THEN callback_fn[c] ELSE Nil]
  /\ UNCHANGED <<callbacks, netQueue, cb_node, running>>

Init ==
  /\ callbacks = [t \in Topic |-> <<>>]
  /\ callback_fn = [c \in Cell |-> Nil]
  /\ stale = [c \in Cell |-> Nil]
  /\ netQueue = <<>>
  /\ item = Nil /\ cb_node = Nil /\ running = Nil
  /\ ran = <<>>
  /\ began = {} /\ added = {} /\ freed = {} /\ reused = FALSE

Next ==
  \/ \E t \in Topic, f \in Callback : Sub(t, f) \/ Unsub(t, f)
  \/ \E t \in Topic : Publish(t) \/ Arrives(t)
  \/ Take \/ Call \/ Return \/ Finish

Spec == Init /\ [][Next]_vars

(***************************************************************************)
(* Properties                                                              *)
(***************************************************************************)
TypeOK ==
  /\ callbacks \in [Topic -> Seq(Cell)]
  /\ callback_fn \in [Cell -> Callback \cup {Nil}]
  /\ stale \in [Cell -> Cell \cup {Nil}]
  /\ netQueue \in Seq(Topic) /\ Len(netQueue) <= QueueLength
  /\ item \in Topic \cup {Nil}
  /\ cb_node \in Cell \cup {Nil}
  /\ running \in Callback \cup {Nil}
  /\ ran \in Seq(Cell)
  /\ began \subseteq Cell /\ added \subseteq Cell /\ freed \subseteq Cell
  /\ reused \in BOOLEAN

\* How often the walk has called the callback of a node.
Runs(c) == Cardinality({i \in DOMAIN ran : ran[i] = c})

\* A message reaches each callback that is subscribed from before the walk
\* until after it, once, although others are removed, the one that runs
\* among them, whose nodes the walk goes on reading.  (Not if a node is
\* allocated again meanwhile: then the walk may go on in another topic.)
Delivered ==
  item # Nil /\ cb_node = Nil /\ ~reused => \A c \in began \ freed : Runs(c) = 1

\* A message is given to no callback that was never subscribed to its topic
\* since the walk began.
OnlySubscribers ==
  ~reused => \A i \in DOMAIN ran : ran[i] \in began \cup added
=============================================================================
