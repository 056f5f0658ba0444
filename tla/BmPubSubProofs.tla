---------------------------- MODULE BmPubSubProofs ----------------------------
(***************************************************************************)
(* Proofs about BmPubSub, for any topics, callbacks and memory: a walk     *)
(* calls nobody else, and no callback that stays subscribed is left out    *)
(* or called twice, however many come and go while it is under way.        *)
(***************************************************************************)
EXTENDS BmPubSub, FiniteSetTheorems, TLAPS

(***************************************************************************)
(* The inductive invariant                                                 *)
(***************************************************************************)

\* No node is in two places, and every node that a walk may still read has a
\* callback.
Memory ==
  /\ \A t \in Topic : \A i, j \in DOMAIN callbacks[t] :
       callbacks[t][i] = callbacks[t][j] => i = j
  /\ \A t, u \in Topic : t # u => Nodes(t) \cap Nodes(u) = {}
  /\ \A c \in Allocated \cup freed : callback_fn[c] \in Callback

\* The nodes that were in the topic at some time since the walk began.
Members == began \cup added

\* Those of them that were there from the beginning and still are.
Lasting == began \ freed

\* The members have an order, that of their allocation, in which r numbers
\* them: the list of the topic follows it, whatever is taken out of it.
Numbered(m, r, list) ==
  /\ \A c, d \in m : r[c] = r[d] => c = d
  /\ \A i, j \in DOMAIN list : i < j => r[list[i]] < r[list[j]]

\* From c to x the order goes on, and passes over no lasting member.
Onward(m, lasting, r, c, x) ==
  /\ x # Nil => x \in m /\ r[c] < r[x]
  /\ \A d \in lasting : r[c] < r[d] => x # Nil /\ r[x] <= r[d]

\* What a walk at this node has called lies behind it, once, and with it
\* every lasting member.
Behind(m, lasting, r, node, fn, called) ==
  /\ node # Nil => node \in m
  /\ \A i \in DOMAIN called :
       /\ called[i] \in m
       /\ node # Nil => r[called[i]] <= r[node]
       /\ node # Nil /\ fn = Nil => r[called[i]] < r[node]
  /\ \A i, j \in DOMAIN called : called[i] = called[j] => i = j
  /\ \A d \in lasting :
       node = Nil \/ r[d] < r[node] \/ (d = node /\ fn # Nil)
         => \E i \in DOMAIN called : called[i] = d

Ranked(r) ==
  /\ Numbered(Members, r, callbacks[item])
  /\ \A c \in Members \cap freed : Onward(Members, Lasting, r, c, stale[c])
  /\ Behind(Members, Lasting, r, cb_node, running, ran)

Bound(r, k) == \A c \in Cell : r[c] < k

WalkInv ==
  /\ Nodes(item) = Members \ freed
  /\ freed \cap Allocated = {}
  /\ Members \subseteq Cell
  /\ \E r \in [Cell -> Nat], k \in Nat : Bound(r, k) /\ Ranked(r)

\* Between two walks nothing is remembered.
Rest ==
  /\ cb_node = Nil /\ ran = <<>> /\ ~reused
  /\ began = {} /\ added = {} /\ freed = {}

IInv ==
  /\ TypeOK
  /\ Memory
  /\ running # Nil => cb_node # Nil
  /\ item = Nil => Rest
  /\ item # Nil /\ ~reused => WalkInv

(***************************************************************************)
(* Lists of nodes                                                          *)
(***************************************************************************)

\* The elements of a longer sequence.
LEMMA AppendElements ==
  ASSUME NEW S, NEW q \in Seq(S), NEW e \in S
  PROVE  /\ Append(q, e) \in Seq(S) /\ Len(Append(q, e)) = Len(q) + 1
         /\ DOMAIN q = 1..Len(q) /\ DOMAIN Append(q, e) = 1..(Len(q) + 1)
         /\ \A i \in 1..Len(q) : Append(q, e)[i] = q[i]
         /\ Append(q, e)[Len(q) + 1] = e
         /\ Len(q) \in Nat
OBVIOUS

\* Taking the i-th element out moves those behind it.
LEMMA WithoutElements ==
  ASSUME NEW S, NEW list \in Seq(S), NEW i \in DOMAIN list
  PROVE  /\ Without(list, i) \in Seq(S)
         /\ DOMAIN list = 1..Len(list) /\ Len(list) \in Nat
         /\ DOMAIN Without(list, i) = 1..(Len(list) - 1)
         /\ \A k \in 1..(Len(list) - 1) :
              Without(list, i)[k] = IF k < i THEN list[k] ELSE list[k + 1]
<1> DEFINE before == SubSeq(list, 1, i - 1)
           behind == SubSeq(list, i + 1, Len(list))
<1>1. i \in 1..Len(list) /\ Len(list) \in Nat
  OBVIOUS
<1>2. /\ before \in Seq(S) /\ Len(before) = i - 1
      /\ \A k \in 1..(i - 1) : before[k] = list[k]
  BY <1>1
<1>3. /\ behind \in Seq(S) /\ Len(behind) = Len(list) - i
      /\ \A k \in 1..(Len(list) - i) : behind[k] = list[i + k]
  BY <1>1
<1> HIDE DEF before, behind
<1>4. /\ before \o behind \in Seq(S) /\ Len(before \o behind) = Len(list) - 1
      /\ \A k \in 1..(Len(list) - 1) :
           (before \o behind)[k] = IF k <= Len(before) THEN before[k]
                                   ELSE behind[k - Len(before)]
  BY <1>1, <1>2, <1>3, SMTT(30)
<1>5. ASSUME NEW k \in 1..(Len(list) - 1)
      PROVE  (before \o behind)[k] = IF k < i THEN list[k] ELSE list[k + 1]
  <2>1. CASE k < i
    <3>1. k \in 1..(i - 1) /\ k <= Len(before)
      BY <1>1, <1>2, <2>1
    <3> QED  BY <1>2, <1>4, <2>1, <3>1
  <2>2. CASE ~(k < i)
    <3>1. k - Len(before) \in 1..(Len(list) - i) /\ ~(k <= Len(before))
      BY <1>1, <1>2, <2>2
    <3>2. behind[k - Len(before)] = list[i + (k - Len(before))]
      BY <1>3, <3>1
    <3>3. i + (k - Len(before)) = k + 1
      BY <1>1, <1>2
    <3> QED  BY <1>4, <2>2, <3>1, <3>2, <3>3
  <2> QED  BY <2>1, <2>2
<1>6. Without(list, i) = before \o behind
  BY DEF Without, before, behind
<1> QED  BY <1>1, <1>4, <1>5, <1>6

\* A list of a topic.
LEMMA ListType ==
  ASSUME TypeOK, NEW t \in Topic
  PROVE  /\ callbacks[t] \in Seq(Cell) /\ DOMAIN callbacks[t] = 1..Len(callbacks[t])
         /\ Len(callbacks[t]) \in Nat
         /\ \A i \in DOMAIN callbacks[t] : callbacks[t][i] \in Cell /\ callbacks[t][i] # Nil
         /\ Nodes(t) \subseteq Cell /\ Nodes(t) \subseteq Allocated
<1>1. callbacks[t] \in Seq(Cell)
  BY DEF TypeOK
<1>2. /\ DOMAIN callbacks[t] = 1..Len(callbacks[t]) /\ Len(callbacks[t]) \in Nat
      /\ \A i \in DOMAIN callbacks[t] : callbacks[t][i] \in Cell
  BY <1>1
<1>3. Nodes(t) \subseteq Cell /\ Nodes(t) \subseteq Allocated
  BY <1>2 DEF Nodes, Allocated
<1> QED  BY <1>1, <1>2, <1>3, NilAssumption

\* What follows the i-th node of a topic.
LEMMA NextNode ==
  ASSUME TypeOK, NEW t \in Topic, NEW i \in DOMAIN callbacks[t]
  PROVE  /\ NextAt(t, i) \in Cell \cup {Nil}
         /\ NextAt(t, i) # Nil <=> i < Len(callbacks[t])
         /\ i < Len(callbacks[t]) => /\ i + 1 \in DOMAIN callbacks[t]
                                     /\ NextAt(t, i) = callbacks[t][i + 1]
<1>1. i < Len(callbacks[t]) => i + 1 \in DOMAIN callbacks[t]
  BY ListType
<1> QED  BY <1>1, ListType DEF NextAt

\* Memory is read as the topic has it while the node is allocated.
LEMMA FollowingNode ==
  ASSUME TypeOK, Memory, NEW t \in Topic, NEW i \in DOMAIN callbacks[t]
  PROVE  Following(callbacks[t][i]) = NextAt(t, i)
<1> DEFINE c == callbacks[t][i]
           T == CHOOSE u \in Topic : c \in Nodes(u)
           I == CHOOSE j \in DOMAIN callbacks[T] : callbacks[T][j] = c
<1>1. c \in Nodes(t) /\ c \in Allocated
  BY ListType DEF Nodes
<1>2. T = t
  BY <1>1 DEF Memory
<1>3. I = i
  BY <1>2 DEF Memory
<1> QED  BY <1>1, <1>2, <1>3 DEF Following

\* Wherever the walk stands, what it reads next is a node or nothing.
LEMMA FollowingType ==
  ASSUME TypeOK, NEW c \in Cell
  PROVE  Following(c) \in Cell \cup {Nil}
<1>1. CASE c \in Allocated
  <2> DEFINE T == CHOOSE u \in Topic : c \in Nodes(u)
             I == CHOOSE j \in DOMAIN callbacks[T] : callbacks[T][j] = c
  <2>1. T \in Topic /\ c \in Nodes(T)
    BY <1>1 DEF Allocated
  <2>2. I \in DOMAIN callbacks[T]
    BY <2>1 DEF Nodes
  <2>3. Following(c) = NextAt(T, I)
    BY <1>1 DEF Following
  <2> HIDE DEF T, I
  <2> QED  BY <2>1, <2>2, <2>3, NextNode
<1>2. CASE c \notin Allocated
  BY <1>2 DEF Following, TypeOK
<1> QED  BY <1>1, <1>2
-----------------------------------------------------------------------------
(* Types.                                                                  *)

\* Every step keeps the types; the callback of a walk runs at a node.
LEMMA TypeStep == TypeOK /\ (running # Nil => cb_node # Nil) /\ [Next]_vars => TypeOK'
<1> SUFFICES ASSUME TypeOK, running # Nil => cb_node # Nil, [Next]_vars
             PROVE  TypeOK'
  OBVIOUS
<1> USE DEF memory, walk, since
<1>1. ASSUME NEW t \in Topic, NEW f \in Callback, Sub(t, f)
      PROVE  TypeOK'
  <2>1. CASE UNCHANGED vars
    BY <2>1 DEF TypeOK, vars
  <2>2. CASE NewNode(t, f)
    <3>1. PICK c \in Free :
            /\ callbacks' = [callbacks EXCEPT ![t] = Append(callbacks[t], c)]
            /\ callback_fn' = [callback_fn EXCEPT ![c] = f]
            /\ stale' = [stale EXCEPT ![c] = Nil]
            /\ added' = IF item = t THEN added \cup {c} ELSE added
            /\ reused' = (reused \/ c \in freed)
            /\ UNCHANGED <<netQueue, walk, began, freed>>
      BY <2>2 DEF NewNode
    <3>2. c \in Cell
      BY DEF Free
    <3>3. callbacks' \in [Topic -> Seq(Cell)]
      <4>1. Append(callbacks[t], c) \in Seq(Cell)
        BY <3>2, ListType, AppendElements
      <4> QED  BY <3>1, <4>1 DEF TypeOK
    <3>4. callback_fn' \in [Cell -> Callback \cup {Nil}] /\ stale' \in [Cell -> Cell \cup {Nil}]
      BY <3>1, <3>2 DEF TypeOK
    <3>5. added' \subseteq Cell
      BY <3>1, <3>2 DEF TypeOK
    <3>6. reused' \in BOOLEAN
      BY <3>1 DEF TypeOK
    <3>7. UNCHANGED <<netQueue, item, cb_node, running, ran, began, freed>>
      BY <3>1
    <3> QED  BY <3>3, <3>4, <3>5, <3>6, <3>7 DEF TypeOK
  <2> QED  BY <1>1, <2>1, <2>2 DEF Sub
<1>2. ASSUME NEW t \in Topic, NEW f \in Callback, Unsub(t, f)
      PROVE  TypeOK'
  <2>1. PICK i \in DOMAIN callbacks[t] :
          /\ callbacks' = [callbacks EXCEPT ![t] = Without(callbacks[t], i)]
          /\ \/ /\ stale' = [stale EXCEPT ![callbacks[t][i]] = NextAt(t, i)]
                /\ freed' = freed \cup {callbacks[t][i]}
                /\ UNCHANGED callback_fn
             \/ /\ callback_fn' = [callback_fn EXCEPT ![callbacks[t][i]] = Nil]
                /\ UNCHANGED <<stale, freed>>
          /\ UNCHANGED <<netQueue, walk, began, added, reused>>
    BY <1>2 DEF Unsub
  <2> DEFINE c == callbacks[t][i]
  <2>2. c \in Cell /\ NextAt(t, i) \in Cell \cup {Nil}
    BY ListType, NextNode
  <2>3. callbacks' \in [Topic -> Seq(Cell)]
    <3>1. Without(callbacks[t], i) \in Seq(Cell)
      BY ListType, WithoutElements
    <3> QED  BY <2>1, <3>1 DEF TypeOK
  <2>4. /\ callback_fn' \in [Cell -> Callback \cup {Nil}]
        /\ stale' \in [Cell -> Cell \cup {Nil}]
        /\ freed' \subseteq Cell
    BY <2>1, <2>2 DEF TypeOK
  <2>5. UNCHANGED <<netQueue, item, cb_node, running, ran, began, added, reused>>
    BY <2>1
  <2> QED  BY <2>3, <2>4, <2>5 DEF TypeOK
<1>3. ASSUME NEW t \in Topic, Publish(t) \/ Arrives(t)
      PROVE  TypeOK'
  <2>1. Enqueued(t) /\ UNCHANGED <<memory, walk, since>>
    BY <1>3 DEF Publish, Arrives
  <2>2. netQueue' \in Seq(Topic) /\ Len(netQueue') <= QueueLength
    BY <2>1, QueueAssumption DEF Enqueued, TypeOK
  <2> QED  BY <2>1, <2>2 DEF TypeOK
<1>4. CASE Take
  <2>1. /\ netQueue' \in Seq(Topic) /\ Len(netQueue') <= QueueLength
        /\ item' \in Topic
    BY <1>4, QueueAssumption DEF Take, TypeOK
  <2>2. cb_node' \in Cell \cup {Nil} /\ began' \subseteq Cell
    <3>1. First(item') \in Cell \cup {Nil}
      <4>1. callbacks[item'] \in Seq(Cell)
        BY <2>1, ListType
      <4> QED  BY <4>1 DEF First, Subscribed
    <3> QED  BY <1>4, <2>1, <3>1, ListType DEF Take
  <2>3. UNCHANGED <<callbacks, callback_fn, stale, running, ran, added, freed, reused>>
    BY <1>4 DEF Take
  <2> QED  BY <2>1, <2>2, <2>3 DEF TypeOK
<1>5. CASE Call
  <2>1. ran' \in Seq(Cell) /\ running' \in Callback \cup {Nil}
    BY <1>5 DEF Call, TypeOK
  <2>2. UNCHANGED <<memory, netQueue, item, cb_node, since>>
    BY <1>5 DEF Call
  <2> QED  BY <2>1, <2>2 DEF TypeOK
<1>6. CASE Return
  <2>1. cb_node' \in Cell \cup {Nil} /\ running' = Nil
    BY <1>6, FollowingType DEF Return, TypeOK
  <2>2. UNCHANGED <<memory, netQueue, item, ran, since>>
    BY <1>6 DEF Return
  <2> QED  BY <2>1, <2>2 DEF TypeOK
<1>7. CASE Finish
  <2>1. callback_fn' \in [Cell -> Callback \cup {Nil}] /\ stale' \in [Cell -> Cell \cup {Nil}]
    BY <1>7 DEF Finish, TypeOK
  <2>2. /\ item' = Nil /\ ran' = <<>> /\ began' = {} /\ added' = {} /\ freed' = {}
        /\ reused' = FALSE /\ UNCHANGED <<callbacks, netQueue, cb_node, running>>
    BY <1>7 DEF Finish
  <2>3. ran' \in Seq(Cell)
    BY <2>2
  <2>4. reused' \in BOOLEAN
    BY <2>2, Zenon
  <2>5. /\ item' \in Topic \cup {Nil}
        /\ began' \subseteq Cell /\ added' \subseteq Cell /\ freed' \subseteq Cell
    BY <2>2
  <2> QED  BY <2>1, <2>2, <2>3, <2>4, <2>5 DEF TypeOK
<1>8. CASE UNCHANGED vars
  BY <1>8 DEF TypeOK, vars
<1> QED  BY <1>1, <1>2, <1>3, <1>4, <1>5, <1>6, <1>7, <1>8 DEF Next
-----------------------------------------------------------------------------
(* Memory.                                                                 *)

\* A subscription that allocates the node c, and no other place has it.
Allocates(t, f, c) ==
  /\ callbacks' = [callbacks EXCEPT ![t] = Append(callbacks[t], c)]
  /\ callback_fn' = [callback_fn EXCEPT ![c] = f]
  /\ stale' = [stale EXCEPT ![c] = Nil]
  /\ added' = IF item = t THEN added \cup {c} ELSE added
  /\ reused' = (reused \/ c \in freed)
  /\ UNCHANGED <<netQueue, walk, began, freed>>

\* It is a node of that topic from then on, and of no other.
LEMMA NewNodes ==
  ASSUME TypeOK, NEW t \in Topic, NEW f \in Callback, NEW c \in Free, Allocates(t, f, c)
  PROVE  /\ callbacks'[t] = Append(callbacks[t], c)
         /\ Nodes(t)' = Nodes(t) \cup {c}
         /\ \A u \in Topic \ {t} : callbacks'[u] = callbacks[u] /\ Nodes(u)' = Nodes(u)
         /\ Allocated' = Allocated \cup {c}
<1>1. c \in Cell
  BY DEF Free
<1>2. callbacks'[t] = Append(callbacks[t], c)
  BY DEF Allocates, TypeOK
<1>3. \A u \in Topic \ {t} : callbacks'[u] = callbacks[u]
  BY DEF Allocates, TypeOK
<1>4. Nodes(t)' = Nodes(t) \cup {c}
  <2> DEFINE q == callbacks[t]
  <2>1. /\ DOMAIN q = 1..Len(q) /\ DOMAIN Append(q, c) = 1..(Len(q) + 1) /\ Len(q) \in Nat
        /\ \A i \in 1..Len(q) : Append(q, c)[i] = q[i]
        /\ Append(q, c)[Len(q) + 1] = c
    BY <1>1, ListType, AppendElements
  <2>2. \A i \in 1..(Len(q) + 1) : i \in 1..Len(q) \/ i = Len(q) + 1
    BY <2>1
  <2>3. \A i \in 1..Len(q) : i \in 1..(Len(q) + 1)
    BY <2>1
  <2>4. Len(q) + 1 \in 1..(Len(q) + 1)
    BY <2>1
  <2> QED  BY <1>2, <2>1, <2>2, <2>3, <2>4 DEF Nodes
<1>5. \A u \in Topic \ {t} : Nodes(u)' = Nodes(u)
  BY <1>3 DEF Nodes
<1>6. Allocated' = Allocated \cup {c}
  BY <1>4, <1>5 DEF Allocated
<1> QED  BY <1>2, <1>3, <1>4, <1>5, <1>6

\* A subscription that is taken back, at the i-th node of the topic.
Frees(t, i) ==
  /\ callbacks' = [callbacks EXCEPT ![t] = Without(callbacks[t], i)]
  /\ \/ /\ item # Nil
        /\ stale' = [stale EXCEPT ![callbacks[t][i]] = NextAt(t, i)]
        /\ freed' = freed \cup {callbacks[t][i]}
        /\ UNCHANGED callback_fn
     \/ /\ item = Nil
        /\ callback_fn' = [callback_fn EXCEPT ![callbacks[t][i]] = Nil]
        /\ UNCHANGED <<stale, freed>>
  /\ UNCHANGED <<netQueue, walk, began, added, reused>>

\* The node is gone from its topic, and with it from all topics.
LEMMA GoneNodes ==
  ASSUME TypeOK, Memory, NEW t \in Topic, NEW i \in DOMAIN callbacks[t], Frees(t, i)
  PROVE  /\ callbacks'[t] = Without(callbacks[t], i)
         /\ Nodes(t)' = Nodes(t) \ {callbacks[t][i]}
         /\ \A u \in Topic \ {t} : callbacks'[u] = callbacks[u] /\ Nodes(u)' = Nodes(u)
         /\ Allocated' = Allocated \ {callbacks[t][i]}
<1> DEFINE c == callbacks[t][i]
           q == callbacks[t]
           w == Without(callbacks[t], i)
<1>1. callbacks'[t] = w
  BY DEF Frees, TypeOK
<1>2. \A u \in Topic \ {t} : callbacks'[u] = callbacks[u]
  BY DEF Frees, TypeOK
<1>3. /\ DOMAIN q = 1..Len(q) /\ Len(q) \in Nat /\ DOMAIN w = 1..(Len(q) - 1)
      /\ \A k \in 1..(Len(q) - 1) : w[k] = IF k < i THEN q[k] ELSE q[k + 1]
  BY ListType, WithoutElements
<1>4. Nodes(t)' = Nodes(t) \ {c}
  <2>1. ASSUME NEW k \in DOMAIN w PROVE w[k] \in Nodes(t) \ {c}
    <3>1. PICK j \in DOMAIN q : w[k] = q[j] /\ j # i
      <4>1. CASE k < i
        <5>1. k \in DOMAIN q /\ w[k] = q[k]
          BY <1>3, <2>1, <4>1
        <5> QED  BY <1>3, <4>1, <5>1
      <4>2. CASE ~(k < i)
        <5>1. k + 1 \in DOMAIN q /\ w[k] = q[k + 1] /\ k + 1 # i
          BY <1>3, <2>1, <4>2
        <5> QED  BY <5>1
      <4> QED  BY <4>1, <4>2
    <3> QED  BY <3>1 DEF Memory, Nodes
  <2>2. ASSUME NEW j \in DOMAIN q, q[j] # c PROVE \E k \in DOMAIN w : w[k] = q[j]
    <3>1. CASE j < i
      <4>1. j \in DOMAIN w /\ w[j] = q[j]
        BY <1>3, <2>2, <3>1
      <4> QED  BY <4>1
    <3>2. CASE ~(j < i)
      <4>1. j > i /\ j - 1 \in 1..(Len(q) - 1) /\ ~(j - 1 < i)
        BY <1>3, <2>2, <3>2
      <4>2. w[j - 1] = q[(j - 1) + 1]
        BY <1>3, <4>1
      <4>3. (j - 1) + 1 = j
        BY <1>3
      <4> QED  BY <1>3, <4>1, <4>2, <4>3
    <3> QED  BY <3>1, <3>2
  <2>3. Nodes(t)' = {w[k] : k \in DOMAIN w} /\ Nodes(t) = {q[k] : k \in DOMAIN q}
    BY <1>1 DEF Nodes
  <2> HIDE DEF q, w, c
  <2> QED  BY <2>1, <2>2, <2>3
<1>5. \A u \in Topic \ {t} : Nodes(u)' = Nodes(u)
  BY <1>2 DEF Nodes
<1>6. c \in Nodes(t)
  BY DEF Nodes
<1>7. \A u \in Topic \ {t} : c \notin Nodes(u)
  BY <1>6 DEF Memory
<1>8. Allocated' = Allocated \ {c}
  <2>1. Allocated' = UNION {Nodes(u)' : u \in Topic}
    BY DEF Allocated
  <2> HIDE DEF c
  <2> QED  BY <1>4, <1>5, <1>7, <2>1 DEF Allocated
<1> QED  BY <1>1, <1>2, <1>4, <1>5, <1>8

\* No step puts a node in two places.
LEMMA MemoryStep ==
  TypeOK /\ Memory /\ (item = Nil => freed = {}) /\ [Next]_vars => Memory'
<1> SUFFICES ASSUME TypeOK, Memory, item = Nil => freed = {}, [Next]_vars
             PROVE  Memory'
  OBVIOUS
<1> USE DEF memory, walk, since
<1>1. ASSUME NEW t \in Topic, NEW f \in Callback, NEW c \in Free, Allocates(t, f, c)
      PROVE  Memory'
  <2> DEFINE q == callbacks[t]
  <2>1. c \in Cell /\ c \notin Allocated
    BY DEF Free
  <2>2. /\ callbacks'[t] = Append(q, c) /\ Nodes(t)' = Nodes(t) \cup {c}
        /\ \A u \in Topic \ {t} : callbacks'[u] = callbacks[u] /\ Nodes(u)' = Nodes(u)
        /\ Allocated' = Allocated \cup {c}
    BY <1>1, NewNodes
  <2>3. /\ DOMAIN q = 1..Len(q) /\ DOMAIN Append(q, c) = 1..(Len(q) + 1) /\ Len(q) \in Nat
        /\ \A i \in 1..Len(q) : Append(q, c)[i] = q[i]
        /\ Append(q, c)[Len(q) + 1] = c
    BY <2>1, ListType, AppendElements
  <2>4. \A i \in 1..Len(q) : q[i] # c
    BY <2>1, <2>3, ListType DEF Nodes
  <2>5. ASSUME NEW u \in Topic, NEW i \in DOMAIN callbacks'[u], NEW j \in DOMAIN callbacks'[u],
               callbacks'[u][i] = callbacks'[u][j]
        PROVE  i = j
    <3>1. CASE u # t
      BY <2>2, <2>5, <3>1 DEF Memory
    <3>2. CASE u = t
      <4>1. i \in 1..(Len(q) + 1) /\ j \in 1..(Len(q) + 1)
        BY <2>2, <2>3, <2>5, <3>2
      <4>2. Append(q, c)[i] = Append(q, c)[j]
        BY <2>2, <2>5, <3>2
      <4>3. CASE i \in 1..Len(q) /\ j \in 1..Len(q)
        BY <2>3, <4>2, <4>3 DEF Memory
      <4>4. CASE i = Len(q) + 1 \/ j = Len(q) + 1
        BY <2>3, <2>4, <4>1, <4>2, <4>4
      <4> QED  BY <2>3, <4>1, <4>3, <4>4
    <3> QED  BY <3>1, <3>2
  <2>6. ASSUME NEW u \in Topic, NEW v \in Topic, u # v
        PROVE  Nodes(u)' \cap Nodes(v)' = {}
    BY <2>1, <2>2, <2>6 DEF Memory, Allocated
  <2>7. \A d \in Allocated' \cup freed' : callback_fn'[d] \in Callback
    <3>1. callback_fn' = [callback_fn EXCEPT ![c] = f] /\ freed' = freed
      BY <1>1 DEF Allocates
    <3>2. freed \subseteq Cell /\ Allocated \subseteq Cell
      BY ListType DEF TypeOK, Allocated
    <3> QED  BY <2>1, <2>2, <3>1, <3>2 DEF Memory, TypeOK
  <2> QED  BY <2>5, <2>6, <2>7 DEF Memory
<1>2. ASSUME NEW t \in Topic, NEW i \in DOMAIN callbacks[t], Frees(t, i)
      PROVE  Memory'
  <2> DEFINE q == callbacks[t]
             w == Without(callbacks[t], i)
             c == callbacks[t][i]
  <2>1. /\ callbacks'[t] = w
        /\ \A u \in Topic \ {t} : callbacks'[u] = callbacks[u] /\ Nodes(u)' = Nodes(u)
        /\ Nodes(t)' = Nodes(t) \ {c} /\ Allocated' = Allocated \ {c}
    BY <1>2, GoneNodes
  <2>2. /\ DOMAIN q = 1..Len(q) /\ Len(q) \in Nat /\ DOMAIN w = 1..(Len(q) - 1)
        /\ \A k \in 1..(Len(q) - 1) : w[k] = IF k < i THEN q[k] ELSE q[k + 1]
    BY ListType, WithoutElements
  <2>3. ASSUME NEW u \in Topic, NEW j \in DOMAIN callbacks'[u], NEW k \in DOMAIN callbacks'[u],
               callbacks'[u][j] = callbacks'[u][k]
        PROVE  j = k
    <3>1. CASE u # t
      BY <2>1, <2>3, <3>1 DEF Memory
    <3>2. CASE u = t
      <4> DEFINE to(l) == IF l < i THEN l ELSE l + 1
      <4>1. j \in 1..(Len(q) - 1) /\ k \in 1..(Len(q) - 1) /\ w[j] = w[k]
        BY <2>1, <2>2, <2>3, <3>2
      <4>2. /\ to(j) \in DOMAIN q /\ to(k) \in DOMAIN q
            /\ w[j] = q[to(j)] /\ w[k] = q[to(k)]
        <5>1. ASSUME NEW l \in 1..(Len(q) - 1) PROVE to(l) \in DOMAIN q /\ w[l] = q[to(l)]
          <6>1. i \in Nat /\ l \in Nat
            BY <2>2
          <6>2. CASE l < i
            BY <2>2, <6>1, <6>2
          <6>3. CASE ~(l < i)
            BY <2>2, <6>1, <6>3
          <6> QED  BY <6>2, <6>3
        <5> HIDE DEF to, q, w
        <5> QED  BY <4>1, <5>1
      <4>3. to(j) = to(k)
        BY <4>1, <4>2 DEF Memory
      <4> QED  BY <2>2, <4>1, <4>3
    <3> QED  BY <3>1, <3>2
  <2>4. ASSUME NEW u \in Topic, NEW v \in Topic, u # v
        PROVE  Nodes(u)' \cap Nodes(v)' = {}
    BY <2>1, <2>4 DEF Memory
  <2>5. ASSUME NEW d \in Allocated' \cup freed'
        PROVE  callback_fn'[d] \in Callback
    <3>1. c \in Allocated
      BY ListType DEF Nodes
    <3>2. CASE item # Nil
      BY <1>2, <2>1, <3>1, <3>2 DEF Frees, Memory
    <3>3. CASE item = Nil /\ d # c
      <4>1. callback_fn' = [callback_fn EXCEPT ![c] = Nil] /\ freed' = freed
        BY <1>2, <3>3 DEF Frees
      <4>2. d \in Cell
        BY <2>1, <4>1, ListType DEF Allocated, TypeOK
      <4>3. callback_fn'[d] = callback_fn[d]
        BY <3>3, <4>1, <4>2 DEF TypeOK
      <4>4. d \in Allocated \cup freed
        BY <2>1, <4>1
      <4> QED  BY <4>3, <4>4 DEF Memory
    <3>4. CASE item = Nil /\ d = c
      <4>1. d \in freed
        BY <1>2, <2>1, <3>4 DEF Frees
      <4> QED  BY <3>4, <4>1
    <3> QED  BY <3>2, <3>3, <3>4
  <2> QED  BY <2>3, <2>4, <2>5 DEF Memory
<1>3. CASE UNCHANGED <<callbacks, callback_fn, freed>>
  BY <1>3 DEF Memory, Allocated, Nodes
<1>4. CASE Finish
  <2>1. callbacks' = callbacks /\ freed' = {}
        /\ \A c \in Allocated : callback_fn'[c] = callback_fn[c]
    <3>1. Allocated \subseteq Cell
      BY ListType DEF Allocated
    <3> QED  BY <1>4, <3>1 DEF Finish
  <2>2. Allocated' = Allocated /\ \A t \in Topic : Nodes(t)' = Nodes(t)
    BY <2>1 DEF Allocated, Nodes
  <2> QED  BY <2>1, <2>2 DEF Memory
<1> QED  BY <1>1, <1>2, <1>3, <1>4
  DEF Next, vars, Sub, NewNode, Allocates, Unsub, Frees, Publish, Arrives, Take, Call, Return
-----------------------------------------------------------------------------
(* The walk.                                                               *)

\* New numbers for new members, and fewer lasting ones, change nothing.
LEMMA OnwardKept ==
  ASSUME NEW m, NEW lasting, NEW r, NEW c, NEW x, Onward(m, lasting, r, c, x),
         NEW m2, NEW lasting2, NEW r2, m \subseteq m2, lasting2 \subseteq lasting,
         lasting \subseteq m, c \in m, \A d \in m : r2[d] = r[d]
  PROVE  Onward(m2, lasting2, r2, c, x)
BY DEF Onward

\* The same of what lies behind the walk.
LEMMA BehindKept ==
  ASSUME NEW m, NEW lasting, NEW r, NEW node, NEW fn, NEW called,
         Behind(m, lasting, r, node, fn, called),
         NEW m2, NEW lasting2, NEW r2, m \subseteq m2, lasting2 \subseteq lasting,
         lasting \subseteq m, \A d \in m : r2[d] = r[d]
  PROVE  Behind(m2, lasting2, r2, node, fn, called)
BY DEF Behind

\* The walk goes on.
LEMMA BehindNext ==
  ASSUME NEW m \in SUBSET Cell, NEW lasting \in SUBSET m, NEW r \in [Cell -> Nat],
         NEW c \in m, NEW x, NEW fn, NEW called,
         Onward(m, lasting, r, c, x), Behind(m, lasting, r, c, fn, called),
         \A d \in m : r[c] = r[d] => c = d, fn # Nil, Nil \notin Cell
  PROVE  Behind(m, lasting, r, x, Nil, called)
<1>1. c # Nil /\ r[c] \in Nat /\ \A d \in m : r[d] \in Nat
  OBVIOUS
<1>2. \A i \in DOMAIN called :
        called[i] \in m /\ (x # Nil => r[called[i]] <= r[x] /\ r[called[i]] < r[x])
  BY <1>1 DEF Onward, Behind
<1>3. ASSUME NEW d \in lasting, x = Nil \/ r[d] < r[x]
      PROVE  \E i \in DOMAIN called : called[i] = d
  <2>1. d \in m /\ r[d] \in Nat
    BY <1>1
  <2>2. ~(r[c] < r[d])
    <3>1. x # Nil => r[x] \in Nat
      BY <1>1 DEF Onward
    <3> QED  BY <1>3, <2>1, <3>1 DEF Onward
  <2>3. r[d] < r[c] \/ r[d] = r[c]
    BY <1>1, <2>1, <2>2
  <2>4. r[d] < r[c] \/ d = c
    BY <2>1, <2>3
  <2> QED  BY <2>4 DEF Behind
<1>4. x # Nil => x \in m
  BY DEF Onward
<1>5. \A i, j \in DOMAIN called : called[i] = called[j] => i = j
  BY DEF Behind
<1> QED  BY <1>2, <1>3, <1>4, <1>5 DEF Behind

\* In the list the next node is onward.
LEMMA NextOnward ==
  ASSUME TypeOK, item \in Topic, Nodes(item) = Members \ freed, Members \subseteq Cell,
         NEW r \in [Cell -> Nat],
         Numbered(Members, r, callbacks[item]), NEW i \in DOMAIN callbacks[item]
  PROVE  Onward(Members, Lasting, r, callbacks[item][i], NextAt(item, i))
<1> DEFINE q == callbacks[item]
           c == callbacks[item][i]
           x == NextAt(item, i)
<1>1. /\ DOMAIN q = 1..Len(q) /\ Len(q) \in Nat
      /\ \A j \in DOMAIN q : q[j] \in Members /\ q[j] \in Cell /\ r[q[j]] \in Nat
  BY ListType DEF Nodes
<1>2. /\ x # Nil <=> i < Len(q)
      /\ i < Len(q) => i + 1 \in DOMAIN q /\ x = q[i + 1]
  BY NextNode
<1>3. x # Nil => x \in Members /\ r[c] < r[x]
  BY <1>1, <1>2 DEF Numbered
<1>4. ASSUME NEW d \in Lasting, r[c] < r[d]
      PROVE  x # Nil /\ r[x] <= r[d]
  <2>1. PICK j \in DOMAIN q : d = q[j]
    BY DEF Lasting, Members, Nodes
  <2>2. i < j
    <3>1. CASE j < i
      BY <1>1, <1>4, <2>1, <3>1 DEF Numbered
    <3>2. CASE j = i
      BY <1>1, <1>4, <2>1, <3>2
    <3> QED  BY <1>1, <3>1, <3>2
  <2>3. i < Len(q)
    BY <1>1, <2>2
  <2>4. j = i + 1 \/ i + 1 < j
    BY <1>1, <2>2
  <2>5. r[q[i + 1]] <= r[q[j]]
    BY <1>1, <1>2, <2>3, <2>4 DEF Numbered
  <2> QED  BY <1>2, <2>1, <2>3, <2>5
<1> QED  BY <1>3, <1>4 DEF Onward

\* A subscription while a walk is under way.
LEMMA WalkSub ==
  ASSUME TypeOK, Memory, WalkInv, item \in Topic,
         NEW t \in Topic, NEW f \in Callback, NEW c \in Free, Allocates(t, f, c), c \notin freed
  PROVE  WalkInv'
<1> USE DEF walk
<1> DEFINE q == callbacks[item]
<1>1. c \in Cell /\ c \notin Allocated /\ c \notin Members /\ Nodes(item) \subseteq Allocated
  <2>1. Nodes(item) \subseteq Allocated
    BY ListType
  <2> QED  BY <2>1 DEF Free, WalkInv
<1>2. /\ callbacks'[t] = Append(callbacks[t], c) /\ Nodes(t)' = Nodes(t) \cup {c}
      /\ \A u \in Topic \ {t} : callbacks'[u] = callbacks[u] /\ Nodes(u)' = Nodes(u)
      /\ Allocated' = Allocated \cup {c}
  BY NewNodes
<1>3. /\ began' = began /\ freed' = freed /\ item' = item /\ cb_node' = cb_node
      /\ running' = running /\ ran' = ran
      /\ added' = IF item = t THEN added \cup {c} ELSE added
      /\ stale' = [stale EXCEPT ![c] = Nil]
  BY DEF Allocates
<1>4. /\ Members \subseteq Members' /\ Members' \subseteq Members \cup {c}
      /\ Lasting' = Lasting /\ Lasting \subseteq Members
      /\ c \in Members' <=> item = t
  BY <1>1, <1>3 DEF Members, Lasting
<1>5. Nodes(item)' = Members' \ freed'
  <2>1. Nodes(item)' = IF item = t THEN Nodes(item) \cup {c} ELSE Nodes(item)
    <3>1. CASE item = t
      <4>1. Nodes(item)' = Nodes(t)'
        BY <1>3, <3>1 DEF Nodes
      <4> QED  BY <1>2, <3>1, <4>1
    <3>2. CASE item # t
      <4>1. Nodes(item)' = Nodes(item)
        BY <1>2, <1>3, <3>2 DEF Nodes
      <4> QED  BY <3>2, <4>1
    <3> QED  BY <3>1, <3>2
  <2> QED  BY <1>1, <1>3, <1>4, <2>1 DEF WalkInv
<1>6. freed' \cap Allocated' = {} /\ Members' \subseteq Cell
  BY <1>1, <1>2, <1>3, <1>4 DEF WalkInv
<1>7. PICK r \in [Cell -> Nat], k \in Nat : Bound(r, k) /\ Ranked(r)
  BY DEF WalkInv
<1> DEFINE r2 == [r EXCEPT ![c] = k]
<1>8. /\ r2 \in [Cell -> Nat] /\ Bound(r2, k + 1) /\ r2[c] = k
      /\ \A d \in Members : r2[d] = r[d] /\ r[d] < k
  <2>1. r2 \in [Cell -> Nat] /\ r2[c] = k /\ \A d \in Cell \ {c} : r2[d] = r[d]
    BY <1>1
  <2>2. \A d \in Cell : r[d] < k /\ r[d] \in Nat
    BY <1>7 DEF Bound
  <2>3. \A d \in Cell : r2[d] < k + 1
    BY <2>1, <2>2
  <2> QED  BY <1>1, <2>1, <2>2, <2>3 DEF Bound, WalkInv
<1> HIDE DEF r2
<1>9. Numbered(Members', r2, callbacks'[item'])
  <2>1. \A a, b \in Members' : r2[a] = r2[b] => a = b
    <3>1. \A a \in Members : r[a] \in Nat /\ r2[a] = r[a] /\ r[a] < k
      BY <1>7, <1>8 DEF WalkInv
    <3>2. \A a, b \in Members : r[a] = r[b] => a = b
      BY <1>7 DEF Ranked, Numbered
    <3> QED  BY <1>4, <1>8, <3>1, <3>2
  <2>2. \A i \in DOMAIN q : q[i] \in Members
    BY DEF Nodes, WalkInv
  <2>3. \A i, j \in DOMAIN q : i < j => r2[q[i]] < r2[q[j]]
    BY <1>7, <1>8, <2>2 DEF Ranked, Numbered
  <2>4. CASE item = t
    <3>1. /\ DOMAIN q = 1..Len(q) /\ DOMAIN Append(q, c) = 1..(Len(q) + 1) /\ Len(q) \in Nat
          /\ \A i \in 1..Len(q) : Append(q, c)[i] = q[i]
          /\ Append(q, c)[Len(q) + 1] = c
      BY <1>1, ListType, AppendElements
    <3>2. ASSUME NEW i \in 1..(Len(q) + 1), NEW j \in 1..(Len(q) + 1), i < j
          PROVE  r2[Append(q, c)[i]] < r2[Append(q, c)[j]]
      <4>1. i \in 1..Len(q)
        BY <3>1, <3>2
      <4>2. CASE j = Len(q) + 1
        BY <1>8, <2>2, <3>1, <4>1, <4>2
      <4>3. CASE j # Len(q) + 1
        <5>1. j \in 1..Len(q)
          BY <3>1, <4>3
        <5> QED  BY <2>3, <3>1, <3>2, <4>1, <5>1
      <4> QED  BY <4>2, <4>3
    <3>3. callbacks'[item'] = Append(q, c)
      BY <1>2, <1>3, <2>4
    <3> HIDE DEF q
    <3> QED  BY <2>1, <3>1, <3>2, <3>3 DEF Numbered
  <2>5. CASE item # t
    <3>1. callbacks'[item'] = q
      BY <1>2, <1>3, <2>5
    <3> QED  BY <2>1, <2>3, <3>1 DEF Numbered
  <2> QED  BY <2>4, <2>5
<1>10. \A d \in Members : r2[d] = r[d]
  BY <1>8
<1>11. \A d \in Members' \cap freed' : Onward(Members', Lasting', r2, d, stale'[d])
  <2> SUFFICES ASSUME NEW d \in Members' \cap freed'
               PROVE  Onward(Members', Lasting', r2, d, stale'[d])
    OBVIOUS
  <2>1. d \in Members \cap freed /\ d # c /\ d \in Cell
    BY <1>3, <1>4, <1>6
  <2>2. stale'[d] = stale[d]
    BY <1>3, <2>1 DEF TypeOK
  <2>3. Onward(Members, Lasting, r, d, stale[d])
    BY <1>7, <2>1 DEF Ranked
  <2> QED  BY <1>4, <1>10, <2>1, <2>2, <2>3, OnwardKept
<1>12. Behind(Members', Lasting', r2, cb_node', running', ran')
  <2>1. Behind(Members, Lasting, r, cb_node, running, ran)
    BY <1>7 DEF Ranked
  <2>2. Behind(Members', Lasting', r2, cb_node, running, ran)
    BY <1>4, <1>10, <2>1, BehindKept
  <2> QED  BY <1>3, <2>2
<1>13. Ranked(r2)' /\ Bound(r2, k + 1)' /\ k + 1 \in Nat
  BY <1>8, <1>9, <1>11, <1>12 DEF Ranked, Bound
<1> QED  BY <1>5, <1>6, <1>8, <1>13 DEF WalkInv

\* A subscription that is taken back while a walk is under way.
LEMMA WalkUnsub ==
  ASSUME TypeOK, Memory, WalkInv, item \in Topic,
         NEW t \in Topic, NEW i \in DOMAIN callbacks[t], Frees(t, i)
  PROVE  WalkInv'
<1> USE DEF walk
<1> DEFINE c == callbacks[t][i]
           q == callbacks[item]
<1>1. /\ callbacks'[t] = Without(callbacks[t], i)
      /\ Nodes(t)' = Nodes(t) \ {c}
      /\ \A u \in Topic \ {t} : callbacks'[u] = callbacks[u] /\ Nodes(u)' = Nodes(u)
      /\ Allocated' = Allocated \ {c}
  BY GoneNodes
<1>2. /\ began' = began /\ added' = added /\ item' = item /\ cb_node' = cb_node
      /\ running' = running /\ ran' = ran /\ freed' = freed \cup {c}
      /\ stale' = [stale EXCEPT ![c] = NextAt(t, i)]
  BY NilAssumption DEF Frees
<1>3. c \in Nodes(t) /\ c \in Allocated /\ c \in Cell /\ c \notin freed
  <2>1. c \in Nodes(t) /\ c \in Allocated /\ c \in Cell
    BY ListType DEF Nodes
  <2> QED  BY <2>1 DEF WalkInv
<1>4. c \in Members <=> t = item
  <2>1. t = item => c \in Members
    BY <1>3 DEF WalkInv
  <2>2. t # item => c \notin Nodes(item)
    BY <1>3 DEF Memory
  <2> QED  BY <1>3, <2>1, <2>2 DEF WalkInv
<1>5. /\ Members' = Members /\ Lasting' \subseteq Lasting /\ Lasting \subseteq Members
      /\ Members \subseteq Cell
  BY <1>2 DEF Members, Lasting, WalkInv
<1>6. Nodes(item)' = Members' \ freed' /\ freed' \cap Allocated' = {} /\ Members' \subseteq Cell
  <2>1. Nodes(item)' = Nodes(item) \ {c}
    <3>1. CASE item = t
      <4>1. Nodes(item)' = Nodes(t)'
        BY <1>2, <3>1 DEF Nodes
      <4> QED  BY <1>1, <3>1, <4>1
    <3>2. CASE item # t
      <4>1. Nodes(item)' = Nodes(item)
        BY <1>1, <1>2, <3>2 DEF Nodes
      <4>2. c \notin Nodes(item)
        BY <1>3, <1>4, <3>2 DEF WalkInv
      <4> QED  BY <4>1, <4>2
    <3> QED  BY <3>1, <3>2
  <2> QED  BY <1>1, <1>2, <1>5, <2>1 DEF WalkInv
<1>7. PICK r \in [Cell -> Nat], k \in Nat : Bound(r, k) /\ Ranked(r)
  BY DEF WalkInv
<1>8. \A d \in Members : r[d] = r[d]
  OBVIOUS
<1>9. Numbered(Members', r, callbacks'[item'])
  <2>1. \A a, b \in Members' : r[a] = r[b] => a = b
    BY <1>5, <1>7 DEF Ranked, Numbered
  <2>2. \A j, l \in DOMAIN q : j < l => r[q[j]] < r[q[l]]
    BY <1>7 DEF Ranked, Numbered
  <2>3. CASE item = t
    <3> DEFINE w == Without(q, i)
               to(l) == IF l < i THEN l ELSE l + 1
    <3>1. /\ DOMAIN q = 1..Len(q) /\ Len(q) \in Nat /\ DOMAIN w = 1..(Len(q) - 1)
          /\ \A l \in 1..(Len(q) - 1) : w[l] = IF l < i THEN q[l] ELSE q[l + 1]
      BY <2>3, ListType, WithoutElements
    <3>2. i \in 1..Len(q)
      BY <2>3, <3>1
    <3>3. \A l \in DOMAIN w : to(l) \in DOMAIN q /\ w[l] = q[to(l)]
      <4> SUFFICES ASSUME NEW l \in DOMAIN w PROVE to(l) \in DOMAIN q /\ w[l] = q[to(l)]
        OBVIOUS
      <4>1. l \in Nat /\ i \in Nat /\ l \in 1..(Len(q) - 1)
        BY <3>1, <3>2
      <4> HIDE DEF w, q
      <4>2. CASE l < i
        BY <3>1, <3>2, <4>1, <4>2
      <4>3. CASE ~(l < i)
        BY <3>1, <3>2, <4>1, <4>3
      <4> QED  BY <4>2, <4>3
    <3>4. \A j, l \in DOMAIN w : j < l => to(j) < to(l)
      BY <3>1, <3>2
    <3>5. callbacks'[item'] = w
      BY <1>1, <1>2, <2>3
    <3> HIDE DEF w, q, to
    <3>6. \A j, l \in DOMAIN w : j < l => r[w[j]] < r[w[l]]
      BY <2>2, <3>3, <3>4
    <3> QED  BY <2>1, <3>5, <3>6 DEF Numbered
  <2>4. CASE item # t
    <3>1. callbacks'[item'] = q
      BY <1>1, <1>2, <2>4
    <3> QED  BY <2>1, <2>2, <3>1 DEF Numbered
  <2> QED  BY <2>3, <2>4
<1>10. \A d \in Members' \cap freed' : Onward(Members', Lasting', r, d, stale'[d])
  <2> SUFFICES ASSUME NEW d \in Members' \cap freed'
               PROVE  Onward(Members', Lasting', r, d, stale'[d])
    OBVIOUS
  <2>1. d \in Cell /\ d \in Members
    BY <1>5
  <2>2. CASE d = c
    <3>1. t = item /\ stale'[d] = NextAt(t, i)
      BY <1>2, <1>3, <1>4, <2>1, <2>2 DEF TypeOK
    <3>2. Onward(Members, Lasting, r, c, NextAt(t, i))
      BY <1>7, <3>1, NextOnward DEF Ranked, WalkInv
    <3> QED  BY <1>5, <1>8, <2>1, <2>2, <3>1, <3>2, OnwardKept
  <2>3. CASE d # c
    <3>1. d \in Members \cap freed /\ stale'[d] = stale[d]
      BY <1>2, <2>1, <2>3 DEF TypeOK
    <3>2. Onward(Members, Lasting, r, d, stale[d])
      BY <1>7, <3>1 DEF Ranked
    <3> QED  BY <1>5, <1>8, <2>1, <3>1, <3>2, OnwardKept
  <2> QED  BY <2>2, <2>3
<1>11. Behind(Members', Lasting', r, cb_node', running', ran')
  <2>1. Behind(Members, Lasting, r, cb_node, running, ran)
    BY <1>7 DEF Ranked
  <2>2. Behind(Members', Lasting', r, cb_node, running, ran)
    BY <1>5, <1>8, <2>1, BehindKept
  <2> QED  BY <1>2, <2>2
<1>12. Ranked(r)' /\ Bound(r, k)'
  BY <1>7, <1>9, <1>10, <1>11 DEF Ranked, Bound
<1> QED  BY <1>6, <1>7, <1>12 DEF WalkInv

\* A walk begins at the first node, with nothing behind it.
LEMMA WalkTake ==
  ASSUME TypeOK, Memory, item = Nil, Rest, running = Nil, Take
  PROVE  WalkInv' /\ item' \in Topic
<1> USE DEF memory
<1> DEFINE t == item'
           q == callbacks[t]
<1>1. /\ t \in Topic /\ cb_node' = First(t) /\ began' = Nodes(t)
      /\ UNCHANGED <<callbacks, callback_fn, stale, running, ran, added, freed, reused>>
  BY DEF Take, TypeOK
<1>2. /\ q \in Seq(Cell) /\ DOMAIN q = 1..Len(q) /\ Len(q) \in Nat
      /\ \A i \in DOMAIN q : q[i] \in Cell /\ q[i] # Nil
      /\ Nodes(t) \subseteq Cell
  BY <1>1, ListType
<1>3. \A i, j \in DOMAIN q : q[i] = q[j] => i = j
  BY <1>1 DEF Memory
<1>4. /\ ran' = <<>> /\ added' = {} /\ freed' = {} /\ callbacks'[item'] = q
      /\ Nodes(item)' = Nodes(t) /\ Members' = Nodes(t) /\ Lasting' = Nodes(t)
  BY <1>1 DEF Rest, Members, Lasting, Nodes
<1> DEFINE numbers == [c \in Cell |-> IF c \in Nodes(t) THEN CHOOSE i \in DOMAIN q : q[i] = c ELSE 0]
<1>6. \A i \in DOMAIN q : q[i] \in Nodes(t) /\ numbers[q[i]] = i
  <2> SUFFICES ASSUME NEW i \in DOMAIN q PROVE q[i] \in Nodes(t) /\ numbers[q[i]] = i
    OBVIOUS
  <2>1. q[i] \in Nodes(t) /\ q[i] \in Cell
    BY <1>2 DEF Nodes
  <2>2. (CHOOSE j \in DOMAIN q : q[j] = q[i]) = i
    BY <1>3
  <2> QED  BY <2>1, <2>2
<1>7. \A c \in Nodes(t) : \E i \in DOMAIN q : c = q[i]
  BY DEF Nodes
<1>8. numbers \in [Cell -> Nat] /\ \A c \in Cell : numbers[c] < Len(q) + 1
  <2> SUFFICES ASSUME NEW c \in Cell PROVE numbers[c] \in Nat /\ numbers[c] < Len(q) + 1
    OBVIOUS
  <2>1. CASE c \in Nodes(t)
    BY <1>2, <1>6, <1>7, <2>1
  <2>2. CASE c \notin Nodes(t)
    BY <1>2, <2>2
  <2> QED  BY <2>1, <2>2
<1> HIDE DEF numbers
<1>9. PICK r \in [Cell -> Nat], k \in Nat :
        r = numbers /\ k = Len(q) + 1
  BY <1>2, <1>8
<1>10. Numbered(Members', r, callbacks'[item'])
  <2>1. \A c, d \in Nodes(t) : r[c] = r[d] => c = d
    BY <1>6, <1>7, <1>9
  <2>2. \A i, j \in DOMAIN q : i < j => r[q[i]] < r[q[j]]
    BY <1>6, <1>9
  <2> QED  BY <1>4, <2>1, <2>2 DEF Numbered
<1>11. Behind(Members', Lasting', r, cb_node', running', ran')
  <2>1. DOMAIN ran' = {}
    BY <1>4
  <2>2. CASE q = <<>>
    <3>1. DOMAIN q = {}
      BY <2>2
    <3>2. Nodes(t) = {} /\ cb_node' = Nil
      BY <1>1, <1>7, <2>2, <3>1 DEF First, Subscribed
    <3> QED  BY <1>4, <2>1, <3>2 DEF Behind
  <2>3. CASE q # <<>>
    <3>1. 1 \in DOMAIN q /\ cb_node' = q[1] /\ cb_node' \in Nodes(t) /\ r[cb_node'] = 1
      <4>1. 1 \in DOMAIN q
        BY <1>2, <2>3
      <4> QED  BY <1>1, <1>6, <1>9, <2>3, <4>1 DEF First, Subscribed
    <3>2. cb_node' # Nil
      BY <1>2, <3>1
    <3>3. \A d \in Nodes(t) : ~(r[d] < 1)
      BY <1>2, <1>6, <1>7, <1>9
    <3>4. running' = Nil
      BY <1>1
    <3> QED  BY <1>4, <2>1, <3>1, <3>2, <3>3, <3>4 DEF Behind
  <2> QED  BY <2>2, <2>3
<1>12. Ranked(r)' /\ Bound(r, k)'
  BY <1>4, <1>8, <1>9, <1>10, <1>11 DEF Ranked, Bound
<1>13. Nodes(item)' = Members' \ freed' /\ freed' \cap Allocated' = {} /\ Members' \subseteq Cell
  BY <1>2, <1>4
<1> HIDE DEF q
<1> QED  BY <1>1, <1>12, <1>13 DEF WalkInv

\* The callback at the node of the walk is called, and now lies behind it.
LEMMA WalkCall ==
  ASSUME TypeOK, Memory, WalkInv, item \in Topic, Call, ~reused
  PROVE  WalkInv' /\ running' # Nil
<1> USE DEF memory, since
<1>1. /\ cb_node # Nil /\ running = Nil /\ running' = callback_fn[cb_node]
      /\ ran' = Append(ran, cb_node)
      /\ UNCHANGED <<callbacks, callback_fn, stale, item, cb_node, began, added, freed>>
  BY DEF Call
<1>2. /\ Members' = Members /\ Lasting' = Lasting /\ Nodes(item)' = Nodes(item)
      /\ Allocated' = Allocated /\ callbacks'[item'] = callbacks[item]
  BY <1>1 DEF Members, Lasting, Nodes, Allocated
<1>3. PICK r \in [Cell -> Nat], k \in Nat : Bound(r, k) /\ Ranked(r)
  BY DEF WalkInv
<1>4. cb_node \in Members /\ cb_node \in Cell
  BY <1>1, <1>3 DEF Ranked, Behind, WalkInv
<1>5. running' # Nil
  <2>1. Nodes(item) \subseteq Allocated
    BY ListType
  <2>2. cb_node \in Allocated \cup freed
    BY <1>4, <2>1 DEF WalkInv
  <2> QED  BY <1>1, <2>2, NilAssumption DEF Memory
<1>6. /\ DOMAIN ran = 1..Len(ran) /\ DOMAIN ran' = 1..(Len(ran) + 1) /\ Len(ran) \in Nat
      /\ \A i \in DOMAIN ran : ran'[i] = ran[i]
      /\ ran'[Len(ran) + 1] = cb_node
  <2>1. ran \in Seq(Cell)
    BY DEF TypeOK
  <2> QED  BY <1>1, <1>4, <2>1, AppendElements
<1>7. /\ \A i \in DOMAIN ran : ran[i] \in Members /\ r[ran[i]] < r[cb_node]
      /\ \A i, j \in DOMAIN ran : ran[i] = ran[j] => i = j
      /\ \A d \in Lasting : r[d] < r[cb_node] => \E i \in DOMAIN ran : ran[i] = d
  BY <1>1, <1>3 DEF Ranked, Behind
<1>8. /\ \A i \in DOMAIN ran' : i \in DOMAIN ran \/ i = Len(ran) + 1
      /\ \A i \in DOMAIN ran : i \in DOMAIN ran'
      /\ Len(ran) + 1 \in DOMAIN ran'
  BY <1>6
<1>9. r[cb_node] \in Nat /\ \A i \in DOMAIN ran : r[ran[i]] \in Nat
  BY <1>4, <1>7 DEF WalkInv
<1>10. Behind(Members', Lasting', r, cb_node', running', ran')
  <2>1. \A i \in DOMAIN ran' : ran'[i] \in Members /\ r[ran'[i]] <= r[cb_node]
    BY <1>4, <1>6, <1>7, <1>8, <1>9
  <2>2. \A i \in DOMAIN ran : ran[i] # cb_node
    BY <1>7, <1>9
  <2>3. \A i, j \in DOMAIN ran' : ran'[i] = ran'[j] => i = j
    BY <1>6, <1>7, <1>8, <2>2
  <2>4. ASSUME NEW d \in Lasting, r[d] < r[cb_node] \/ d = cb_node
        PROVE  \E i \in DOMAIN ran' : ran'[i] = d
    <3>1. CASE r[d] < r[cb_node]
      BY <1>6, <1>7, <1>8, <3>1
    <3>2. CASE d = cb_node
      BY <1>6, <1>8, <3>2
    <3> QED  BY <2>4, <3>1, <3>2
  <2>5. cb_node' = cb_node
    BY <1>1
  <2> QED  BY <1>1, <1>2, <1>4, <1>5, <2>1, <2>3, <2>4, <2>5 DEF Behind
<1>11. Ranked(r)' /\ Bound(r, k)'
  BY <1>1, <1>2, <1>3, <1>10 DEF Ranked, Bound
<1>12. Nodes(item)' = Members' \ freed' /\ freed' \cap Allocated' = {} /\ Members' \subseteq Cell
  BY <1>1, <1>2 DEF WalkInv
<1> QED  BY <1>3, <1>5, <1>11, <1>12 DEF WalkInv

\* The next node is read where the walk stands, in a node of the topic or in
\* one that was freed, and nothing is passed over.
LEMMA WalkReturn ==
  ASSUME TypeOK, Memory, WalkInv, item \in Topic, Return, cb_node # Nil
  PROVE  WalkInv'
<1> USE DEF memory, since
<1>1. /\ running # Nil /\ running' = Nil /\ cb_node' = Following(cb_node)
      /\ UNCHANGED <<callbacks, callback_fn, stale, item, ran, began, added, freed>>
  BY DEF Return
<1>2. /\ Members' = Members /\ Lasting' = Lasting /\ Nodes(item)' = Nodes(item)
      /\ Allocated' = Allocated /\ callbacks'[item'] = callbacks[item]
  BY <1>1 DEF Members, Lasting, Nodes, Allocated
<1>3. PICK r \in [Cell -> Nat], k \in Nat : Bound(r, k) /\ Ranked(r)
  BY DEF WalkInv
<1>4. cb_node \in Members /\ Members \subseteq Cell /\ Lasting \subseteq Members
  BY <1>3 DEF Ranked, Behind, WalkInv, Members, Lasting
<1>5. Onward(Members, Lasting, r, cb_node, Following(cb_node))
  <2>1. CASE cb_node \in freed
    <3>1. cb_node \notin Allocated
      BY <2>1 DEF WalkInv
    <3> QED  BY <1>3, <1>4, <2>1, <3>1 DEF Ranked, Following
  <2>2. CASE cb_node \notin freed
    <3>1. PICK i \in DOMAIN callbacks[item] : cb_node = callbacks[item][i]
      BY <1>4, <2>2 DEF WalkInv, Nodes
    <3>2. Following(cb_node) = NextAt(item, i)
      BY <3>1, FollowingNode
    <3>3. Numbered(Members, r, callbacks[item])
      BY <1>3 DEF Ranked
    <3> QED  BY <1>4, <3>1, <3>2, <3>3, NextOnward DEF WalkInv
  <2> QED  BY <2>1, <2>2
<1>6. Behind(Members, Lasting, r, Following(cb_node), Nil, ran)
  <2>1. Behind(Members, Lasting, r, cb_node, running, ran)
    BY <1>3 DEF Ranked
  <2>2. \A d \in Members : r[cb_node] = r[d] => cb_node = d
    BY <1>3, <1>4 DEF Ranked, Numbered
  <2> QED  BY <1>1, <1>4, <1>5, <2>1, <2>2, NilAssumption, BehindNext
<1>7. Ranked(r)' /\ Bound(r, k)'
  BY <1>1, <1>2, <1>3, <1>6 DEF Ranked, Bound
<1>8. Nodes(item)' = Members' \ freed' /\ freed' \cap Allocated' = {} /\ Members' \subseteq Cell
  BY <1>1, <1>2 DEF WalkInv
<1> QED  BY <1>3, <1>7, <1>8 DEF WalkInv

\* What does not touch the lists, nor the walk, leaves the walk as it is.
LEMMA WalkRests ==
  ASSUME WalkInv, UNCHANGED <<memory, walk, since>>
  PROVE  WalkInv'
<1>1. UNCHANGED <<callbacks, callback_fn, stale, item, cb_node, running, ran, began, added, freed>>
  BY DEF memory, walk, since
<1>2. /\ Members' = Members /\ Lasting' = Lasting /\ Nodes(item)' = Nodes(item)
      /\ Allocated' = Allocated /\ callbacks'[item'] = callbacks[item]
  BY <1>1 DEF Members, Lasting, Nodes, Allocated
<1>3. PICK r \in [Cell -> Nat], k \in Nat : Bound(r, k) /\ Ranked(r)
  BY DEF WalkInv
<1>4. Ranked(r)' /\ Bound(r, k)'
  BY <1>1, <1>2, <1>3 DEF Ranked, Bound
<1>5. Nodes(item)' = Members' \ freed' /\ freed' \cap Allocated' = {} /\ Members' \subseteq Cell
  BY <1>1, <1>2 DEF WalkInv
<1> QED  BY <1>3, <1>4, <1>5 DEF WalkInv
-----------------------------------------------------------------------------
(* The invariant.                                                          *)

\* At the start there is no node.
LEMMA IInvInit == Init => IInv
<1> SUFFICES ASSUME Init PROVE IInv
  OBVIOUS
<1>1. /\ callbacks = [t \in Topic |-> <<>>]
      /\ callback_fn = [c \in Cell |-> Nil] /\ stale = [c \in Cell |-> Nil]
      /\ netQueue = <<>> /\ item = Nil /\ cb_node = Nil /\ running = Nil /\ ran = <<>>
      /\ began = {} /\ added = {} /\ freed = {} /\ ~reused /\ reused \in BOOLEAN
  BY DEF Init
<1>2. \A t \in Topic : callbacks[t] = <<>> /\ DOMAIN callbacks[t] = {} /\ Nodes(t) = {}
  BY <1>1 DEF Nodes
<1>3. Memory
  BY <1>1, <1>2 DEF Memory, Allocated
<1>4. TypeOK
  BY <1>1, QueueAssumption DEF TypeOK
<1>5. Rest
  BY <1>1 DEF Rest
<1> QED  BY <1>1, <1>3, <1>4, <1>5 DEF IInv

\* Every step keeps the walk, and what it remembers.
LEMMA IInvStep == IInv /\ [Next]_vars => IInv'
<1> SUFFICES ASSUME IInv, [Next]_vars PROVE IInv'
  OBVIOUS
<1> USE DEF memory, walk, since
<1>1. /\ TypeOK /\ Memory /\ (running # Nil => cb_node # Nil)
      /\ (item = Nil => Rest) /\ (item # Nil /\ ~reused => WalkInv)
      /\ (item # Nil => item \in Topic)
  BY DEF IInv, TypeOK
<1>2. TypeOK'
  BY <1>1, TypeStep
<1>3. Memory'
  BY <1>1, MemoryStep DEF Rest
<1>4. ASSUME NEW t \in Topic, NEW f \in Callback, Sub(t, f)
      PROVE  IInv'
  <2>1. CASE UNCHANGED vars
    <3>1. UNCHANGED <<memory, walk, since>> /\ Rest' = Rest /\ reused' = reused
      BY <2>1 DEF vars, Rest
    <3> QED  BY <1>1, <1>2, <1>3, <3>1, WalkRests DEF IInv
  <2>2. CASE NewNode(t, f)
    <3>1. PICK c \in Free : Allocates(t, f, c)
      BY <2>2 DEF NewNode, Allocates
    <3>2. /\ item' = item /\ cb_node' = cb_node /\ running' = running /\ ran' = ran
          /\ began' = began /\ freed' = freed /\ reused' = (reused \/ c \in freed)
          /\ added' = IF item = t THEN added \cup {c} ELSE added
      BY <3>1 DEF Allocates
    <3>3. item' = Nil => Rest'
      BY <1>1, <3>2, NilAssumption DEF Rest
    <3>4. item' # Nil /\ ~reused' => WalkInv'
      BY <1>1, <3>1, <3>2, WalkSub
    <3> QED  BY <1>1, <1>2, <1>3, <3>2, <3>3, <3>4 DEF IInv
  <2> QED  BY <1>4, <2>1, <2>2 DEF Sub
<1>5. ASSUME NEW t \in Topic, NEW f \in Callback, Unsub(t, f)
      PROVE  IInv'
  <2>1. PICK i \in DOMAIN callbacks[t] : Frees(t, i)
    BY <1>5 DEF Unsub, Frees
  <2>2. UNCHANGED <<item, cb_node, running, ran, began, added, reused>>
    BY <2>1 DEF Frees
  <2>3. item' = Nil => Rest'
    BY <1>1, <2>1, <2>2 DEF Rest, Frees
  <2>4. item' # Nil /\ ~reused' => WalkInv'
    BY <1>1, <2>1, <2>2, WalkUnsub
  <2> QED  BY <1>1, <1>2, <1>3, <2>2, <2>3, <2>4 DEF IInv
<1>6. ASSUME NEW t \in Topic, Publish(t) \/ Arrives(t)
      PROVE  IInv'
  <2>1. UNCHANGED <<memory, walk, since>> /\ Rest' = Rest /\ reused' = reused
    BY <1>6 DEF Publish, Arrives, Rest
  <2> QED  BY <1>1, <1>2, <1>3, <2>1, WalkRests DEF IInv
<1>7. CASE Take
  <2>1. item = Nil /\ Rest /\ running = Nil
    BY <1>1, <1>7 DEF Take, Rest
  <2>2. WalkInv' /\ item' \in Topic /\ running' = Nil
    BY <1>1, <1>7, <2>1, WalkTake DEF Take
  <2> QED  BY <1>2, <1>3, <2>2, NilAssumption DEF IInv
<1>8. CASE Call
  <2>1. item # Nil /\ item' = item /\ reused' = reused /\ cb_node' = cb_node /\ cb_node # Nil
    BY <1>1, <1>8 DEF Call, Rest
  <2>2. ~reused' => WalkInv'
    BY <1>1, <1>8, <2>1, WalkCall
  <2> QED  BY <1>2, <1>3, <2>1, <2>2 DEF IInv
<1>9. CASE Return
  <2>1. item # Nil /\ item' = item /\ reused' = reused /\ cb_node # Nil /\ running' = Nil
    BY <1>1, <1>9 DEF Return, Rest
  <2>2. ~reused' => WalkInv'
    BY <1>1, <1>9, <2>1, WalkReturn
  <2> QED  BY <1>2, <1>3, <2>1, <2>2 DEF IInv
<1>10. CASE Finish
  <2>1. /\ item' = Nil /\ cb_node' = Nil /\ running' = running /\ cb_node = Nil
        /\ ran' = <<>> /\ began' = {} /\ added' = {} /\ freed' = {} /\ reused' = FALSE
    BY <1>10 DEF Finish
  <2>2. Rest' /\ running' = Nil
    BY <1>1, <2>1 DEF Rest
  <2> QED  BY <1>2, <1>3, <2>1, <2>2 DEF IInv
<1>11. CASE UNCHANGED vars
  <2>1. UNCHANGED <<memory, walk, since>> /\ Rest' = Rest /\ reused' = reused
    BY <1>11 DEF vars, Rest
  <2> QED  BY <1>1, <1>2, <1>3, <2>1, WalkRests DEF IInv
<1> QED  BY <1>4, <1>5, <1>6, <1>7, <1>8, <1>9, <1>10, <1>11 DEF Next

\* The invariant holds always.
LEMMA Invariance == Spec => []IInv
<1>1. Init => IInv
  BY IInvInit
<1>2. IInv /\ [Next]_vars => IInv'
  BY IInvStep
<1> QED  BY <1>1, <1>2, PTL DEF Spec
-----------------------------------------------------------------------------
(* Theorems.                                                               *)

\* The lists, the queue and the walk have their types: whatever is freed under
\* a walk, it reads nodes and callbacks, and the queue keeps to its length.
THEOREM PubSubTypes == Spec => []TypeOK
<1>1. IInv => TypeOK
  BY DEF IInv
<1> QED  BY <1>1, Invariance, PTL

\* bm_handle_msg gives a message to no callback that was not subscribed to its
\* topic at some time since it was taken from the queue.
THEOREM NobodyElseIsCalled == Spec => []OnlySubscribers
<1>1. IInv => OnlySubscribers
  <2> SUFFICES ASSUME IInv, ~reused, NEW i \in DOMAIN ran
               PROVE  ran[i] \in began \cup added
    BY DEF OnlySubscribers
  <2>1. CASE item = Nil
    <3>1. DOMAIN ran = {}
      BY <2>1 DEF IInv, Rest
    <3> QED  BY <3>1
  <2>2. CASE item # Nil
    <3>1. PICK r \in [Cell -> Nat] : Ranked(r)
      BY <2>2 DEF IInv, WalkInv
    <3> QED  BY <3>1 DEF Ranked, Behind, Members
  <2> QED  BY <2>1, <2>2
<1> QED  BY <1>1, Invariance, PTL

\* bm_handle_msg calls each callback that stays subscribed while it walks
\* along the list, once, however many others are subscribed or removed under
\* it, the nodes it stands on among them.
THEOREM NobodyIsLeftOut == Spec => []Delivered
<1>1. IInv => Delivered
  <2> SUFFICES ASSUME IInv, item # Nil, cb_node = Nil, ~reused, NEW c \in began \ freed
               PROVE  Runs(c) = 1
    BY DEF Delivered
  <2>1. PICK r \in [Cell -> Nat] : Ranked(r)
    BY DEF IInv, WalkInv
  <2>2. PICK i \in DOMAIN ran : ran[i] = c
    BY <2>1 DEF Ranked, Behind, Lasting
  <2>3. \A j \in DOMAIN ran : ran[j] = c => j = i
    BY <2>1, <2>2 DEF Ranked, Behind
  <2>4. {j \in DOMAIN ran : ran[j] = c} = {i}
    BY <2>2, <2>3
  <2> QED  BY <2>4, FS_Singleton DEF Runs
<1> QED  BY <1>1, Invariance, PTL
=============================================================================
