------------------------- MODULE BcmpTopologyProofs -------------------------
(***************************************************************************)
(* Proofs about BcmpTopology, for a bus of any length and any callers:     *)
(* types, that a walk has one thing at a time to wait for, that a call is  *)
(* answered once at most, that the list follows the cable and that it is   *)
(* complete.                                                               *)
(***************************************************************************)
EXTENDS BcmpTopology, SequenceTheorems, FiniteSetTheorems, TLAPS

(***************************************************************************)
(* The line                                                                *)
(***************************************************************************)
\* Each node has one place.
LEMMA Positions ==
  /\ Len(Bus) \in Nat /\ DOMAIN Bus = 1..Len(Bus)
  /\ \A n \in Node : Position(n) \in 1..Len(Bus) /\ Bus[Position(n)] = n
  /\ \A i \in 1..Len(Bus) : Bus[i] \in Node /\ Position(Bus[i]) = i
  /\ \A n, m \in Node : Position(n) = Position(m) => n = m
<1>1. Len(Bus) \in Nat /\ DOMAIN Bus = 1..Len(Bus)
  BY BusAssumption
<1>2. ASSUME NEW n \in Node
      PROVE  Position(n) \in 1..Len(Bus) /\ Bus[Position(n)] = n
  <2>1. \E i \in DOMAIN Bus : Bus[i] = n
    BY DEF Node
  <2> QED
    BY <1>1, <2>1 DEF Position
<1>3. ASSUME NEW i \in 1..Len(Bus)
      PROVE  Bus[i] \in Node /\ Position(Bus[i]) = i
  <2>1. Bus[i] \in Node
    BY <1>1 DEF Node
  <2>2. Position(Bus[i]) \in DOMAIN Bus /\ Bus[Position(Bus[i])] = Bus[i]
    BY <1>1, <1>2, <2>1
  <2> QED
    BY <1>1, <2>1, <2>2, BusAssumption
<1> QED
  BY <1>1, <1>2, <1>3

\* Two nodes side by side.
Joined(n, m) ==
  Position(m) = Position(n) + 1 \/ Position(n) = Position(m) + 1

\* A link joins two nodes side by side.
LEMMA LinkEnds ==
  ASSUME NEW l \in Link, NEW n \in l
  PROVE  /\ n \in Node /\ Other(l, n) \in Node
         /\ Other(l, n) \in l /\ Other(l, n) # n
         /\ l = {n, Other(l, n)}
         /\ Other(l, Other(l, n)) = n
         /\ Joined(n, Other(l, n)) /\ Joined(Other(l, n), n)
<1>1. PICK i \in 1..(Len(Bus) - 1) : l = {Bus[i], Bus[i + 1]}
  BY DEF Link
<1>2. /\ i \in 1..Len(Bus) /\ i + 1 \in 1..Len(Bus)
      /\ Bus[i] \in Node /\ Bus[i + 1] \in Node
      /\ Position(Bus[i]) = i /\ Position(Bus[i + 1]) = i + 1
  BY <1>1, Positions
<1>3. Bus[i] # Bus[i + 1]
  BY <1>2
<1>4. \E m \in l : m # n
  BY <1>1, <1>3
<1>5. Other(l, n) \in l /\ Other(l, n) # n
  BY <1>4 DEF Other
<1>6. \E m \in l : m # Other(l, n)
  BY <1>5
<1>7. Other(l, Other(l, n)) \in l /\ Other(l, Other(l, n)) # Other(l, n)
  BY <1>6 DEF Other
<1>8. CASE n = Bus[i]
  <2>1. Other(l, n) = Bus[i + 1]
    BY <1>1, <1>5, <1>8
  <2> QED
    BY <1>1, <1>2, <1>5, <1>7, <1>8, <2>1 DEF Joined
<1>9. CASE n = Bus[i + 1]
  <2>1. Other(l, n) = Bus[i]
    BY <1>1, <1>5, <1>9
  <2> QED
    BY <1>1, <1>2, <1>5, <1>7, <1>9, <2>1 DEF Joined
<1> QED
  BY <1>1, <1>8, <1>9

\* And all those that are side by side are joined by one.
LEMMA JoinedLink ==
  ASSUME NEW n \in Node, NEW m \in Node, Joined(n, m)
  PROVE  {n, m} \in Link /\ n # m
<1>1. /\ Position(n) \in 1..Len(Bus) /\ Position(m) \in 1..Len(Bus)
      /\ Bus[Position(n)] = n /\ Bus[Position(m)] = m /\ Len(Bus) \in Nat
  BY Positions
<1>2. CASE Position(m) = Position(n) + 1
  <2>1. Position(n) \in 1..(Len(Bus) - 1) /\ m = Bus[Position(n) + 1]
    BY <1>1, <1>2
  <2>2. {n, m} = {Bus[Position(n)], Bus[Position(n) + 1]}
    BY <1>1, <2>1
  <2>3. {n, m} \in Link
    BY <2>1, <2>2 DEF Link
  <2> QED
    BY <1>1, <1>2, <2>3
<1>3. CASE Position(n) = Position(m) + 1
  <2>1. Position(m) \in 1..(Len(Bus) - 1) /\ n = Bus[Position(m) + 1]
    BY <1>1, <1>3
  <2>2. {n, m} = {Bus[Position(m)], Bus[Position(m) + 1]}
    BY <1>1, <2>1
  <2>3. {n, m} \in Link
    BY <2>1, <2>2 DEF Link
  <2> QED
    BY <1>1, <1>3, <2>3
<1> QED
  BY <1>2, <1>3 DEF Joined

(***************************************************************************)
(* Neighbor lists and tables                                               *)
(***************************************************************************)
\* What a node has heard: those beside it, each once, and they it.
Hearing ==
  /\ heard \in [Node -> Seq(Node)]
  /\ \A n \in Node :
       /\ \A i \in DOMAIN heard[n] : Joined(n, heard[n][i])
       /\ \A i, j \in DOMAIN heard[n] : heard[n][i] = heard[n][j] => i = j
  /\ \A n, m \in Node : Knows(n, m) => Knows(m, n)

\* So there are two of them at most.
LEMMA TwoHeard ==
  ASSUME Hearing, NEW n \in Node
  PROVE  Len(heard[n]) \in 0..2
<1>1. heard[n] \in Seq(Node)
  BY DEF Hearing
<1>2. Len(heard[n]) \in Nat /\ DOMAIN heard[n] = 1..Len(heard[n])
  BY <1>1
<1>3. ASSUME Len(heard[n]) > 2 PROVE FALSE
  <2> DEFINE at(i) == Position(heard[n][i])
  <2>1. 1 \in DOMAIN heard[n] /\ 2 \in DOMAIN heard[n] /\ 3 \in DOMAIN heard[n]
    BY <1>2, <1>3
  <2>2. /\ heard[n][1] \in Node /\ heard[n][2] \in Node /\ heard[n][3] \in Node
        /\ heard[n][1] # heard[n][2] /\ heard[n][2] # heard[n][3]
        /\ heard[n][1] # heard[n][3]
    BY <1>1, <2>1 DEF Hearing
  <2>3. at(1) # at(2) /\ at(2) # at(3) /\ at(1) # at(3)
    BY <2>2, Positions
  <2>4. /\ at(1) \in Int /\ at(2) \in Int /\ at(3) \in Int /\ Position(n) \in Int
    BY <2>2, Positions
  <2>5. /\ at(1) = Position(n) + 1 \/ Position(n) = at(1) + 1
        /\ at(2) = Position(n) + 1 \/ Position(n) = at(2) + 1
        /\ at(3) = Position(n) + 1 \/ Position(n) = at(3) + 1
    BY <2>1 DEF Hearing, Joined
  <2> QED
    BY <2>3, <2>4, <2>5
<1>4. \A k \in Nat : k > 2 \/ k \in 0..2
  OBVIOUS
<1> QED
  BY <1>2, <1>3, <1>4

\* The table a node sends.
LEMMA TableType ==
  ASSUME Hearing, NEW n \in Node
  PROVE  TableOf(n) \in Table /\ DOMAIN TableOf(n) = DOMAIN heard[n]
<1>1. heard[n] \in Seq(Node) /\ Len(heard[n]) \in 0..2
  BY TwoHeard DEF Hearing
<1>2. DOMAIN heard[n] = 1..Len(heard[n])
  BY <1>1
<1>3. TableOf(n) \in [1..Len(heard[n]) -> Row]
  BY <1>1, <1>2 DEF TableOf, Row
<1>4. TableOf(n) \in Seq(Row)
  BY <1>1, <1>3
<1>5. Len(TableOf(n)) = Len(heard[n])
  BY <1>1, <1>3
<1>a. \A k \in 0..2 : k <= 2
  OBVIOUS
<1>6. Len(TableOf(n)) <= 2
  BY <1>1, <1>5, <1>a
<1>7. TableOf(n) \in Table
  BY <1>4, <1>6 DEF Table
<1> QED
  BY <1>2, <1>3, <1>7

\* What was heard stays so when two nodes hear each other.
LEMMA HearingKept ==
  ASSUME Hearing, NEW l \in Link, Heartbeats(l)
  PROVE  Hearing'
<1> DEFINE New(n) == n \in l /\ ~Knows(n, Other(l, n))
<1>1. heard' = [n \in Node |-> IF New(n) THEN Append(heard[n], Other(l, n))
                               ELSE heard[n]]
  BY DEF Heartbeats
<1>2. ASSUME NEW n \in Node
      PROVE  /\ heard'[n] \in Seq(Node)
             /\ \A i \in DOMAIN heard'[n] : Joined(n, heard'[n][i])
             /\ \A i, j \in DOMAIN heard'[n] : heard'[n][i] = heard'[n][j] => i = j
             /\ \A m : Knows(n, m)' <=> (Knows(n, m) \/ (n \in l /\ m = Other(l, n)))
  <2> DEFINE old == heard[n]
  <2>1. /\ old \in Seq(Node)
        /\ \A i \in DOMAIN old : Joined(n, old[i])
        /\ \A i, j \in DOMAIN old : old[i] = old[j] => i = j
    BY DEF Hearing
  <2>2. \A m : Knows(n, m) <=> \E i \in DOMAIN old : old[i] = m
    BY DEF Knows
  <2>3. \A m : Knows(n, m)' <=> \E i \in DOMAIN heard'[n] : heard'[n][i] = m
    BY DEF Knows
  <2>4. CASE New(n)
    <3> DEFINE e == Other(l, n)
    <3>1. e \in Node /\ Joined(n, e) /\ heard'[n] = Append(old, e) /\ ~Knows(n, e)
      BY <1>1, <2>4, LinkEnds
    <3> HIDE DEF e, old
    <3>2. /\ Append(old, e) \in Seq(Node)
          /\ Len(old) \in Nat /\ DOMAIN old = 1..Len(old)
          /\ DOMAIN Append(old, e) = 1..(Len(old) + 1)
          /\ \A i \in DOMAIN old : Append(old, e)[i] = old[i]
          /\ Append(old, e)[Len(old) + 1] = e
      BY <2>1, <3>1
    <3>3. \A i \in DOMAIN old : old[i] # e
      BY <2>2, <3>1
    <3>4. \A i \in 1..(Len(old) + 1) : i \in DOMAIN old \/ i = Len(old) + 1
      BY <3>2
    <3>5. \A i \in DOMAIN heard'[n] : Joined(n, heard'[n][i])
      BY <2>1, <3>1, <3>2, <3>4
    <3>6. \A i, j \in DOMAIN heard'[n] : heard'[n][i] = heard'[n][j] => i = j
      BY <2>1, <3>1, <3>2, <3>3, <3>4
    <3>7. \A i \in DOMAIN old : i \in DOMAIN heard'[n]
      BY <3>1, <3>2
    <3>8. Len(old) + 1 \in DOMAIN heard'[n] /\ heard'[n][Len(old) + 1] = e
      BY <3>1, <3>2
    <3>9. \A m : (\E i \in DOMAIN heard'[n] : heard'[n][i] = m)
                 <=> (\E i \in DOMAIN old : old[i] = m) \/ m = e
      BY <3>1, <3>2, <3>4, <3>7, <3>8
    <3> QED
      BY <2>2, <2>3, <2>4, <3>1, <3>2, <3>5, <3>6, <3>9 DEF e
  <2>5. CASE ~New(n)
    <3>1. heard'[n] = old
      BY <1>1, <2>5
    <3> QED
      BY <2>1, <2>2, <2>3, <2>5, <3>1
  <2> QED
    BY <2>4, <2>5
<1>3. heard' \in [Node -> Seq(Node)]
  BY <1>1, <1>2
<1>4. ASSUME NEW n \in Node, NEW m \in Node, Knows(n, m)'
      PROVE  Knows(m, n)'
  <2>1. CASE Knows(n, m)
    BY <1>2, <2>1 DEF Hearing
  <2>2. CASE n \in l /\ m = Other(l, n)
    <3>1. m \in l /\ n = Other(l, m)
      BY <2>2, LinkEnds
    <3> QED
      BY <1>2, <3>1
  <2> QED
    BY <1>2, <1>4, <2>1, <2>2
<1> QED
  BY <1>2, <1>3, <1>4 DEF Hearing

\* It is so from the start and stays so.
LEMMA HearingInit == Init => Hearing
<1> SUFFICES ASSUME Init PROVE Hearing
  OBVIOUS
<1>1. heard = [n \in Node |-> <<>>]
  BY DEF Init
<1>2. \A n \in Node : heard[n] = <<>>
  BY <1>1
<1>3. DOMAIN <<>> = {}
  OBVIOUS
<1>4. heard \in [Node -> Seq(Node)]
  BY <1>1
<1> QED
  BY <1>2, <1>3, <1>4 DEF Hearing, Knows

LEMMA HearingNext == Hearing /\ [Next]_vars => Hearing'
<1> SUFFICES ASSUME Hearing, [Next]_vars PROVE Hearing'
  OBVIOUS
<1>1. CASE UNCHANGED heard
  BY <1>1 DEF Hearing, Knows
<1>2. CASE \E l \in Link : Heartbeats(l)
  BY <1>2, HearingKept
<1>3. UNCHANGED heard \/ \E l \in Link : Heartbeats(l)
  BY DEF Next, StartWalk, Thread, HandleStart, HandleCheck, HandleAdd, HandleTimeout,
         HandleEnd, TopologyTimer, Network, Answer, LoseRequest, Reply, LoseReply,
         LinkUp, LinkDown, vars, bus
<1> QED
  BY <1>1, <1>2, <1>3

(***************************************************************************)
(* The list and its cursor                                                 *)
(***************************************************************************)
Lists == [list : Seq(Entry), at : Nat]
OnEntry(t) == t \in Lists /\ t.at \in DOMAIN t.list
GoodList(t) == t = Gone \/ OnEntry(t)

\* A list with a cursor on an entry is not gone.
LEMMA OnEntryIs ==
  ASSUME NEW t, OnEntry(t)
  PROVE  /\ t # Gone /\ t.list \in Seq(Entry)
         /\ Len(t.list) \in Nat \ {0} /\ DOMAIN t.list = 1..Len(t.list)
         /\ t.at \in 1..Len(t.list)
         /\ \A i \in 1..Len(t.list) : t.list[i] \in Entry
<1>1. t.list \in Seq(Entry) /\ t.at \in DOMAIN t.list
  BY DEF OnEntry, Lists
<1>2. Len(t.list) \in Nat /\ DOMAIN t.list = 1..Len(t.list)
  BY <1>1
<1>3. \A i \in 1..Len(t.list) : t.list[i] \in Entry
  BY <1>1, <1>2
<1>4. t # Gone
  <2>1. Gone.list = <<>> /\ DOMAIN <<>> = {}
    BY DEF Gone
  <2> QED
    BY <1>1, <2>1
<1> QED
  BY <1>1, <1>2, <1>3, <1>4

\* Counting a port changes the count of one entry.
LEMMA CountPortIs ==
  ASSUME NEW t, OnEntry(t)
  PROVE  /\ OnEntry(CountPort(t))
         /\ CountPort(t).at = t.at /\ Len(CountPort(t).list) = Len(t.list)
         /\ \A i \in 1..Len(t.list) :
              CountPort(t).list[i] =
                IF i = t.at THEN [t.list[i] EXCEPT !.explored = @ + 1] ELSE t.list[i]
<1>1. /\ t # Gone /\ t.list \in Seq(Entry) /\ t \in Lists
      /\ Len(t.list) \in Nat \ {0} /\ DOMAIN t.list = 1..Len(t.list)
      /\ t.at \in 1..Len(t.list)
      /\ \A i \in 1..Len(t.list) : t.list[i] \in Entry
  BY OnEntryIs DEF OnEntry
<1> DEFINE e == [t.list[t.at] EXCEPT !.explored = @ + 1]
           new == [t.list EXCEPT ![t.at] = e]
<1>2. e \in Entry
  BY <1>1, SMTT(30) DEF Entry
<1>3. CountPort(t) = [t EXCEPT !.list = new]
  BY <1>1 DEF CountPort
<1>4. /\ new \in Seq(Entry) /\ Len(new) = Len(t.list)
      /\ \A j \in 1..Len(t.list) : new[j] = IF j = t.at THEN e ELSE t.list[j]
  <2> HIDE DEF e
  <2> QED
    BY <1>1, <1>2, ExceptSeq
<1>5. DOMAIN new = 1..Len(t.list)
  BY <1>1
<1> HIDE DEF new, e
<1>6. CountPort(t) \in Lists /\ CountPort(t).list = new /\ CountPort(t).at = t.at
  BY <1>1, <1>3, <1>4 DEF Lists
<1> QED
  BY <1>1, <1>4, <1>5, <1>6 DEF OnEntry, e

\* An element among the others.
Splice(list, k, e) == SubSeq(list, 1, k - 1) \o <<e>> \o SubSeq(list, k, Len(list))

LEMMA Spliced ==
  ASSUME NEW S, NEW list \in Seq(S), NEW e \in S, NEW k \in 1..(Len(list) + 1)
  PROVE  /\ Splice(list, k, e) \in Seq(S)
         /\ Len(Splice(list, k, e)) = Len(list) + 1
         /\ DOMAIN Splice(list, k, e) = 1..(Len(list) + 1)
         /\ \A i \in 1..(Len(list) + 1) :
              Splice(list, k, e)[i] =
                IF i < k THEN list[i] ELSE IF i = k THEN e ELSE list[i - 1]
<1> DEFINE left == SubSeq(list, 1, k - 1)
           right == SubSeq(list, k, Len(list))
           new == left \o <<e>> \o right
<1>1. Len(list) \in Nat /\ \A i \in 1..Len(list) : list[i] \in S
  OBVIOUS
<1>2. /\ k - 1 \in Int /\ k \in Int /\ Len(list) \in Int /\ 1 \in Int
      /\ \A i \in 1..(k - 1) : list[i] \in S
      /\ \A i \in k..Len(list) : list[i] \in S
  BY <1>1
<1>3. /\ left \in Seq(S) /\ Len(left) = k - 1
      /\ \A i \in 1..(k - 1) : left[i] = list[i]
  <2>1. /\ left \in Seq(S)
        /\ Len(left) = IF 1 <= k - 1 THEN (k - 1) - 1 + 1 ELSE 0
        /\ \A i \in 1..((k - 1) - 1 + 1) : left[i] = list[1 + i - 1]
    BY <1>2, SubSeqProperties
  <2>2. Len(left) = k - 1
    BY <1>1, <2>1
  <2>3. \A i \in 1..(k - 1) : i \in 1..((k - 1) - 1 + 1) /\ 1 + i - 1 = i
    OBVIOUS
  <2> HIDE DEF left
  <2> QED
    BY <2>1, <2>2, <2>3
<1>4. /\ right \in Seq(S) /\ Len(right) = Len(list) - k + 1
      /\ \A i \in 1..(Len(list) - k + 1) : right[i] = list[k + i - 1]
  <2>1. /\ right \in Seq(S)
        /\ Len(right) = IF k <= Len(list) THEN Len(list) - k + 1 ELSE 0
        /\ \A i \in 1..(Len(list) - k + 1) : right[i] = list[k + i - 1]
    BY <1>2, SubSeqProperties
  <2> HIDE DEF right
  <2> QED
    BY <1>1, <2>1
<1> HIDE DEF left, right
<1>5. <<e>> \in Seq(S) /\ Len(<<e>>) = 1 /\ <<e>>[1] = e
  OBVIOUS
<1>6. PICK one : one = <<e>>
  OBVIOUS
<1>7. /\ left \o one \in Seq(S) /\ Len(left \o one) = k
      /\ \A i \in 1..k : (left \o one)[i] = IF i < k THEN list[i] ELSE e
  <2>1. /\ left \o one \in Seq(S) /\ Len(left \o one) = Len(left) + Len(one)
        /\ \A i \in 1..(Len(left) + Len(one)) :
             (left \o one)[i] = IF i <= Len(left) THEN left[i] ELSE one[i - Len(left)]
    BY <1>3, <1>5, <1>6, ConcatProperties
  <2>2. Len(left) + Len(one) = k
    BY <1>1, <1>3, <1>5, <1>6
  <2>3. ASSUME NEW i \in 1..k
        PROVE  (left \o one)[i] = IF i < k THEN list[i] ELSE e
    <3>1. CASE i < k
      <4>1. i \in 1..(k - 1) /\ i <= Len(left) /\ i \in 1..(Len(left) + Len(one))
        BY <1>3, <2>2, <3>1
      <4> QED
        BY <1>3, <2>1, <3>1, <4>1
    <3>2. CASE i = k
      <4>1. ~(i <= Len(left)) /\ i \in 1..(Len(left) + Len(one)) /\ i - Len(left) = 1
        BY <1>3, <2>2, <3>2
      <4>2. (left \o one)[i] = one[1]
        BY <2>1, <4>1
      <4>3. one[1] = e
        BY <1>5, <1>6
      <4>4. ~(i < k)
        BY <1>1, <3>2
      <4> QED
        BY <4>2, <4>3, <4>4
    <3>3. i < k \/ i = k
      BY <1>1
    <3> QED
      BY <3>1, <3>2, <3>3, Zenon
  <2> QED
    BY <2>1, <2>2, <2>3
<1> DEFINE both == left \o one
<1>8. both \in Seq(S) /\ Len(both) = k
      /\ \A i \in 1..k : both[i] = IF i < k THEN list[i] ELSE e
  BY <1>7
<1>9. new = both \o right
  BY <1>6
<1> HIDE DEF both, new
<1>10. /\ both \o right \in Seq(S)
       /\ Len(both \o right) = Len(both) + Len(right)
       /\ \A i \in 1..(Len(both) + Len(right)) :
            (both \o right)[i] = IF i <= Len(both) THEN both[i]
                                 ELSE right[i - Len(both)]
  BY <1>4, <1>8, ConcatProperties
<1>11. Len(both) + Len(right) = Len(list) + 1
  BY <1>1, <1>4, <1>8
<1>12. ASSUME NEW i \in 1..(Len(list) + 1)
       PROVE  new[i] = IF i < k THEN list[i] ELSE IF i = k THEN e ELSE list[i - 1]
  <2>1. CASE i <= k
    <3>1. i \in 1..k /\ i <= Len(both)
      BY <1>8, <2>1
    <3> QED
      BY <1>8, <1>9, <1>10, <1>11, <2>1, <3>1
  <2>2. CASE i > k
    <3>1. /\ ~(i <= Len(both)) /\ i - Len(both) \in 1..(Len(list) - k + 1)
          /\ k + (i - Len(both)) - 1 = i - 1
      BY <1>1, <1>8, <2>2
    <3>2. new[i] = right[i - Len(both)]
      BY <1>9, <1>10, <1>11, <3>1
    <3>3. right[i - Len(both)] = list[i - 1]
      BY <1>4, <3>1
    <3> QED
      BY <2>2, <3>2, <3>3
  <2> QED
    BY <1>1, <2>1, <2>2
<1>13. new \in Seq(S) /\ Len(new) = Len(list) + 1
  BY <1>9, <1>10, <1>11
<1>14. DOMAIN new = 1..(Len(list) + 1)
  BY <1>13
<1> QED
  BY <1>12, <1>13, <1>14 DEF new, left, right, Splice

\* A new entry comes right before the cursor's or right after it, and the
\* cursor is on it.
LEMMA InsertIs ==
  ASSUME NEW t, OnEntry(t), NEW e \in Entry, insertBefore \in BOOLEAN
  PROVE  LET k == IF insertBefore THEN t.at ELSE t.at + 1
         IN  /\ OnEntry(Insert(t, e))
             /\ Insert(t, e).at = k /\ k \in 1..(Len(t.list) + 1)
             /\ Len(Insert(t, e).list) = Len(t.list) + 1
             /\ \A i \in 1..(Len(t.list) + 1) :
                  Insert(t, e).list[i] =
                    IF i < k THEN t.list[i] ELSE IF i = k THEN e ELSE t.list[i - 1]
<1> DEFINE k == IF insertBefore THEN t.at ELSE t.at + 1
           new == Splice(t.list, k, e)
<1>1. /\ t \in Lists /\ t.list \in Seq(Entry)
      /\ Len(t.list) \in Nat \ {0}
      /\ t.at \in 1..Len(t.list)
  BY OnEntryIs DEF OnEntry
<1>2. k \in 1..(Len(t.list) + 1)
  BY <1>1
<1>3. /\ new \in Seq(Entry)
      /\ Len(new) = Len(t.list) + 1 /\ DOMAIN new = 1..(Len(t.list) + 1)
      /\ \A i \in 1..(Len(t.list) + 1) :
           new[i] = IF i < k THEN t.list[i] ELSE IF i = k THEN e ELSE t.list[i - 1]
  <2>1. t.list \in Seq(Entry) /\ k \in 1..(Len(t.list) + 1) /\ e \in Entry
    BY <1>1, <1>2
  <2> HIDE DEF k
  <2> QED
    BY <2>1, Spliced, SMTT(60)
<1>4. Insert(t, e).list = new /\ Insert(t, e).at = k /\ Insert(t, e) \in Lists
  <2>1. CASE insertBefore
    <3>1. k = t.at
      BY <2>1
    <3>2. InsertBefore(t, e) = [t EXCEPT !.list = new, !.at = @ + 1]
      BY <3>1 DEF InsertBefore, Splice
    <3> HIDE DEF new, k
    <3>3. /\ InsertBefore(t, e) \in Lists
          /\ InsertBefore(t, e).list = new /\ InsertBefore(t, e).at = t.at + 1
      <4>1. t = [list |-> t.list, at |-> t.at]
        BY <1>1 DEF Lists
      <4>2. InsertBefore(t, e) = [list |-> new, at |-> t.at + 1]
        BY <1>1, <3>2, <4>1
      <4> QED
        BY <1>1, <1>3, <4>2 DEF Lists
    <3>4. MovePrev(InsertBefore(t, e)) = [InsertBefore(t, e) EXCEPT !.at = @ - 1]
      BY <1>1, <3>3 DEF MovePrev
    <3>5. (t.at + 1) - 1 = t.at
      BY <1>1
    <3>6. /\ MovePrev(InsertBefore(t, e)) \in Lists
          /\ MovePrev(InsertBefore(t, e)).list = new
          /\ MovePrev(InsertBefore(t, e)).at = t.at
      BY <1>1, <3>3, <3>4, <3>5 DEF Lists
    <3> QED
      BY <2>1, <3>1, <3>6 DEF Insert
  <2>2. CASE ~insertBefore
    <3>1. k = t.at + 1 /\ k - 1 = t.at
      BY <1>1, <2>2
    <3>2. InsertAfter(t, e) = [t EXCEPT !.list = new]
      BY <3>1 DEF InsertAfter, Splice
    <3> HIDE DEF new, k
    <3>3. /\ InsertAfter(t, e) \in Lists
          /\ InsertAfter(t, e).list = new /\ InsertAfter(t, e).at = t.at
      BY <1>1, <1>3, <3>2 DEF Lists
    <3>4. t.at < Len(new)
      BY <1>1, <1>3
    <3>5. MoveNext(InsertAfter(t, e)) = [InsertAfter(t, e) EXCEPT !.at = @ + 1]
      BY <3>3, <3>4 DEF MoveNext
    <3>6. /\ MoveNext(InsertAfter(t, e)) \in Lists
          /\ MoveNext(InsertAfter(t, e)).list = new
          /\ MoveNext(InsertAfter(t, e)).at = t.at + 1
      BY <1>1, <3>3, <3>5, SMTT(30) DEF Lists
    <3> QED
      BY <2>2, <3>1, <3>6 DEF Insert
  <2> QED
    BY <2>1, <2>2
<1>5. OnEntry(Insert(t, e))
  BY <1>2, <1>3, <1>4 DEF OnEntry
<1> HIDE DEF new
<1> QED
  BY <1>2, <1>3, <1>4, <1>5

\* Going back leaves the list as it is and the cursor on an entry.
LEMMA BackIs ==
  ASSUME NEW t, OnEntry(t), NEW before \in BOOLEAN
  PROVE  /\ OnEntry(Back(t, before)) /\ Back(t, before).list = t.list
         /\ before => Back(t, before).at \in {t.at, t.at + 1}
         /\ ~before => Back(t, before).at \in {t.at, t.at - 1}
<1>1. /\ t \in Lists /\ Len(t.list) \in Nat \ {0}
      /\ DOMAIN t.list = 1..Len(t.list) /\ t.at \in 1..Len(t.list)
  BY OnEntryIs DEF OnEntry
<1>2. OnEntry(MoveNext(t)) /\ MoveNext(t).list = t.list
      /\ MoveNext(t).at \in {t.at, t.at + 1}
  <2>1. CASE t.at < Len(t.list)
    <3>1. MoveNext(t) = [t EXCEPT !.at = @ + 1] /\ t.at + 1 \in 1..Len(t.list)
      BY <1>1, <2>1 DEF MoveNext
    <3> QED
      BY <1>1, <3>1 DEF OnEntry, Lists
  <2>2. CASE ~(t.at < Len(t.list))
    BY <1>1, <2>2 DEF MoveNext, OnEntry
  <2> QED
    BY <2>1, <2>2
<1>3. OnEntry(MovePrev(t)) /\ MovePrev(t).list = t.list
      /\ MovePrev(t).at \in {t.at, t.at - 1}
  <2>1. CASE t.at > 1
    <3>1. /\ MovePrev(t) = [t EXCEPT !.at = @ - 1]
          /\ t.at - 1 \in 1..Len(t.list) /\ t.at - 1 \in Nat
      BY <1>1, <2>1 DEF MovePrev
    <3> QED
      BY <1>1, <3>1 DEF OnEntry, Lists
  <2>2. CASE ~(t.at > 1)
    BY <1>1, <2>2 DEF MovePrev, OnEntry
  <2> QED
    BY <2>1, <2>2
<1> QED
  BY <1>2, <1>3 DEF Back

\* A list that is gone stays so.
LEMMA GoneStays ==
  /\ CountPort(Gone) = Gone
  /\ \A before \in BOOLEAN : Back(Gone, before) = Gone
  /\ NewNode(Gone) = Nobody /\ ~AllPortsExplored(Gone)
<1>1. Gone.at = 0 /\ Gone.list = <<>> /\ Len(<<>>) = 0
  BY DEF Gone
<1>2. MoveNext(Gone) = Gone
  <2>1. ~(Gone.at < Len(Gone.list))
    BY <1>1
  <2> QED
    BY <2>1 DEF MoveNext
<1>3. MovePrev(Gone) = Gone
  BY <1>1 DEF MovePrev
<1> QED
  BY <1>2, <1>3 DEF CountPort, Back, NewNode, AllPortsExplored

\* If a node beside the one under the cursor is not in the list, the node asked
\* next is one of them.
LEMMA NewNodeFound ==
  ASSUME NEW t, OnEntry(t), NEW new \in DOMAIN t.list[t.at].table,
         t.list[t.at].table[new].id \notin Listed(t)
  PROVE  /\ NewNode(t) \in Node /\ NewNode(t) \notin Listed(t)
         /\ \E i \in DOMAIN t.list[t.at].table : t.list[t.at].table[i].id = NewNode(t)
<1> DEFINE table == t.list[t.at].table
           New(i) == table[i].id \notin Listed(t)
           First(i) == New(i) /\ \A j \in 1..(i - 1) : ~New(j)
<1>1. t # Gone /\ t.list[t.at] \in Entry
  BY OnEntryIs
<1>2. table \in Seq(Row)
  BY <1>1 DEF Entry, Table
<1>3. DOMAIN table = 1..Len(table) /\ Len(table) \in Nat /\ Len(table) <= 2
  BY <1>1, <1>2, SMTT(30) DEF Entry, Table
<1>4. NewNode(t) = IF \E i \in DOMAIN table : New(i)
                   THEN table[CHOOSE i \in DOMAIN table : First(i)].id ELSE Nobody
  BY <1>1, ZenonT(60) DEF NewNode
<1>5. \E i \in DOMAIN table : New(i)
  OBVIOUS
<1> HIDE DEF New
<1>6. \E i \in DOMAIN table : First(i)
  <2>1. CASE 1 \in DOMAIN table /\ New(1)
    <3>1. \A j \in 1..(1 - 1) : FALSE
      OBVIOUS
    <3> QED
      BY <2>1, <3>1
  <2>2. CASE ~(1 \in DOMAIN table /\ New(1))
    <3>1. \A i \in DOMAIN table : i = 1 \/ i = 2
      BY <1>3
    <3>2. 2 \in DOMAIN table /\ New(2) /\ 1 \in DOMAIN table
      BY <1>3, <1>5, <2>2, <3>1
    <3>3. \A j \in 1..(2 - 1) : j = 1
      OBVIOUS
    <3> QED
      BY <2>2, <3>2, <3>3
  <2> QED
    BY <2>1, <2>2
<1>7. PICK i : i \in DOMAIN table /\ First(i) /\ NewNode(t) = table[i].id
  BY <1>4, <1>5, <1>6
<1>8. table[i] \in Row
  BY <1>2, <1>7
<1> QED
  BY <1>7, <1>8 DEF Row, New

\* The node asked next, if there is one.
LEMMA NewNodeIs ==
  ASSUME NEW t, OnEntry(t), NewNode(t) # Nobody
  PROVE  /\ NewNode(t) \in Node /\ NewNode(t) \notin Listed(t)
         /\ \E i \in DOMAIN t.list[t.at].table : t.list[t.at].table[i].id = NewNode(t)
<1>1. t # Gone
  BY OnEntryIs
<1>2. \E i \in DOMAIN t.list[t.at].table : t.list[t.at].table[i].id \notin Listed(t)
  BY <1>1, ZenonT(60) DEF NewNode
<1> QED
  BY <1>2, NewNodeFound

\* If there is none to ask next, those beside it are all in the list.
LEMMA NoNewNode ==
  ASSUME NEW t, OnEntry(t), NewNode(t) = Nobody
  PROVE  \A k \in DOMAIN t.list[t.at].table : t.list[t.at].table[k].id \in Listed(t)
BY NewNodeFound, BusAssumption

(***************************************************************************)
(* Types                                                                   *)
(***************************************************************************)
Events == [type : {"start"}, caller : Caller]
          \cup [type : {"add"}, node : Node, table : Table]
          \cup [type : {"check", "timeout", "end"}]
Replies == [node : Node, table : Table]

\* The events that the walk puts in the queue.
LEMMA EventTypes ==
  /\ \A c \in Caller : Start(c) \in Events
  /\ \A r \in Replies : Add(r.node, r.table) \in Events
  /\ Event("check") \in Events /\ Event("timeout") \in Events /\ Event("end") \in Events
  /\ \A e \in Events :
       /\ e.type \in {"start", "add", "check", "timeout", "end"}
       /\ e.type = "start" => e.caller \in Caller /\ e = Start(e.caller)
       /\ e.type = "add" => e.node \in Node /\ e.table \in Table
<1> USE DEF Events
<1>1. \A c \in Caller : Start(c) \in Events
  BY DEF Start
<1>2. \A r \in Replies : Add(r.node, r.table) \in Events
  BY DEF Add, Replies
<1>3. Event("check") \in Events /\ Event("timeout") \in Events /\ Event("end") \in Events
  BY DEF Event
<1>4. \A e \in Events :
        /\ e.type \in {"start", "add", "check", "timeout", "end"}
        /\ e.type = "start" => e.caller \in Caller /\ e = Start(e.caller)
        /\ e.type = "add" => e.node \in Node /\ e.table \in Table
  BY DEF Start
<1> QED
  BY <1>1, <1>2, <1>3, <1>4

\* Taking an event from the queue and adding one.
LEMMA QueueTypes ==
  ASSUME queue \in Seq(Events)
  PROVE  /\ \A e \in Events : Append(queue, e) \in Seq(Events)
         /\ queue # <<>> =>
              /\ Head(queue) \in Events /\ Tail(queue) \in Seq(Events)
              /\ \A e \in Events : Append(Tail(queue), e) \in Seq(Events)
OBVIOUS

\* The walk's own steps keep the types of the list and of the queue.
LEMMA ThreadTypes ==
  ASSUME TypeOK, Hearing, Thread
  PROVE  TypeOK'
<1>q. queue \in Seq(Events) /\ replies \subseteq Replies
  BY DEF TypeOK, Events, Replies
<1>g. GoodList(topology) /\ insertBefore \in BOOLEAN
  BY DEF TypeOK, GoodList, OnEntry, Lists
<1>n. given \in [Caller -> Seq(Seq(Node))] /\ client \in Caller
  BY DEF TypeOK
<1>0. /\ UNCHANGED <<up, heard>>
      /\ queue' \in Seq(Events)
      /\ GoodList(topology')
      /\ client' \in Caller /\ inProgress' \in BOOLEAN /\ sentRequest' \in BOOLEAN
      /\ target' \in Node \cup {Nobody} /\ insertBefore' \in BOOLEAN
      /\ timer' \in BOOLEAN /\ requests' \subseteq Node /\ replies' \subseteq Replies
      /\ given' \in [Caller -> Seq(Seq(Node))] /\ trouble' \subseteq {"silence", "change"}
  <2>t. /\ client \in Caller /\ inProgress \in BOOLEAN /\ sentRequest \in BOOLEAN
        /\ target \in Node \cup {Nobody} /\ insertBefore \in BOOLEAN
        /\ timer \in BOOLEAN /\ requests \subseteq Node /\ replies \subseteq Replies
        /\ trouble \subseteq {"silence", "change"}
    BY DEF TypeOK, Replies
  <2>m. \A t : GoodList(t) /\ queue # <<>> /\ MoveOn(t) =>
               GoodList(topology') /\ queue' \in Seq(Events)
    BY <1>q, QueueTypes, EventTypes DEF MoveOn, Then
  <2>1. CASE HandleStart
    <3>0. /\ queue # <<>> /\ Head(queue) \in Events /\ Head(queue).caller \in Caller
          /\ Tail(queue) \in Seq(Events)
      BY <1>q, <2>1, QueueTypes, EventTypes DEF HandleStart, Got
    <3>1. CASE ~inProgress
      <4>1. RootEntry \in Entry
        BY BusAssumption, TableType DEF RootEntry, Entry
      <4>2. PICK list : list = <<RootEntry>>
        OBVIOUS
      <4>3. list \in Seq(Entry) /\ 1 \in DOMAIN list
        BY <4>1, <4>2
      <4>4. topology' = [list |-> list, at |-> 1]
        BY <2>1, <3>1, <4>2 DEF HandleStart
      <4>5. GoodList(topology')
        BY <4>3, <4>4 DEF GoodList, OnEntry, Lists
      <4>6. queue' \in Seq(Events)
        BY <1>q, <2>1, <3>0, <3>1, QueueTypes, EventTypes DEF HandleStart, Then
      <4> QED
        BY <1>n, <2>1, <2>t, <3>0, <3>1, <4>5, <4>6 DEF HandleStart, bus, net
    <3>2. CASE inProgress
      <4>1. /\ given' = [given EXCEPT ![Head(queue).caller] = Append(@, Busy)]
            /\ queue' = Tail(queue) /\ UNCHANGED <<walk, trouble>>
        BY <2>1, <3>2 DEF HandleStart
      <4>2. Busy \in Seq(Node)
        BY DEF Busy
      <4>3. given' \in [Caller -> Seq(Seq(Node))]
        BY <1>n, <3>0, <4>1, <4>2
      <4> QED
        BY <1>g, <2>1, <2>t, <3>0, <4>1, <4>3 DEF HandleStart, walk, bus, net
    <3> QED
      BY <2>t, <3>1, <3>2
  <2>2. CASE HandleCheck
    <3>0. queue # <<>> /\ Tail(queue) \in Seq(Events)
      BY <1>q, <2>2, QueueTypes DEF HandleCheck, Got
    <3>c. \A t : GoodList(t) => GoodList(CountPort(t))
      BY CountPortIs, GoneStays DEF GoodList
    <3>i. insertBefore' \in BOOLEAN
      BY <1>g, <2>2 DEF HandleCheck
    <3>1. CASE AllPortsExplored(topology)
      <4>1. GoodList(topology') /\ queue' \in Seq(Events)
        <5>1. CASE IsRoot(topology)
          BY <1>g, <1>q, <2>2, <3>0, <3>1, <5>1, QueueTypes, EventTypes
          DEF HandleCheck, Then
        <5>2. CASE ~IsRoot(topology)
          <6>1. MoveOn(Back(topology, insertBefore))
            BY <2>2, <3>1, <5>2 DEF HandleCheck
          <6>2. GoodList(Back(topology, insertBefore))
            BY <1>g, BackIs, GoneStays DEF GoodList
          <6> QED
            BY <2>m, <3>0, <6>1, <6>2
        <5> QED
          BY <5>1, <5>2
      <4> QED
        BY <1>n, <2>2, <2>t, <3>1, <3>i, <4>1 DEF HandleCheck, AskNothing, bus, net
    <3>2. CASE ~AllPortsExplored(topology) /\ NewNode(topology) # Nobody
      <4>1. Ask(NewNode(topology))
        BY <2>2, <3>2 DEF HandleCheck
      <4>2. NewNode(topology) \in Node
        BY <1>g, <3>2, NewNodeIs, GoneStays DEF GoodList
      <4>3. GoodList(topology')
        BY <1>g, <3>c, <4>1 DEF Ask
      <4> QED
        BY <1>n, <2>2, <2>t, <3>0, <3>i, <4>1, <4>2, <4>3 DEF HandleCheck, Ask, bus
    <3>3. CASE ~AllPortsExplored(topology) /\ NewNode(topology) = Nobody
      <4>1. MoveOn(Back(CountPort(topology), insertBefore')) /\ AskNothing
        BY <2>2, <3>3 DEF HandleCheck, Ask
      <4>2. GoodList(Back(CountPort(topology), insertBefore'))
        <5>1. GoodList(CountPort(topology))
          BY <1>g, <3>c
        <5> QED
          BY <3>i, <5>1, BackIs, GoneStays DEF GoodList
      <4>3. GoodList(topology') /\ queue' \in Seq(Events)
        BY <2>m, <3>0, <4>1, <4>2
      <4> QED
        BY <1>n, <2>2, <2>t, <3>i, <4>1, <4>3 DEF HandleCheck, AskNothing, bus, net
    <3> QED
      BY <3>1, <3>2, <3>3
  <2>3. CASE HandleAdd
    <3>0. queue # <<>> /\ Head(queue).node \in Node /\ Head(queue).table \in Table
      BY <1>q, <2>3, QueueTypes, EventTypes DEF HandleAdd, Got
    <3> DEFINE entry == [node |-> Head(queue).node, explored |-> 0,
                         table |-> Head(queue).table]
    <3>1. entry \in Entry
      BY <3>0 DEF Entry
    <3>a. IF topology = Gone \/ Head(queue).node \in Listed(topology)
          THEN MoveOn(topology) ELSE MoveOn(CountPort(Insert(topology, entry)))
      BY <2>3 DEF HandleAdd
    <3>2. \/ MoveOn(topology)
          \/ topology # Gone /\ MoveOn(CountPort(Insert(topology, entry)))
      <4>1. CASE topology = Gone \/ Head(queue).node \in Listed(topology)
        BY <3>a, <4>1
      <4>2. CASE ~(topology = Gone \/ Head(queue).node \in Listed(topology))
        BY <3>a, <4>2
      <4> QED
        BY <4>1, <4>2
    <3> HIDE DEF entry
    <3>3. topology # Gone => GoodList(CountPort(Insert(topology, entry)))
      BY <1>g, <3>1, InsertIs, CountPortIs DEF GoodList
    <3>4. GoodList(topology') /\ queue' \in Seq(Events)
      BY <1>g, <2>m, <3>0, <3>2, <3>3
    <3> QED
      BY <1>n, <2>3, <2>t, <3>4 DEF HandleAdd, bus, net
  <2>4. CASE HandleTimeout
    <3>0. queue # <<>> /\ MoveOn(Back(topology, insertBefore))
      BY <2>4 DEF HandleTimeout, Got
    <3>1. GoodList(Back(topology, insertBefore))
      BY <1>g, BackIs, GoneStays DEF GoodList
    <3>2. GoodList(topology') /\ queue' \in Seq(Events)
      BY <2>m, <3>0, <3>1
    <3> QED
      BY <1>n, <2>4, <2>t, <3>2 DEF HandleTimeout, bus, net
  <2>5. CASE HandleEnd
    <3>0. Tail(queue) \in Seq(Events)
      BY <1>q, <2>5, QueueTypes DEF HandleEnd, Got
    <3>1. Nodes(topology) \in Seq(Node)
      <4>1. topology.list \in Seq(Entry)
        BY DEF TypeOK
      <4>a. \A e \in Entry : e.node \in Node
        BY DEF Entry
      <4>2. /\ Len(topology.list) \in Nat /\ DOMAIN topology.list = 1..Len(topology.list)
            /\ \A i \in 1..Len(topology.list) : topology.list[i].node \in Node
        BY <4>1, <4>a
      <4>3. Nodes(topology) \in [1..Len(topology.list) -> Node]
        BY <4>2 DEF Nodes
      <4> QED
        BY <4>2, <4>3
    <3>2. given' \in [Caller -> Seq(Seq(Node))]
      BY <1>n, <2>5, <3>1 DEF HandleEnd
    <3> QED
      BY <1>n, <2>5, <2>t, <3>0, <3>2 DEF HandleEnd, GoodList, bus, net
  <2> QED
    BY <2>1, <2>2, <2>3, <2>4, <2>5 DEF Thread
<1>1. /\ topology' \in [list : Seq(Entry), at : Nat]
      /\ topology' = Gone \/ topology'.at \in DOMAIN topology'.list
  <2>1. Gone \in Lists
    BY DEF Gone, Lists
  <2>2. GoodList(topology')
    BY <1>0
  <2> QED
    BY <2>1, <2>2 DEF GoodList, OnEntry, Lists
<1>2. up' \subseteq Link /\ heard' \in [Node -> Seq(Node)]
  BY <1>0 DEF TypeOK
<1> QED
  BY <1>0, <1>1, <1>2 DEF TypeOK, Events, Replies

\* So do frames, the timer, and what is outside.
LEMMA OtherTypes ==
  ASSUME TypeOK, Hearing,
         \/ \E c \in Caller : StartWalk(c)
         \/ TopologyTimer
         \/ Network
         \/ \E l \in Link : Heartbeats(l) \/ LinkUp(l) \/ LinkDown(l)
  PROVE  TypeOK'
<1>q. queue \in Seq(Events) /\ replies \subseteq Replies /\ requests \subseteq Node
  BY DEF TypeOK, Events, Replies
<1> USE DEF walk, net, bus
<1>1. ASSUME NEW c \in Caller, StartWalk(c)
      PROVE  TypeOK'
  <2>1. queue' \in Seq(Events)
    BY <1>q, <1>1, QueueTypes, EventTypes DEF StartWalk
  <2>2. given' \in [Caller -> Seq(Seq(Node))]
    <3>1. <<>> \in Seq(Seq(Node))
      OBVIOUS
    <3> QED
      BY <1>1, <3>1 DEF StartWalk, TypeOK
  <2> QED
    BY <1>1, <2>1, <2>2 DEF StartWalk, TypeOK, Events
<1>2. CASE TopologyTimer
  <2>1. queue' \in Seq(Events)
    BY <1>q, <1>2, QueueTypes, EventTypes DEF TopologyTimer
  <2> QED
    BY <1>2, <2>1 DEF TopologyTimer, TypeOK, Events
<1>3. ASSUME NEW n \in requests, Answer(n)
      PROVE  TypeOK'
  <2>1. [node |-> n, table |-> TableOf(n)] \in Replies
    BY <1>q, TableType DEF Replies
  <2>2. replies' \subseteq Replies /\ requests' \subseteq Node
    BY <1>q, <1>3, <2>1 DEF Answer
  <2> QED
    BY <1>3, <2>2 DEF Answer, TypeOK, Replies
<1>4. ASSUME NEW r \in replies, Reply(r)
      PROVE  TypeOK'
  <2>1. queue' \in Seq(Events)
    BY <1>q, <1>4, QueueTypes, EventTypes DEF Reply
  <2>2. timer' \in BOOLEAN
    BY <1>4 DEF Reply, TypeOK
  <2> QED
    BY <1>4, <2>1, <2>2 DEF Reply, TypeOK, Events
<1>5. ASSUME NEW n \in requests, LoseRequest(n)
      PROVE  TypeOK'
  BY <1>5 DEF LoseRequest, TypeOK
<1>6. ASSUME NEW r \in replies, LoseReply(r)
      PROVE  TypeOK'
  BY <1>6 DEF LoseReply, TypeOK
<1>7. ASSUME NEW l \in Link, LinkUp(l) \/ LinkDown(l)
      PROVE  TypeOK'
  BY <1>7 DEF LinkUp, LinkDown, TypeOK
<1>8. ASSUME NEW l \in Link, Heartbeats(l)
      PROVE  TypeOK'
  <2>1. heard' \in [Node -> Seq(Node)]
    BY <1>8, HearingKept DEF Hearing
  <2> QED
    BY <1>8, <2>1 DEF Heartbeats, TypeOK
<1> QED
  BY <1>1, <1>2, <1>3, <1>4, <1>5, <1>6, <1>7, <1>8 DEF Network

\* The types are kept by every step.
LEMMA NextTypes == TypeOK /\ Hearing /\ [Next]_vars => TypeOK'
<1> SUFFICES ASSUME TypeOK, Hearing, [Next]_vars PROVE TypeOK'
  OBVIOUS
<1>1. CASE UNCHANGED vars
  BY <1>1 DEF vars, bus, walk, net, TypeOK
<1> QED
  BY <1>1, ThreadTypes, OtherTypes DEF Next

LEMMA InitTypes == Init => TypeOK
<1> SUFFICES ASSUME Init PROVE TypeOK
  OBVIOUS
<1>1. heard \in [Node -> Seq(Node)]
  BY HearingInit DEF Hearing
<1>2. queue \in Seq(Events)
  BY DEF Init
<1>3. topology \in [list : Seq(Entry), at : Nat] /\ topology = Gone
  BY DEF Init, Gone
<1>4. given \in [Caller -> Seq(Seq(Node))]
  BY DEF Init
<1> QED
  BY <1>1, <1>2, <1>3, <1>4 DEF Init, TypeOK, Events

\* Every variable keeps its type on a bus of any length: no neighbor table has
\* more rows than a node has ports, and the cursor is on an entry of the list
\* (bcmp_topology.cpp, free_list and the cursor's moves).
THEOREM TypeCorrect == Spec => []TypeOK
<1> QED
  BY InitTypes, NextTypes, HearingInit, HearingNext, PTL DEF Spec

(***************************************************************************)
(* One thing to wait for                                                   *)
(*                                                                         *)
(* A walk waits for an event of its own in the queue or for the timer.     *)
(* While the timer runs, one frame is on its way, for the node asked or    *)
(* from it; when no frame outlasts the timer, none is left for the next.   *)
(***************************************************************************)
Steps(q) == \E i \in DOMAIN q : q[i].type # "start"
Single(q) ==
  \A i, j \in DOMAIN q : q[i].type # "start" /\ q[j].type # "start" => i = j

\* An event more in a queue.
LEMMA EventAdded ==
  ASSUME NEW S, NEW q \in Seq(S), NEW e \in S
  PROVE  /\ e.type = "start" => /\ Steps(Append(q, e)) <=> Steps(q)
                                /\ Single(q) => Single(Append(q, e))
         /\ e.type # "start" => /\ Steps(Append(q, e))
                                /\ ~Steps(q) => Single(Append(q, e))
<1> DEFINE new == Append(q, e)
<1>1. /\ Len(q) \in Nat /\ DOMAIN q = 1..Len(q) /\ DOMAIN new = 1..(Len(q) + 1)
      /\ \A i \in DOMAIN q : new[i] = q[i]
      /\ new[Len(q) + 1] = e
  OBVIOUS
<1>2. /\ \A i \in DOMAIN new : i \in DOMAIN q \/ i = Len(q) + 1
      /\ \A i \in DOMAIN q : i \in DOMAIN new
      /\ Len(q) + 1 \in DOMAIN new
  BY <1>1
<1> HIDE DEF new
<1>3. Steps(new) <=> Steps(q) \/ e.type # "start"
  BY <1>1, <1>2 DEF Steps
<1>4. Single(q) /\ e.type = "start" => Single(new)
  BY <1>1, <1>2 DEF Single
<1>5. ~Steps(q) => Single(new)
  BY <1>1, <1>2 DEF Single, Steps
<1> QED
  BY <1>3, <1>4, <1>5 DEF new

\* An event fewer.
LEMMA EventTaken ==
  ASSUME NEW S, NEW q \in Seq(S), q # <<>>
  PROVE  /\ Single(q) => Single(Tail(q))
         /\ Head(q).type = "start" => (Steps(Tail(q)) <=> Steps(q))
         /\ Head(q).type # "start" => Steps(q) /\ (Single(q) => ~Steps(Tail(q)))
<1> DEFINE new == Tail(q)
<1>1. /\ Len(q) \in Nat \ {0} /\ DOMAIN q = 1..Len(q) /\ DOMAIN new = 1..(Len(q) - 1)
      /\ \A i \in DOMAIN new : new[i] = q[i + 1]
      /\ Head(q) = q[1]
  OBVIOUS
<1>2. /\ \A i \in DOMAIN q : i = 1 \/ (i - 1 \in DOMAIN new /\ (i - 1) + 1 = i)
      /\ \A i \in DOMAIN new : i + 1 \in DOMAIN q /\ i + 1 # 1
      /\ 1 \in DOMAIN q
      /\ \A i, j \in DOMAIN new : i + 1 = j + 1 => i = j
  BY <1>1
<1> HIDE DEF new
<1>3. Steps(q) <=> Steps(new) \/ Head(q).type # "start"
  BY <1>1, <1>2 DEF Steps
<1>4. Single(q) => Single(new)
  BY <1>1, <1>2 DEF Single
<1>5. ASSUME Head(q).type # "start", Single(q), Steps(new)
      PROVE  FALSE
  <2>1. PICK i \in DOMAIN new : new[i].type # "start"
    BY <1>5 DEF Steps
  <2>2. /\ i + 1 \in DOMAIN q /\ 1 \in DOMAIN q /\ i + 1 # 1
        /\ q[i + 1].type # "start" /\ q[1].type # "start"
    BY <1>1, <1>2, <1>5, <2>1
  <2> QED
    BY <1>5, <2>2 DEF Single
<1> QED
  BY <1>3, <1>4, <1>5 DEF new

\* The frames of one request.
Flight ==
  /\ ~timer => requests = {} /\ replies = {}
  /\ requests \subseteq {target} /\ \A r \in replies : r.node = target
  /\ requests = {} \/ replies = {}
  /\ \A r, s \in replies : r = s
  /\ inProgress <=> sentRequest

\* OneStep in terms of the queue.
LEMMA OneStepIs ==
  OneStep <=> /\ Single(queue)
              /\ timer => ~Steps(queue)
              /\ inProgress <=> timer \/ Steps(queue)
BY DEF OneStep, Pending, Single, Steps

\* A step that ends with one event of the walk in place of another.
LEMMA GoesOn ==
  ASSUME TypeOK, OneStep, Flight, queue # <<>>, Head(queue).type # "start",
         NEW e \in Events, e.type # "start", queue' = Append(Tail(queue), e),
         UNCHANGED <<timer, net, target, inProgress, sentRequest>>
  PROVE  OneStep' /\ Flight'
<1>1. queue \in Seq(Events) /\ Tail(queue) \in Seq(Events)
  BY QueueTypes DEF TypeOK, Events
<1>2. Steps(queue) /\ ~Steps(Tail(queue)) /\ ~timer /\ inProgress
  BY <1>1, EventTaken, OneStepIs
<1>3. Steps(queue') /\ Single(queue')
  BY <1>1, <1>2, EventAdded
<1>4. OneStep'
  BY <1>2, <1>3, OneStepIs DEF OneStep, Pending, Single, Steps
<1>5. Flight'
  BY DEF Flight, net
<1> QED
  BY <1>4, <1>5

\* The topology thread's steps.
LEMMA ThreadOneStep ==
  ASSUME TypeOK, OneStep, Flight, Thread
  PROVE  OneStep' /\ Flight'
<1>q. queue \in Seq(Events)
  BY DEF TypeOK, Events
<1>b. inProgress \in BOOLEAN /\ sentRequest \in BOOLEAN /\ timer \in BOOLEAN
  BY DEF TypeOK
<1>e. /\ Event("check") \in Events /\ Event("check").type # "start"
      /\ Event("end") \in Events /\ Event("end").type # "start"
  BY EventTypes DEF Event
<1>o. /\ Single(queue) /\ (timer => ~Steps(queue))
      /\ inProgress <=> timer \/ Steps(queue)
  BY OneStepIs
<1>n. /\ Single(queue') /\ (timer' => ~Steps(queue'))
      /\ inProgress' <=> timer' \/ Steps(queue')
      => OneStep'
  BY DEF OneStep, Pending, Single, Steps
<1>1. CASE HandleStart
  <2>1. queue # <<>> /\ Head(queue).type = "start" /\ Tail(queue) \in Seq(Events)
    BY <1>q, <1>1, QueueTypes DEF HandleStart, Got
  <2>2. (Steps(Tail(queue)) <=> Steps(queue)) /\ Single(Tail(queue))
    BY <1>q, <1>o, <2>1, EventTaken
  <2>3. CASE ~inProgress
    <3>1. /\ queue' = Append(Tail(queue), Event("check"))
          /\ inProgress' /\ sentRequest'
          /\ UNCHANGED <<target, timer, requests, replies>>
      BY <1>1, <2>3 DEF HandleStart, Then, net
    <3>2. Steps(queue') /\ Single(queue') /\ ~timer
      BY <1>e, <1>o, <2>1, <2>2, <2>3, <3>1, EventAdded
    <3>3. OneStep'
      BY <1>n, <3>1, <3>2
    <3>4. Flight'
      BY <3>1 DEF Flight
    <3> QED
      BY <3>3, <3>4
  <2>4. CASE inProgress
    <3>1. /\ queue' = Tail(queue)
          /\ UNCHANGED <<target, timer, requests, replies, inProgress, sentRequest>>
      BY <1>1, <2>4 DEF HandleStart, walk, net
    <3>2. OneStep'
      BY <1>n, <1>o, <2>2, <3>1
    <3>3. Flight'
      BY <3>1 DEF Flight
    <3> QED
      BY <3>2, <3>3
  <2> QED
    BY <2>3, <2>4
<1>2. ASSUME Got("check") \/ Got("add") \/ Got("timeout") \/ Got("end")
      PROVE  /\ queue # <<>> /\ Head(queue).type # "start" /\ Tail(queue) \in Seq(Events)
             /\ ~Steps(Tail(queue)) /\ Single(Tail(queue)) /\ ~timer /\ inProgress
  <2>1. queue # <<>> /\ Head(queue).type # "start" /\ Tail(queue) \in Seq(Events)
    BY <1>2, <1>q, QueueTypes DEF Got
  <2> QED
    BY <1>q, <1>o, <2>1, EventTaken
<1>3. CASE HandleCheck
  <2>0. Got("check")
    BY <1>3 DEF HandleCheck
  <2>1. CASE queue' = Append(Tail(queue), Event("end")) /\ AskNothing
    BY <1>2, <1>3, <1>e, <2>0, <2>1, GoesOn DEF HandleCheck, AskNothing
  <2>2. CASE queue' = Append(Tail(queue), Event("check")) /\ AskNothing
    BY <1>2, <1>3, <1>e, <2>0, <2>2, GoesOn DEF HandleCheck, AskNothing
  <2>3. ASSUME NEW n, Ask(n)
        PROVE  OneStep' /\ Flight'
    <3>1. /\ queue' = Tail(queue) /\ timer' = TRUE /\ target' = n
          /\ requests' = requests \cup {n} /\ replies' = replies
          /\ UNCHANGED <<inProgress, sentRequest>>
      BY <1>3, <2>3 DEF HandleCheck, Ask
    <3>2. requests = {} /\ replies = {}
      BY <1>2, <2>0 DEF Flight
    <3>3. OneStep'
      BY <1>2, <1>n, <2>0, <3>1
    <3>4. Flight'
      BY <3>1, <3>2 DEF Flight
    <3> QED
      BY <3>3, <3>4
  <2>4. \/ queue' = Append(Tail(queue), Event("end")) /\ AskNothing
        \/ queue' = Append(Tail(queue), Event("check")) /\ AskNothing
        \/ \E n : Ask(n)
    BY <1>3 DEF HandleCheck, MoveOn, Then
  <2> QED
    BY <2>1, <2>2, <2>3, <2>4
<1>4. CASE HandleAdd
  <2>1. Got("add") /\ queue' = Append(Tail(queue), Event("check"))
    BY <1>4 DEF HandleAdd, MoveOn, Then
  <2> QED
    BY <1>2, <1>4, <1>e, <2>1, GoesOn DEF HandleAdd
<1>5. CASE HandleTimeout
  <2>1. Got("timeout") /\ queue' = Append(Tail(queue), Event("check"))
    BY <1>5 DEF HandleTimeout, MoveOn, Then
  <2> QED
    BY <1>2, <1>5, <1>e, <2>1, GoesOn DEF HandleTimeout
<1>6. CASE HandleEnd
  <2>1. /\ Got("end") /\ queue' = Tail(queue) /\ ~inProgress' /\ ~sentRequest'
        /\ UNCHANGED <<target, timer, requests, replies>>
    BY <1>6 DEF HandleEnd, net
  <2>2. OneStep'
    BY <1>2, <1>n, <2>1
  <2>3. Flight'
    BY <2>1 DEF Flight
  <2> QED
    BY <2>2, <2>3
<1> QED
  BY <1>1, <1>3, <1>4, <1>5, <1>6 DEF Thread

\* Frames, the timer and what is outside.
LEMMA OtherOneStep ==
  ASSUME TypeOK, OneStep, Flight, "late" \notin Faults,
         \/ \E c \in Caller : StartWalk(c)
         \/ TopologyTimer
         \/ Network
         \/ \E l \in Link : Heartbeats(l) \/ LinkUp(l) \/ LinkDown(l)
  PROVE  OneStep' /\ Flight'
<1>q. queue \in Seq(Events) /\ replies \subseteq Replies
  BY DEF TypeOK, Events, Replies
<1>b. inProgress \in BOOLEAN /\ sentRequest \in BOOLEAN /\ timer \in BOOLEAN
  BY DEF TypeOK
<1>o. /\ Single(queue) /\ (timer => ~Steps(queue))
      /\ inProgress <=> timer \/ Steps(queue)
  BY OneStepIs
<1>n. /\ Single(queue') /\ (timer' => ~Steps(queue'))
      /\ inProgress' <=> timer' \/ Steps(queue')
      => OneStep'
  BY DEF OneStep, Pending, Single, Steps
<1>1. ASSUME NEW c \in Caller, StartWalk(c)
      PROVE  OneStep' /\ Flight'
  <2>1. /\ queue' = Append(queue, Start(c)) /\ Start(c).type = "start"
        /\ Start(c) \in Events
        /\ UNCHANGED <<target, timer, requests, replies, inProgress, sentRequest>>
    BY <1>1, EventTypes DEF StartWalk, Start, walk, net
  <2>2. (Steps(queue') <=> Steps(queue)) /\ Single(queue')
    BY <1>q, <1>o, <2>1, EventAdded
  <2>3. OneStep'
    BY <1>n, <1>o, <2>1, <2>2
  <2>4. Flight'
    BY <2>1 DEF Flight
  <2> QED
    BY <2>3, <2>4
<1>2. CASE TopologyTimer
  <2>1. /\ timer /\ ~timer' /\ requests = {} /\ replies = {}
        /\ queue' = Append(queue, Event("timeout")) /\ Event("timeout") \in Events
        /\ Event("timeout").type # "start"
        /\ UNCHANGED <<target, requests, replies, inProgress, sentRequest>>
    BY <1>2, EventTypes DEF TopologyTimer, Event, walk, net
  <2>2. Steps(queue') /\ Single(queue') /\ inProgress
    BY <1>q, <1>o, <2>1, EventAdded
  <2>3. OneStep'
    BY <1>n, <2>1, <2>2
  <2>4. Flight'
    BY <2>1 DEF Flight
  <2> QED
    BY <2>3, <2>4
<1>3. ASSUME UNCHANGED <<queue, walk, timer, net>>
      PROVE  OneStep' /\ Flight'
  BY <1>3, <1>n, <1>o DEF Flight, walk, net
<1>4. ASSUME NEW n \in requests, Answer(n)
      PROVE  OneStep' /\ Flight'
  <2>1. /\ UNCHANGED <<queue, timer, target, inProgress, sentRequest>>
        /\ requests' = requests \ {n}
        /\ replies' = replies \cup {[node |-> n, table |-> TableOf(n)]}
    BY <1>4 DEF Answer, walk
  <2>2. timer /\ n = target /\ replies = {} /\ requests' = {}
    BY <1>b, <2>1 DEF Flight
  <2>3. PICK r : r = [node |-> n, table |-> TableOf(n)]
    OBVIOUS
  <2>4. replies' = {r} /\ r.node = target
    BY <2>1, <2>2, <2>3
  <2>5. OneStep'
    BY <1>n, <1>o, <2>1
  <2>6. Flight'
    BY <2>1, <2>2, <2>4 DEF Flight
  <2> QED
    BY <2>5, <2>6
<1>5. ASSUME NEW r \in replies, Reply(r)
      PROVE  OneStep' /\ Flight'
  <2>1. timer /\ inProgress /\ sentRequest /\ r.node = target /\ requests = {}
        /\ ~Steps(queue) /\ replies \ {r} = {}
    BY <1>b, <1>o DEF Flight
  <2>2. /\ replies' = {} /\ requests' = {} /\ ~timer'
        /\ queue' = Append(queue, Add(r.node, r.table))
        /\ UNCHANGED <<target, inProgress, sentRequest>>
    BY <1>5, <2>1 DEF Reply, walk
  <2>3. /\ Add(r.node, r.table) \in Events /\ Add(r.node, r.table).type # "start"
    BY <1>q, EventTypes DEF Add
  <2>4. Steps(queue') /\ Single(queue')
    BY <1>q, <2>1, <2>2, <2>3, EventAdded
  <2>5. OneStep'
    BY <1>n, <2>1, <2>2, <2>4
  <2>6. Flight'
    BY <2>1, <2>2 DEF Flight
  <2> QED
    BY <2>5, <2>6
<1>6. ASSUME NEW n \in requests, LoseRequest(n)
      PROVE  OneStep' /\ Flight'
  <2>1. /\ UNCHANGED <<queue, timer, target, inProgress, sentRequest, replies>>
        /\ requests' = requests \ {n}
    BY <1>6 DEF LoseRequest, walk
  <2>2. OneStep'
    BY <1>n, <1>o, <2>1
  <2>3. Flight'
    BY <2>1 DEF Flight
  <2> QED
    BY <2>2, <2>3
<1>7. ASSUME NEW r \in replies, LoseReply(r)
      PROVE  OneStep' /\ Flight'
  <2>1. /\ UNCHANGED <<queue, timer, target, inProgress, sentRequest, requests>>
        /\ replies' = replies \ {r}
    BY <1>7 DEF LoseReply, walk
  <2>2. OneStep'
    BY <1>n, <1>o, <2>1
  <2>3. Flight'
    BY <2>1 DEF Flight
  <2> QED
    BY <2>2, <2>3
<1> QED
  BY <1>1, <1>2, <1>3, <1>4, <1>5, <1>6, <1>7
  DEF Network, Heartbeats, LinkUp, LinkDown

\* It is kept by every step.
LEMMA NextOneStep ==
  ASSUME "late" \notin Faults
  PROVE  TypeOK /\ OneStep /\ Flight /\ [Next]_vars => OneStep' /\ Flight'
<1> SUFFICES ASSUME TypeOK, OneStep, Flight, [Next]_vars
             PROVE  OneStep' /\ Flight'
  OBVIOUS
<1>1. CASE UNCHANGED vars
  BY <1>1 DEF vars, walk, net, OneStep, Pending, Flight
<1> QED
  BY <1>1, ThreadOneStep, OtherOneStep DEF Next

LEMMA InitOneStep == Init => OneStep /\ Flight
<1> SUFFICES ASSUME Init PROVE OneStep /\ Flight
  OBVIOUS
<1>1. DOMAIN <<>> = {}
  OBVIOUS
<1> QED
  BY <1>1 DEF Init, OneStep, Flight

\* A walk has one thing to wait for, on a bus of any length and whatever is
\* lost, if no frame outlasts the timer of a second: the timer that a reply
\* stops (bcmp_topology.cpp, bcmp_process_neighbor_table_reply) never leaves a
\* second chain of events behind.
THEOREM OneThingToWaitFor ==
  ASSUME "late" \notin Faults
  PROVE  Spec => []OneStep
<1> QED
  BY InitTypes, NextTypes, HearingInit, HearingNext, InitOneStep, NextOneStep, PTL
  DEF Spec

(***************************************************************************)
(* One answer for a call                                                   *)
(***************************************************************************)
Asked(q, c) == \E i \in DOMAIN q : q[i] = Start(c)
OnceEach(q) == \A i, j \in DOMAIN q : q[i].type = "start" /\ q[i] = q[j] => i = j

\* The calls in a queue that gets an event.
LEMMA CallAdded ==
  ASSUME NEW q \in Seq(Events), NEW e \in Events
  PROVE  /\ \A c \in Caller : Asked(Append(q, e), c) <=> Asked(q, c) \/ e = Start(c)
         /\ OnceEach(q) /\ (\A c \in Caller : e = Start(c) => ~Asked(q, c))
              => OnceEach(Append(q, e))
<1> DEFINE new == Append(q, e)
<1>1. /\ Len(q) \in Nat /\ DOMAIN q = 1..Len(q) /\ DOMAIN new = 1..(Len(q) + 1)
      /\ \A i \in DOMAIN q : new[i] = q[i]
      /\ new[Len(q) + 1] = e
  OBVIOUS
<1>2. /\ \A i \in DOMAIN new : i \in DOMAIN q \/ i = Len(q) + 1
      /\ \A i \in DOMAIN q : i \in DOMAIN new
      /\ Len(q) + 1 \in DOMAIN new
  BY <1>1
<1> HIDE DEF new
<1>3. \A c \in Caller : Asked(new, c) <=> Asked(q, c) \/ e = Start(c)
  BY <1>1, <1>2 DEF Asked
<1>4. ASSUME OnceEach(q), \A c \in Caller : e = Start(c) => ~Asked(q, c)
      PROVE  OnceEach(new)
  <2>1. e.type = "start" => \A i \in DOMAIN q : q[i] # e
    BY <1>4, EventTypes DEF Asked
  <2> QED
    BY <1>1, <1>2, <1>4, <2>1 DEF OnceEach
<1> QED
  BY <1>3, <1>4 DEF new

\* The calls in a queue from which an event is taken.
LEMMA CallTaken ==
  ASSUME NEW q \in Seq(Events), q # <<>>, OnceEach(q)
  PROVE  /\ OnceEach(Tail(q))
         /\ \A c \in Caller : Asked(Tail(q), c) <=> Asked(q, c) /\ Head(q) # Start(c)
         /\ \A c \in Caller : Head(q) = Start(c) => Asked(q, c)
<1> DEFINE new == Tail(q)
<1>1. /\ Len(q) \in Nat \ {0} /\ DOMAIN q = 1..Len(q) /\ DOMAIN new = 1..(Len(q) - 1)
      /\ \A i \in DOMAIN new : new[i] = q[i + 1]
      /\ Head(q) = q[1]
  OBVIOUS
<1>2. /\ \A i \in DOMAIN q : i = 1 \/ (i - 1 \in DOMAIN new /\ (i - 1) + 1 = i)
      /\ \A i \in DOMAIN new : i + 1 \in DOMAIN q /\ i + 1 # 1
      /\ 1 \in DOMAIN q
      /\ \A i, j \in DOMAIN new : i + 1 = j + 1 => i = j
  BY <1>1
<1> HIDE DEF new
<1>3. OnceEach(new)
  BY <1>1, <1>2 DEF OnceEach
<1>4. ASSUME NEW c \in Caller
      PROVE  Asked(new, c) <=> Asked(q, c) /\ Head(q) # Start(c)
  <2>1. ASSUME Asked(new, c) PROVE Asked(q, c) /\ Head(q) # Start(c)
    <3>1. PICK i \in DOMAIN new : new[i] = Start(c)
      BY <2>1 DEF Asked
    <3>2. i + 1 \in DOMAIN q /\ q[i + 1] = Start(c) /\ i + 1 # 1
      BY <1>1, <1>2, <3>1
    <3>3. q[1] # Start(c)
      BY <1>2, <3>2 DEF OnceEach, Start
    <3> QED
      BY <1>1, <3>2, <3>3 DEF Asked
  <2>2. ASSUME Asked(q, c), Head(q) # Start(c) PROVE Asked(new, c)
    <3>1. PICK i \in DOMAIN q : q[i] = Start(c)
      BY <2>2 DEF Asked
    <3>2. i - 1 \in DOMAIN new /\ new[i - 1] = Start(c)
      BY <1>1, <1>2, <2>2, <3>1
    <3> QED
      BY <3>2 DEF Asked
  <2> QED
    BY <2>1, <2>2
<1>5. \A c \in Caller : Head(q) = Start(c) => Asked(q, c)
  BY <1>1, <1>2 DEF Asked
<1> QED
  BY <1>3, <1>4, <1>5 DEF new

\* A caller has one call in the queue, or a walk, at a time.
Told ==
  /\ \A c \in Caller :
       /\ Len(given[c]) <= 1
       /\ Asked(queue, c) \/ (inProgress /\ client = c) => Len(given[c]) = 0
  /\ OnceEach(queue)
  /\ inProgress => ~Asked(queue, client)

LEMMA ToldIs ==
  ASSUME TypeOK, Told
  PROVE  ToldOnce
<1>1. \A c \in Caller : Waiting(c) <=> Asked(queue, c) \/ (inProgress /\ client = c)
  BY DEF Waiting, Asked
<1>2. \A c \in Caller : Len(given[c]) \in Nat
  BY DEF TypeOK
<1>3. ASSUME NEW c \in Caller
      PROVE  Len(given[c]) + (IF Waiting(c) THEN 1 ELSE 0) <= 1
  <2>1. CASE Waiting(c)
    BY <1>1, <2>1 DEF Told
  <2>2. CASE ~Waiting(c)
    BY <1>2, <2>2 DEF Told
  <2> QED
    BY <2>1, <2>2
<1> QED
  BY <1>3 DEF ToldOnce

\* Calls come and go.
LEMMA ToldNext ==
  ASSUME TypeOK, OneStep, Told, [Next]_vars
  PROVE  Told'
<1>q. queue \in Seq(Events) /\ replies \subseteq Replies
  BY DEF TypeOK, Events, Replies
<1>g. /\ \A c \in Caller : given[c] \in Seq(Seq(Node)) /\ Len(given[c]) \in Nat
      /\ DOMAIN given = Caller /\ client \in Caller
  BY DEF TypeOK
<1>t. /\ OnceEach(queue) /\ (inProgress => ~Asked(queue, client))
      /\ \A c \in Caller :
           /\ Len(given[c]) <= 1
           /\ Asked(queue, c) \/ (inProgress /\ client = c) => Len(given[c]) = 0
  BY DEF Told
<1>s. \A c, d : Start(c) = Start(d) => c = d
  <2>1. \A c : Start(c).caller = c
    BY DEF Start
  <2> QED
    BY <2>1
<1>1. ASSUME NEW c \in Caller, StartWalk(c)
      PROVE  Told'
  <2>1. /\ queue' = Append(queue, Start(c)) /\ Start(c) \in Events
        /\ ~Asked(queue, c) /\ ~(inProgress /\ client = c)
        /\ given' = [given EXCEPT ![c] = <<>>]
        /\ UNCHANGED <<inProgress, client>>
    BY <1>1, EventTypes DEF StartWalk, Waiting, Asked, walk
  <2>2. /\ \A d \in Caller : Asked(queue', d) <=> Asked(queue, d) \/ d = c
        /\ OnceEach(queue')
    BY <1>q, <1>s, <1>t, <2>1, CallAdded
  <2>3. \A d \in Caller : given'[d] = IF d = c THEN <<>> ELSE given[d]
    BY <1>g, <2>1
  <2>4. Len(<<>>) = 0
    OBVIOUS
  <2> QED
    BY <1>g, <1>t, <2>1, <2>2, <2>3, <2>4 DEF Told
<1>2. ASSUME NEW e \in Events, e.type # "start",
             \/ queue' = Append(queue, e)
             \/ /\ queue # <<>> /\ Head(queue).type # "start"
                /\ queue' = Append(Tail(queue), e) \/ queue' = Tail(queue),
             UNCHANGED <<inProgress, client, given>>
      PROVE  Told'
  <2>1. \A c : Start(c) # e
    BY <1>2 DEF Start
  <2>2. \A c : queue # <<>> /\ Head(queue).type # "start" => Start(c) # Head(queue)
    BY DEF Start
  <2>3. /\ OnceEach(queue')
        /\ \A d \in Caller : Asked(queue', d) <=> Asked(queue, d)
    <3>1. ASSUME NEW q \in Seq(Events), OnceEach(q)
          PROVE  /\ OnceEach(Append(q, e))
                 /\ \A d \in Caller : Asked(Append(q, e), d) <=> Asked(q, d)
      BY <2>1, <3>1, CallAdded
    <3>2. CASE queue' = Append(queue, e)
      BY <1>q, <1>t, <3>1, <3>2
    <3>3. CASE queue # <<>> /\ Head(queue).type # "start"
      <4>1. Tail(queue) \in Seq(Events)
        BY <1>q, <3>3, QueueTypes
      <4>2. /\ OnceEach(Tail(queue))
            /\ \A d \in Caller : Asked(Tail(queue), d) <=> Asked(queue, d)
        BY <1>q, <1>t, <2>2, <3>3, CallTaken
      <4>3. CASE queue' = Append(queue, e)
        BY <3>2, <4>3
      <4>4. CASE queue' = Append(Tail(queue), e)
        BY <3>1, <4>1, <4>2, <4>4
      <4>5. CASE queue' = Tail(queue)
        BY <4>2, <4>5
      <4> QED
        BY <1>2, <4>3, <4>4, <4>5
    <3> QED
      BY <1>2, <3>2, <3>3
  <2> QED
    BY <1>g, <1>t, <1>2, <2>3 DEF Told
<1>3. ASSUME UNCHANGED <<queue, inProgress, client, given>>
      PROVE  Told'
  BY <1>3, <1>t DEF Told
<1>4. CASE HandleStart
  <2> DEFINE d == Head(queue).caller
  <2>1. /\ queue # <<>> /\ Head(queue) = Start(d) /\ d \in Caller
        /\ Tail(queue) \in Seq(Events)
    BY <1>q, <1>4, QueueTypes, EventTypes DEF HandleStart, Got
  <2>2. /\ OnceEach(Tail(queue)) /\ Asked(queue, d)
        /\ \A c \in Caller : Asked(Tail(queue), c) <=> Asked(queue, c) /\ c # d
    BY <1>q, <1>s, <1>t, <2>1, CallTaken
  <2>3. CASE ~inProgress
    <3>1. /\ queue' = Append(Tail(queue), Event("check"))
          /\ inProgress' /\ client' = d /\ given' = given
          /\ Event("check") \in Events /\ \A c : Start(c) # Event("check")
      BY <1>4, <2>3, EventTypes DEF HandleStart, Then, Start, Event
    <3>2. /\ \A c \in Caller : Asked(queue', c) <=> Asked(queue, c) /\ c # d
          /\ OnceEach(queue')
      BY <2>1, <2>2, <3>1, CallAdded
    <3> HIDE DEF d
    <3> QED
      BY <1>t, <2>1, <2>2, <3>1, <3>2 DEF Told
  <2>4. CASE inProgress
    <3>1. /\ queue' = Tail(queue) /\ UNCHANGED <<inProgress, client>>
          /\ given' = [given EXCEPT ![d] = Append(@, Busy)]
      BY <1>4, <2>4 DEF HandleStart, walk
    <3> HIDE DEF d
    <3>2. Len(Append(given[d], Busy)) = 1
      <4>1. Busy \in Seq(Node) /\ given[d] \in Seq(Seq(Node)) /\ Len(given[d]) = 0
        BY <1>g, <1>t, <2>1, <2>2 DEF Busy
      <4> QED
        BY <4>1
    <3>3. \A c \in Caller : given'[c] = IF c = d THEN Append(given[d], Busy) ELSE given[c]
      BY <1>g, <3>1
    <3>4. client # d
      BY <1>t, <2>2, <2>4
    <3> QED
      BY <1>g, <1>t, <2>1, <2>2, <3>1, <3>2, <3>3, <3>4 DEF Told
  <2> QED
    BY <2>3, <2>4
<1>5. CASE HandleEnd
  <2>1. /\ queue # <<>> /\ Head(queue).type = "end" /\ queue' = Tail(queue) /\ ~inProgress'
        /\ client' = client
        /\ given' = [given EXCEPT ![client] = Append(@, Nodes(topology))]
    BY <1>5 DEF HandleEnd, Got
  <2>2. inProgress
    <3>1. Steps(queue)
      BY <1>q, <2>1, EventTaken
    <3> QED
      BY <3>1, OneStepIs
  <2>3. /\ \A c \in Caller : Asked(queue', c) <=> Asked(queue, c)
        /\ OnceEach(queue')
    <3>1. \A c : Start(c) # Head(queue)
      BY <2>1 DEF Start
    <3> QED
      BY <1>q, <1>t, <2>1, <3>1, CallTaken
  <2>4. Len(Append(given[client], Nodes(topology))) = 1
    <3>1. given[client] \in Seq(Seq(Node)) /\ Len(given[client]) = 0
      BY <1>g, <1>t, <2>2
    <3>2. given[client] = <<>>
      BY <3>1
    <3> QED
      BY <3>2
  <2>5. \A c \in Caller : given'[c] = IF c = client THEN Append(given[client], Nodes(topology))
                                      ELSE given[c]
    BY <1>g, <2>1
  <2> QED
    BY <1>g, <1>t, <2>1, <2>2, <2>3, <2>4, <2>5 DEF Told
<1>6. CASE HandleCheck \/ HandleAdd \/ HandleTimeout
  <2>1. /\ queue # <<>> /\ Head(queue).type # "start"
        /\ UNCHANGED <<inProgress, client, given>>
    BY <1>6 DEF HandleCheck, HandleAdd, HandleTimeout, Got
  <2>2. \/ queue' = Append(Tail(queue), Event("check"))
        \/ queue' = Append(Tail(queue), Event("end"))
        \/ queue' = Tail(queue)
    BY <1>6 DEF HandleCheck, HandleAdd, HandleTimeout, MoveOn, Then, Ask
  <2>3. /\ Event("check") \in Events /\ Event("check").type # "start"
        /\ Event("end") \in Events /\ Event("end").type # "start"
    BY EventTypes DEF Event
  <2> QED
    BY <1>2, <2>1, <2>2, <2>3
<1>7. CASE TopologyTimer
  <2>1. /\ queue' = Append(queue, Event("timeout"))
        /\ Event("timeout") \in Events /\ Event("timeout").type # "start"
        /\ UNCHANGED <<inProgress, client, given>>
    BY <1>7, EventTypes DEF TopologyTimer, Event, walk
  <2> QED
    BY <1>2, <2>1
<1>8. ASSUME NEW r \in replies, Reply(r)
      PROVE  Told'
  <2>1. /\ \/ queue' = Append(queue, Add(r.node, r.table))
           \/ queue' = queue
        /\ Add(r.node, r.table) \in Events /\ Add(r.node, r.table).type # "start"
        /\ UNCHANGED <<inProgress, client, given>>
    BY <1>q, <1>8, EventTypes DEF Reply, Add, walk
  <2> QED
    BY <1>2, <1>3, <2>1
<1>9. CASE \/ UNCHANGED vars
           \/ \E n \in requests : Answer(n) \/ LoseRequest(n)
           \/ \E r \in replies : LoseReply(r)
           \/ \E l \in Link : Heartbeats(l) \/ LinkUp(l) \/ LinkDown(l)
  <2>1. UNCHANGED <<queue, inProgress, client, given>>
    BY <1>9 DEF vars, Answer, LoseRequest, LoseReply, Heartbeats, LinkUp, LinkDown, walk
  <2> QED
    BY <1>3, <2>1
<1> QED
  BY <1>1, <1>4, <1>5, <1>6, <1>7, <1>8, <1>9 DEF Next, Thread, Network

LEMMA ToldInit == Init => Told
<1> SUFFICES ASSUME Init PROVE Told
  OBVIOUS
<1>1. \A c \in Caller : given[c] = <<>>
  BY DEF Init
<1>2. DOMAIN <<>> = {} /\ Len(<<>>) = 0
  OBVIOUS
<1> QED
  BY <1>1, <1>2 DEF Init, Told, Asked, OnceEach

\* A call of bcmp_topology_start is answered once at most, by its walk or by a
\* refusal (bcmp_topology.cpp, the end event and the start event).
THEOREM CallsAreToldOnce ==
  ASSUME "late" \notin Faults
  PROVE  Spec => []ToldOnce
<1>1. TypeOK /\ OneStep /\ Told /\ [Next]_vars => Told'
  BY ToldNext
<1>2. TypeOK /\ Told => ToldOnce
  BY ToldIs
<1> QED
  BY <1>1, <1>2, ToldInit, InitTypes, NextTypes, HearingInit, HearingNext,
     InitOneStep, NextOneStep, PTL
  DEF Spec

(***************************************************************************)
(* The order of the bus                                                    *)
(*                                                                         *)
(* A node is asked about only at the end of the list that grows: the far   *)
(* end until the root has asked for its second port, the near end after    *)
(* that.  This is so because the ports that were counted keep the cursor   *)
(* from asking anywhere else, which in turn needs a node that answered to  *)
(* know its way back.                                                      *)
(***************************************************************************)
Place(t, i) == Position(t.list[i].node)

InARow(t) ==
  \/ \A i \in 1..Len(t.list) : Place(t, i) = Place(t, 1) + i - 1
  \/ \A i \in 1..Len(t.list) : Place(t, i) = Place(t, 1) - i + 1

\* The cursor is at the end that grows.
Growing(t, before) == IF before THEN t.at = 1 ELSE t.at = Len(t.list)

Count(t, i) == t.list[i].explored
Ports(t, i) == UpCount(t.list[i].table)
IsRootAt(t, i) == t.list[i].node = Root

\* What was counted of each entry's ports; only a node just added may have one
\* left, and it is at the end that grows.
Counted(t, before, asking) ==
  /\ \E i \in 1..Len(t.list) : IsRootAt(t, i)
  /\ \A i \in 1..Len(t.list) : IsRootAt(t, i) =>
       /\ Count(t, i) <= Ports(t, i)
       /\ before => Count(t, i) = 2
       /\ ~before => i = 1 /\ Count(t, i) <= 1
       /\ Count(t, i) = 0 => Len(t.list) = 1 /\ ~asking
  /\ \A i \in 1..Len(t.list) : ~IsRootAt(t, i) =>
       \/ Count(t, i) = Ports(t, i)
       \/ /\ i = t.at /\ Count(t, i) = 1 /\ Ports(t, i) = 2
          /\ Growing(t, before) /\ ~asking

\* A table has at most two ports that are up.
LEMMA UpCountIs ==
  ASSUME NEW table \in Table
  PROVE  /\ UpCount(table) \in Nat /\ UpCount(table) <= 2
         /\ (\E i \in DOMAIN table : table[i].up) => UpCount(table) # 0
<1> DEFINE S == {i \in DOMAIN table : table[i].up}
<1>1. table \in Seq(Row) /\ Len(table) <= 2
  BY DEF Table
<1>2. Len(table) \in Nat /\ DOMAIN table = 1..Len(table)
  BY <1>1
<1>3. IsFiniteSet(1..2) /\ Cardinality(1..2) = 2
  <2>1. 1 \in Int /\ 2 \in Int
    OBVIOUS
  <2>2. IsFiniteSet(1..2) /\ Cardinality(1..2) = IF 1 > 2 THEN 0 ELSE 2 - 1 + 1
    BY <2>1, FS_Interval
  <2> QED
    BY <2>2
<1>4. S \in SUBSET (1..2)
  BY <1>1, <1>2
<1> HIDE DEF S
<1>5. IsFiniteSet(S) /\ Cardinality(S) <= 2
  BY <1>3, <1>4, FS_Subset
<1>6. Cardinality(S) \in Nat
  BY <1>5, FS_CardinalityType
<1>7. S # {} => Cardinality(S) # 0
  BY <1>5, FS_EmptySet
<1>8. UpCount(table) = Cardinality(S)
  BY DEF UpCount, S
<1>9. (\E i \in DOMAIN table : table[i].up) => S # {}
  BY DEF S
<1> QED
  BY <1>5, <1>6, <1>7, <1>8, <1>9

\* The parts of a list's entries.
LEMMA EntryParts ==
  ASSUME NEW t, OnEntry(t)
  PROVE  \A i \in 1..Len(t.list) :
           /\ t.list[i].node \in Node /\ t.list[i].table \in Table
           /\ Count(t, i) \in Nat
           /\ Ports(t, i) \in Nat /\ Ports(t, i) <= 2
           /\ Place(t, i) \in 1..Len(Bus) /\ Place(t, i) \in Int
<1> TAKE i \in 1..Len(t.list)
<1>1. t.list[i] \in Entry
  BY OnEntryIs
<1>2. t.list[i].node \in Node /\ t.list[i].table \in Table /\ Count(t, i) \in Nat
  BY <1>1 DEF Entry, Count
<1>3. Place(t, i) \in 1..Len(Bus) /\ Place(t, i) \in Int
  BY <1>2, Positions DEF Place
<1> QED
  BY <1>2, <1>3, UpCountIs DEF Ports

LEMMA CountPortParts ==
  ASSUME NEW t, OnEntry(t)
  PROVE  LET s == CountPort(t)
         IN  /\ OnEntry(s) /\ s.at = t.at /\ Len(s.list) = Len(t.list)
             /\ \A i \in 1..Len(t.list) :
                  /\ s.list[i].node = t.list[i].node /\ s.list[i].table = t.list[i].table
                  /\ Count(s, i) = Count(t, i) + (IF i = t.at THEN 1 ELSE 0)
<1> DEFINE s == CountPort(t)
<1>1. /\ OnEntry(s) /\ s.at = t.at /\ Len(s.list) = Len(t.list)
      /\ \A i \in 1..Len(t.list) :
           s.list[i] = IF i = t.at THEN [t.list[i] EXCEPT !.explored = @ + 1]
                       ELSE t.list[i]
  BY CountPortIs
<1> HIDE DEF s
<1>2. ASSUME NEW i \in 1..Len(t.list)
      PROVE  /\ s.list[i].node = t.list[i].node /\ s.list[i].table = t.list[i].table
             /\ Count(s, i) = Count(t, i) + (IF i = t.at THEN 1 ELSE 0)
  <2>1. t.list[i] \in Entry /\ t.list[i].explored \in Nat
    BY OnEntryIs DEF Entry
  <2>2. CASE i = t.at
    <3>1. s.list[i] = [t.list[i] EXCEPT !.explored = @ + 1]
      BY <1>1, <2>2
    <3>2. ASSUME NEW e \in Entry
          PROVE  LET f == [e EXCEPT !.explored = @ + 1]
                 IN  f.node = e.node /\ f.table = e.table /\ f.explored = e.explored + 1
      BY DEF Entry
    <3>3. /\ s.list[i].node = t.list[i].node /\ s.list[i].table = t.list[i].table
          /\ s.list[i].explored = t.list[i].explored + 1
      BY <2>1, <3>1, <3>2
    <3> QED
      BY <2>2, <3>3 DEF Count
  <2>3. CASE i # t.at
    <3>1. s.list[i] = t.list[i]
      BY <1>1, <2>3
    <3>2. t.list[i].explored = t.list[i].explored + 0
      BY <2>1
    <3> QED
      BY <2>3, <3>1, <3>2 DEF Count
  <2> QED
    BY <2>2, <2>3
<1> QED
  BY <1>1, <1>2 DEF s

\* Nodes in a row are different, and a node between two of them is one of them.
LEMMA RowIs ==
  ASSUME NEW t, OnEntry(t), InARow(t)
  PROVE  /\ \A i, j \in 1..Len(t.list) : t.list[i].node = t.list[j].node => i = j
         /\ \A i, j \in 1..Len(t.list), n \in Node :
              Place(t, i) < Position(n) /\ Position(n) < Place(t, j) => n \in Listed(t)
<1>0. /\ Len(t.list) \in Nat \ {0} /\ 1 \in 1..Len(t.list)
      /\ DOMAIN t.list = 1..Len(t.list)
      /\ \A i \in 1..Len(t.list) : Place(t, i) \in Int
      /\ \A i \in 1..Len(t.list) : t.list[i].node \in Node
  BY OnEntryIs, EntryParts
<1>1. \A i, j \in 1..Len(t.list) : Place(t, i) = Place(t, j) => i = j
  BY <1>0 DEF InARow
<1>2. \A i, j \in 1..Len(t.list) : t.list[i].node = t.list[j].node => i = j
  BY <1>1 DEF Place
<1>3. ASSUME NEW i \in 1..Len(t.list), NEW j \in 1..Len(t.list), NEW n \in Node,
             Place(t, i) < Position(n), Position(n) < Place(t, j)
      PROVE  n \in Listed(t)
  <2>0. Position(n) \in Int
    BY Positions
  <2>1. \E k \in 1..Len(t.list) : Place(t, k) = Position(n)
    <3>1. CASE \A k \in 1..Len(t.list) : Place(t, k) = Place(t, 1) + k - 1
      <4> DEFINE k == Position(n) - Place(t, 1) + 1
      <4>1. /\ Place(t, i) = Place(t, 1) + i - 1 /\ Place(t, j) = Place(t, 1) + j - 1
        BY <3>1
      <4>2. k \in 1..Len(t.list)
        BY <1>0, <1>3, <2>0, <4>1, SMTT(30)
      <4>3. Place(t, k) = Position(n)
        BY <1>0, <2>0, <3>1, <4>2, SMTT(30)
      <4> QED
        BY <4>2, <4>3
    <3>2. CASE \A k \in 1..Len(t.list) : Place(t, k) = Place(t, 1) - k + 1
      <4> DEFINE k == Place(t, 1) - Position(n) + 1
      <4>1. /\ Place(t, i) = Place(t, 1) - i + 1 /\ Place(t, j) = Place(t, 1) - j + 1
        BY <3>2
      <4>2. k \in 1..Len(t.list)
        BY <1>0, <1>3, <2>0, <4>1, SMTT(30)
      <4>3. Place(t, k) = Position(n)
        BY <1>0, <2>0, <3>2, <4>2, SMTT(30)
      <4> QED
        BY <4>2, <4>3
    <3> QED
      BY <3>1, <3>2 DEF InARow
  <2>2. PICK k \in 1..Len(t.list) : Place(t, k) = Position(n)
    BY <2>1
  <2>3. t.list[k].node = n
    BY <1>0, <2>2, Positions DEF Place
  <2> QED
    BY <1>0, <2>3 DEF Listed
<1> QED
  BY <1>2, <1>3

\* Counting and going back keep the row.
LEMMA RowStays ==
  ASSUME NEW t, OnEntry(t), InARow(t)
  PROVE  /\ InARow(CountPort(t)) /\ Listed(CountPort(t)) = Listed(t)
         /\ \A before \in BOOLEAN :
              InARow(Back(t, before)) /\ Listed(Back(t, before)) = Listed(t)
<1>1. /\ DOMAIN t.list = 1..Len(t.list) /\ 1 \in 1..Len(t.list)
      /\ DOMAIN CountPort(t).list = 1..Len(CountPort(t).list)
  BY OnEntryIs, CountPortParts
<1>2. InARow(CountPort(t)) /\ Listed(CountPort(t)) = Listed(t)
  <2>1. /\ Len(CountPort(t).list) = Len(t.list)
        /\ \A i \in 1..Len(t.list) : CountPort(t).list[i].node = t.list[i].node
    BY CountPortParts
  <2>2. \A i \in 1..Len(t.list) : Place(CountPort(t), i) = Place(t, i)
    BY <2>1 DEF Place
  <2>3. InARow(CountPort(t))
    BY <1>1, <2>1, <2>2 DEF InARow
  <2> QED
    BY <1>1, <2>1, <2>3 DEF Listed
<1>3. \A before \in BOOLEAN : Back(t, before).list = t.list
  BY BackIs
<1> QED
  BY <1>2, <1>3 DEF InARow, Place, Listed

\* Integers in a row, up or down.
Rising(f, n) == \A i \in 1..n : f[i] = f[1] + i - 1
Falling(f, n) == \A i \in 1..n : f[i] = f[1] - i + 1

\* A row gets one more at its front.
LEMMA RowBefore ==
  ASSUME NEW n \in Nat \ {0}, NEW f \in [1..n -> Int], NEW g \in [1..(n + 1) -> Int],
         Rising(f, n) \/ Falling(f, n),
         g[1] = f[1] + 1 \/ g[1] = f[1] - 1,
         \A i \in 1..n : f[i] # g[1] /\ g[i + 1] = f[i]
  PROVE  Rising(g, n + 1) \/ Falling(g, n + 1)
<1>0. /\ 1 \in 1..n /\ f[1] \in Int /\ g[1] \in Int
      /\ \A i \in 1..n : f[i] \in Int
  OBVIOUS
<1>1. ASSUME NEW i \in 1..(n + 1), i # 1
      PROVE  i - 1 \in 1..n /\ g[i] = f[i - 1]
  <2>1. i - 1 \in 1..n /\ (i - 1) + 1 = i
    BY <1>1
  <2>2. g[(i - 1) + 1] = f[i - 1]
    BY <2>1
  <2> QED
    BY <2>1, <2>2
<1>2. CASE Rising(f, n) /\ g[1] = f[1] - 1
  <2>1. ASSUME NEW i \in 1..(n + 1)
        PROVE  g[i] = g[1] + i - 1
    <3>1. CASE i = 1
      BY <1>0, <3>1
    <3>2. CASE i # 1
      <4>1. g[i] = f[i - 1] /\ f[i - 1] = f[1] + (i - 1) - 1
        BY <1>1, <1>2, <3>2 DEF Rising
      <4> QED
        BY <1>0, <1>2, <4>1
    <3> QED
      BY <3>1, <3>2
  <2> QED
    BY <2>1 DEF Rising
<1>3. CASE Falling(f, n) /\ g[1] = f[1] + 1
  <2>1. ASSUME NEW i \in 1..(n + 1)
        PROVE  g[i] = g[1] - i + 1
    <3>1. CASE i = 1
      BY <1>0, <3>1
    <3>2. CASE i # 1
      <4>1. g[i] = f[i - 1] /\ f[i - 1] = f[1] - (i - 1) + 1
        BY <1>1, <1>3, <3>2 DEF Falling
      <4> QED
        BY <1>0, <1>3, <4>1
    <3> QED
      BY <3>1, <3>2
  <2> QED
    BY <2>1 DEF Falling
<1>4. CASE n = 1
  <2>1. \A i \in 1..(n + 1) : i = 1 \/ i = 2
    BY <1>4
  <2>2. g[2] = f[1]
    <3>1. g[1 + 1] = f[1] /\ 1 + 1 = 2
      BY <1>0
    <3> QED
      BY <3>1
  <2>3. CASE g[1] = f[1] + 1
    <3>a. \A a \in Int : a + 1 = (a + 1) - 1 + 1 /\ a = (a + 1) - 2 + 1
      OBVIOUS
    <3>1. g[1] = g[1] - 1 + 1 /\ g[2] = g[1] - 2 + 1
      BY <1>0, <2>2, <2>3, <3>a
    <3> QED
      BY <2>1, <3>1 DEF Falling
  <2>4. CASE g[1] = f[1] - 1
    <3>a. \A a \in Int : a - 1 = (a - 1) + 1 - 1 /\ a = (a - 1) + 2 - 1
      OBVIOUS
    <3>1. g[1] = g[1] + 1 - 1 /\ g[2] = g[1] + 2 - 1
      BY <1>0, <2>2, <2>4, <3>a
    <3> QED
      BY <2>1, <3>1 DEF Rising
  <2> QED
    BY <2>3, <2>4
<1>5. CASE n # 1
  <2>1. 2 \in 1..n
    BY <1>5
  <2>2. /\ Rising(f, n) => f[2] = f[1] + 1
        /\ Falling(f, n) => f[2] = f[1] - 1
    <3>1. Rising(f, n) => f[2] = f[1] + 2 - 1
      BY <2>1 DEF Rising
    <3>2. Falling(f, n) => f[2] = f[1] - 2 + 1
      BY <2>1 DEF Falling
    <3> QED
      BY <1>0, <3>1, <3>2
  <2>3. f[2] # g[1]
    BY <2>1
  <2> QED
    BY <1>2, <1>3, <2>2, <2>3
<1> QED
  BY <1>4, <1>5

\* A row gets one more at its end.
LEMMA RowAfter ==
  ASSUME NEW n \in Nat \ {0}, NEW f \in [1..n -> Int], NEW g \in [1..(n + 1) -> Int],
         Rising(f, n) \/ Falling(f, n),
         g[n + 1] = f[n] + 1 \/ g[n + 1] = f[n] - 1,
         \A i \in 1..n : f[i] # g[n + 1] /\ g[i] = f[i]
  PROVE  Rising(g, n + 1) \/ Falling(g, n + 1)
<1>0. /\ 1 \in 1..n /\ n \in 1..n /\ f[1] \in Int /\ g[n + 1] \in Int /\ f[n] \in Int
      /\ g[1] = f[1]
      /\ \A i \in 1..(n + 1) : i \in 1..n \/ i = n + 1
  OBVIOUS
<1>1. /\ Rising(f, n) => f[n] = f[1] + n - 1
      /\ Falling(f, n) => f[n] = f[1] - n + 1
  BY <1>0 DEF Rising, Falling
<1>2. CASE Rising(f, n) /\ g[n + 1] = f[n] + 1
  <2>1. g[n + 1] = g[1] + (n + 1) - 1
    BY <1>0, <1>1, <1>2
  <2>2. \A i \in 1..n : g[i] = g[1] + i - 1
    BY <1>0, <1>2 DEF Rising
  <2> QED
    BY <1>0, <2>1, <2>2 DEF Rising
<1>3. CASE Falling(f, n) /\ g[n + 1] = f[n] - 1
  <2>1. g[n + 1] = g[1] - (n + 1) + 1
    BY <1>0, <1>1, <1>3
  <2>2. \A i \in 1..n : g[i] = g[1] - i + 1
    BY <1>0, <1>3 DEF Falling
  <2> QED
    BY <1>0, <2>1, <2>2 DEF Falling
<1>4. CASE n = 1
  <2>1. \A i \in 1..(n + 1) : i = 1 \/ i = 2
    BY <1>4
  <2>2. n + 1 = 2
    BY <1>4
  <2>3. CASE g[n + 1] = f[n] + 1
    BY <1>0, <1>4, <2>1, <2>2, <2>3 DEF Rising
  <2>4. CASE g[n + 1] = f[n] - 1
    BY <1>0, <1>4, <2>1, <2>2, <2>4 DEF Falling
  <2> QED
    BY <2>3, <2>4
<1>5. CASE n # 1
  <2>1. n - 1 \in 1..n
    BY <1>5
  <2>2. /\ Rising(f, n) => f[n - 1] = f[n] - 1
        /\ Falling(f, n) => f[n - 1] = f[n] + 1
    <3>1. Rising(f, n) => f[n - 1] = f[1] + (n - 1) - 1
      BY <2>1 DEF Rising
    <3>2. Falling(f, n) => f[n - 1] = f[1] - (n - 1) + 1
      BY <2>1 DEF Falling
    <3> QED
      BY <1>0, <1>1, <3>1, <3>2
  <2>3. f[n - 1] # g[n + 1]
    BY <2>1
  <2> QED
    BY <1>2, <1>3, <2>2, <2>3
<1> QED
  BY <1>4, <1>5

\* A node beside the one under the cursor, at the end that grows, continues
\* the row.
LEMMA RowGrows ==
  ASSUME NEW t, OnEntry(t), InARow(t), insertBefore \in BOOLEAN,
         Growing(t, insertBefore),
         NEW e \in Entry, e.node \notin Listed(t), Joined(t.list[t.at].node, e.node)
  PROVE  InARow(Insert(t, e))
<1> DEFINE k == IF insertBefore THEN t.at ELSE t.at + 1
<1>a. PICK s : s = Insert(t, e)
  OBVIOUS
<1>b. PICK n : n = Len(t.list)
  OBVIOUS
<1>c. PICK p : p = Position(e.node)
  OBVIOUS
<1>0. /\ n \in Nat \ {0} /\ t.at \in 1..n /\ DOMAIN t.list = 1..n
      /\ \A i \in 1..n : Place(t, i) \in Int /\ t.list[i].node \in Node
  BY <1>b, OnEntryIs, EntryParts
<1>1. e.node \in Node /\ p \in Int
  BY <1>c, Positions DEF Entry
<1>2. /\ OnEntry(s) /\ Len(s.list) = n + 1
      /\ \A i \in 1..(n + 1) :
           s.list[i] = IF i < k THEN t.list[i] ELSE IF i = k THEN e ELSE t.list[i - 1]
  BY <1>a, <1>b, InsertIs
<1>3. \A i \in 1..n : Place(t, i) # p
  <2>1. \A i \in 1..n : t.list[i].node # e.node
    BY <1>0 DEF Listed
  <2> QED
    BY <1>0, <1>1, <1>c, <2>1, Positions DEF Place
<1>4. p = Place(t, t.at) + 1 \/ p = Place(t, t.at) - 1
  BY <1>0, <1>1, <1>c DEF Joined, Place
<1>5. PICK f : f = [i \in 1..n |-> Place(t, i)]
  OBVIOUS
<1>6. PICK g : g = [i \in 1..(n + 1) |-> Place(s, i)]
  OBVIOUS
<1>7. f \in [1..n -> Int] /\ g \in [1..(n + 1) -> Int]
  BY <1>0, <1>2, <1>5, <1>6, EntryParts
<1>8. /\ \A i \in 1..n : f[i] = Place(t, i)
      /\ \A i \in 1..(n + 1) : g[i] = Place(s, i)
      /\ 1 \in 1..n /\ 1 \in 1..(n + 1) /\ n + 1 \in 1..(n + 1)
  BY <1>0, <1>5, <1>6
<1>9. Rising(f, n) \/ Falling(f, n)
  BY <1>8, <1>b DEF InARow, Rising, Falling
<1>10. Rising(g, n + 1) \/ Falling(g, n + 1)
  <2>1. CASE insertBefore
    <3>1. t.at = 1 /\ k = 1
      BY <2>1 DEF Growing
    <3>2. Place(s, 1) = p
      BY <1>2, <1>8, <1>c, <3>1 DEF Place
    <3>3. ASSUME NEW i \in 1..n
          PROVE  f[i] # g[1] /\ g[i + 1] = f[i]
      <4>1. /\ i + 1 \in 1..(n + 1) /\ ~(i + 1 < k) /\ i + 1 # k /\ (i + 1) - 1 = i
        BY <1>0, <3>1
      <4>2. s.list[i + 1] = t.list[i]
        BY <1>2, <4>1
      <4>3. g[i + 1] = f[i]
        BY <1>8, <4>1, <4>2 DEF Place
      <4> QED
        BY <1>3, <1>8, <3>2, <4>3
    <3>4. g[1] = f[1] + 1 \/ g[1] = f[1] - 1
      BY <1>4, <1>8, <3>1, <3>2
    <3> QED
      BY <1>0, <1>7, <1>9, <3>3, <3>4, RowBefore
  <2>2. CASE ~insertBefore
    <3>1. t.at = n /\ k = n + 1
      BY <1>b, <2>2 DEF Growing
    <3>2. Place(s, n + 1) = p
      <4>1. s.list[n + 1] = e
        BY <1>0, <1>2, <1>8, <3>1
      <4> QED
        BY <1>c, <4>1 DEF Place
    <3>3. ASSUME NEW i \in 1..n
          PROVE  f[i] # g[n + 1] /\ g[i] = f[i]
      <4>1. i \in 1..(n + 1) /\ i < k
        BY <1>0, <3>1
      <4>2. s.list[i] = t.list[i]
        BY <1>2, <4>1
      <4>3. g[i] = f[i]
        BY <1>8, <4>1, <4>2 DEF Place
      <4> QED
        BY <1>3, <1>8, <3>2, <4>3
    <3>4. g[n + 1] = f[n] + 1 \/ g[n + 1] = f[n] - 1
      <4>1. n \in 1..n
        BY <1>0
      <4> QED
        BY <1>4, <1>8, <3>1, <3>2, <4>1
    <3> QED
      BY <1>0, <1>7, <1>9, <3>3, <3>4, RowAfter
  <2> QED
    BY <2>1, <2>2
<1>11. InARow(s)
  BY <1>2, <1>8, <1>10 DEF InARow, Rising, Falling
<1> QED
  BY <1>11, <1>a

\* A port is left to ask only at the end that grows; asking counts it.
LEMMA CountAsk ==
  ASSUME NEW t, OnEntry(t), InARow(t), NEW before \in BOOLEAN, NEW after \in BOOLEAN,
         Counted(t, before, FALSE), ~AllPortsExplored(t),
         after <=> (before \/ (IsRoot(t) /\ PortCountIs(t, 1)))
  PROVE  Growing(t, after) /\ Counted(CountPort(t), after, TRUE)
<1>a. PICK s : s = CountPort(t)
  OBVIOUS
<1>0. /\ t # Gone /\ Len(t.list) \in Nat \ {0} /\ t.at \in 1..Len(t.list)
      /\ \A i \in 1..Len(t.list) :
           Count(t, i) \in Nat /\ Ports(t, i) \in Nat /\ Ports(t, i) <= 2
  BY OnEntryIs, EntryParts
<1>1. /\ s.at = t.at /\ Len(s.list) = Len(t.list)
      /\ \A i \in 1..Len(t.list) :
           /\ IsRootAt(s, i) <=> IsRootAt(t, i)
           /\ Ports(s, i) = Ports(t, i)
           /\ i = t.at => Count(s, i) = Count(t, i) + 1
           /\ i # t.at => Count(s, i) = Count(t, i)
  <2>1. /\ s.at = t.at /\ Len(s.list) = Len(t.list)
        /\ \A i \in 1..Len(t.list) :
             /\ s.list[i].node = t.list[i].node /\ s.list[i].table = t.list[i].table
             /\ Count(s, i) = Count(t, i) + (IF i = t.at THEN 1 ELSE 0)
    BY <1>a, CountPortParts
  <2>2. ASSUME NEW i \in 1..Len(t.list), i # t.at
        PROVE  Count(s, i) = Count(t, i)
    <3>1. Count(s, i) = Count(t, i) + 0
      BY <2>1, <2>2
    <3> QED
      BY <1>0, <3>1
  <2> QED
    BY <2>1, <2>2 DEF IsRootAt, Ports
<1>2. Count(t, t.at) # Ports(t, t.at)
  BY <1>0 DEF AllPortsExplored, Count, Ports
<1>3. /\ IsRoot(t) <=> IsRootAt(t, t.at)
      /\ PortCountIs(t, 1) <=> Count(t, t.at) = 1
  BY <1>0 DEF IsRoot, IsRootAt, PortCountIs, Count
<1>4. \A i \in 1..Len(t.list) : IsRootAt(t, i) /\ IsRootAt(t, t.at) => i = t.at
  BY <1>0, RowIs DEF IsRootAt
<1>5. CASE IsRootAt(t, t.at)
  <2>1. /\ Count(t, t.at) <= Ports(t, t.at) /\ (before => Count(t, t.at) = 2)
        /\ (~before => t.at = 1 /\ Count(t, t.at) <= 1)
        /\ Count(t, t.at) = 0 => Len(t.list) = 1
    BY <1>0, <1>5 DEF Counted
  <2>2. ~before /\ t.at = 1 /\ Count(t, t.at) <= 1
    BY <1>0, <1>2, <2>1
  <2>3. after <=> Count(t, t.at) = 1
    BY <1>3, <1>5, <2>2
  <2>4. Growing(t, after)
    <3>1. Count(t, t.at) = 0 \/ Count(t, t.at) = 1
      BY <1>0, <2>2
    <3> QED
      BY <2>1, <2>2, <2>3, <3>1 DEF Growing
  <2>5. /\ Count(s, t.at) = Count(t, t.at) + 1 /\ Count(s, t.at) <= Ports(s, t.at)
        /\ after => Count(s, t.at) = 2
        /\ ~after => t.at = 1 /\ Count(s, t.at) <= 1
        /\ Count(s, t.at) # 0
    <3>1. Count(s, t.at) = Count(t, t.at) + 1 /\ Ports(s, t.at) = Ports(t, t.at)
      BY <1>0, <1>1
    <3>2. Count(t, t.at) = 0 \/ Count(t, t.at) = 1
      BY <1>0, <2>2
    <3> QED
      BY <1>0, <1>2, <2>1, <2>2, <2>3, <3>1, <3>2
  <2>6. \A i \in 1..Len(t.list) : ~IsRootAt(t, i) => i # t.at /\ Count(t, i) = Ports(t, i)
    BY <1>5 DEF Counted
  <2>7. \E i \in 1..Len(s.list) : IsRootAt(s, i)
    BY <1>0, <1>1, <1>5
  <2>8. \A i \in 1..Len(s.list) : IsRootAt(s, i) => i = t.at
    BY <1>1, <1>4, <1>5
  <2>9. \A i \in 1..Len(s.list) : ~IsRootAt(s, i) => Count(s, i) = Ports(s, i)
    BY <1>1, <2>6
  <2>10. Counted(s, after, TRUE)
    BY <2>5, <2>7, <2>8, <2>9 DEF Counted
  <2> QED
    BY <1>a, <2>4, <2>10
<1>6. CASE ~IsRootAt(t, t.at)
  <2>1. /\ Count(t, t.at) = 1 /\ Ports(t, t.at) = 2 /\ Growing(t, before)
        /\ after = before
    BY <1>0, <1>2, <1>3, <1>6 DEF Counted
  <2>2. Len(t.list) # 1
    <3>1. PICK i \in 1..Len(t.list) : IsRootAt(t, i)
      BY DEF Counted
    <3>2. i # t.at
      BY <1>6, <3>1
    <3>3. \A j, k \in 1..1 : j = k
      OBVIOUS
    <3> QED
      BY <1>0, <3>2, <3>3
  <2>3. /\ \E i \in 1..Len(s.list) : IsRootAt(s, i)
        /\ \A i \in 1..Len(s.list) : IsRootAt(s, i) =>
             /\ Count(s, i) <= Ports(s, i)
             /\ before => Count(s, i) = 2
             /\ ~before => i = 1 /\ Count(s, i) <= 1
             /\ Count(s, i) # 0
    BY <1>1, <1>6, <2>2 DEF Counted
  <2>4. \A i \in 1..Len(s.list) : ~IsRootAt(s, i) => Count(s, i) = Ports(s, i)
    <3>1. Count(s, t.at) = Ports(s, t.at)
      BY <1>0, <1>1, <2>1
    <3>2. \A i \in 1..Len(s.list) :
            ~IsRootAt(s, i) /\ i # t.at => Count(s, i) = Ports(s, i)
      BY <1>1 DEF Counted
    <3> QED
      BY <3>1, <3>2
  <2>5. Counted(s, after, TRUE)
    BY <2>1, <2>3, <2>4 DEF Counted
  <2> QED
    BY <1>a, <2>1, <2>5
<1> QED
  BY <1>5, <1>6

\* Going back leaves no port to ask but those of the root.
LEMMA CountBack ==
  ASSUME NEW t, OnEntry(t), NEW before \in BOOLEAN,
         \/ Counted(t, before, TRUE)
         \/ Counted(t, before, FALSE) /\ AllPortsExplored(t) /\ ~IsRoot(t)
  PROVE  Counted(Back(t, before), before, FALSE)
<1>a. PICK s : s = Back(t, before)
  OBVIOUS
<1>0. /\ t # Gone /\ t.at \in 1..Len(t.list) /\ s.list = t.list
  BY <1>a, OnEntryIs, BackIs
<1>1. \A i : /\ IsRootAt(s, i) <=> IsRootAt(t, i)
             /\ Count(s, i) = Count(t, i) /\ Ports(s, i) = Ports(t, i)
  BY <1>0 DEF IsRootAt, Count, Ports
<1>2. \A i \in 1..Len(t.list) : ~IsRootAt(t, i) => Count(t, i) = Ports(t, i)
  <2>1. CASE Counted(t, before, TRUE)
    BY <2>1 DEF Counted
  <2>2. CASE Counted(t, before, FALSE) /\ AllPortsExplored(t)
    <3>1. Count(t, t.at) = Ports(t, t.at)
      BY <1>0, <2>2 DEF AllPortsExplored, Count, Ports
    <3> QED
      BY <2>2, <3>1 DEF Counted
  <2> QED
    BY <2>1, <2>2
<1>3. /\ \E i \in 1..Len(t.list) : IsRootAt(t, i)
      /\ \A i \in 1..Len(t.list) : IsRootAt(t, i) =>
           /\ Count(t, i) <= Ports(t, i)
           /\ before => Count(t, i) = 2
           /\ ~before => i = 1 /\ Count(t, i) <= 1
           /\ Count(t, i) = 0 => Len(t.list) = 1
  BY DEF Counted
<1>4. Counted(s, before, FALSE)
  BY <1>0, <1>1, <1>2, <1>3 DEF Counted
<1> QED
  BY <1>a, <1>4

\* A node that answered has one port counted, the one it was heard on.
LEMMA CountNew ==
  ASSUME NEW t, OnEntry(t), insertBefore \in BOOLEAN, Counted(t, insertBefore, TRUE),
         Growing(t, insertBefore),
         NEW e \in Entry, e.node # Root, e.explored = 0, UpCount(e.table) # 0
  PROVE  Counted(CountPort(Insert(t, e)), insertBefore, FALSE)
<1> DEFINE k == IF insertBefore THEN t.at ELSE t.at + 1
<1>a. PICK n : n = Len(t.list)
  OBVIOUS
<1>b. PICK r : r = Insert(t, e)
  OBVIOUS
<1>c. PICK s : s = CountPort(r)
  OBVIOUS
<1>0. /\ n \in Nat \ {0} /\ t.at \in 1..n
      /\ \A i \in 1..n : Count(t, i) \in Nat /\ Ports(t, i) \in Nat
  BY <1>a, OnEntryIs, EntryParts
<1>1. /\ OnEntry(r) /\ r.at = k /\ k \in 1..(n + 1) /\ Len(r.list) = n + 1
      /\ \A i \in 1..(n + 1) :
           r.list[i] = IF i < k THEN t.list[i] ELSE IF i = k THEN e ELSE t.list[i - 1]
  BY <1>a, <1>b, InsertIs
<1>2. /\ s.at = k /\ Len(s.list) = n + 1
      /\ \A i \in 1..(n + 1) :
           /\ s.list[i].node = r.list[i].node /\ s.list[i].table = r.list[i].table
           /\ Count(s, i) = Count(r, i) + (IF i = k THEN 1 ELSE 0)
  BY <1>1, <1>c, CountPortParts
<1>3. /\ ~IsRootAt(s, k) /\ Count(s, k) = 1
      /\ Ports(s, k) = 1 \/ Ports(s, k) = 2
  <2>1. r.list[k] = e
    BY <1>1
  <2>2. Count(r, k) = 0
    BY <2>1 DEF Count
  <2>3. Count(s, k) = 0 + 1
    BY <1>1, <1>2, <2>2
  <2>4. s.list[k].node = e.node /\ s.list[k].table = e.table
    BY <1>1, <1>2, <2>1
  <2>5. UpCount(e.table) \in Nat /\ UpCount(e.table) <= 2
    BY UpCountIs DEF Entry
  <2> QED
    BY <2>3, <2>4, <2>5 DEF IsRootAt, Ports
<1>4. ASSUME NEW i \in 1..(n + 1), i # k
      PROVE  LET j == IF i < k THEN i ELSE i - 1
             IN  /\ j \in 1..n
                 /\ IsRootAt(s, i) <=> IsRootAt(t, j)
                 /\ Count(s, i) = Count(t, j) /\ Ports(s, i) = Ports(t, j)
  <2>a. PICK j : j = IF i < k THEN i ELSE i - 1
    OBVIOUS
  <2>1. j \in 1..n
    BY <1>0, <1>1, <1>4, <2>a
  <2>2. r.list[i] = t.list[j]
    BY <1>1, <1>4, <2>a
  <2>3. Count(s, i) = Count(r, i) + 0
    BY <1>2, <1>4
  <2>4. Count(r, i) = Count(t, j) /\ Count(t, j) \in Nat
    BY <1>0, <2>1, <2>2 DEF Count
  <2>5. s.list[i].node = t.list[j].node /\ s.list[i].table = t.list[j].table
    BY <1>2, <2>2
  <2>6. Count(s, i) = Count(t, j)
    BY <2>3, <2>4
  <2> QED
    BY <2>1, <2>5, <2>6, <2>a DEF IsRootAt, Ports
<1>5. /\ \E j \in 1..n : IsRootAt(t, j)
      /\ \A j \in 1..n : IsRootAt(t, j) =>
           /\ Count(t, j) <= Ports(t, j)
           /\ insertBefore => Count(t, j) = 2
           /\ ~insertBefore => j = 1 /\ Count(t, j) <= 1
           /\ Count(t, j) # 0
      /\ \A j \in 1..n : ~IsRootAt(t, j) => Count(t, j) = Ports(t, j)
  BY <1>a DEF Counted
<1>6. \E i \in 1..(n + 1) : IsRootAt(s, i)
  <2>1. PICK j \in 1..n : IsRootAt(t, j)
    BY <1>5
  <2>2. CASE j < k
    <3>1. j \in 1..(n + 1) /\ j # k
      BY <1>0, <1>1, <2>2
    <3>2. IsRootAt(s, j)
      BY <1>4, <2>1, <2>2, <3>1
    <3> QED
      BY <3>1, <3>2
  <2>3. CASE ~(j < k)
    <3>1. j + 1 \in 1..(n + 1) /\ j + 1 # k /\ ~(j + 1 < k) /\ (j + 1) - 1 = j
      BY <1>0, <1>1, <2>3, SMTT(30)
    <3>2. IsRootAt(s, j + 1)
      BY <1>4, <2>1, <3>1
    <3> QED
      BY <3>1, <3>2
  <2> QED
    BY <2>2, <2>3
<1>7. ASSUME NEW i \in 1..(n + 1), IsRootAt(s, i)
      PROVE  /\ Count(s, i) <= Ports(s, i)
             /\ insertBefore => Count(s, i) = 2
             /\ ~insertBefore => i = 1 /\ Count(s, i) <= 1
             /\ Count(s, i) # 0
  <2>1. i # k
    BY <1>3, <1>7
  <2>2. PICK j \in 1..n : /\ j = IF i < k THEN i ELSE i - 1
                          /\ IsRootAt(t, j)
                          /\ Count(s, i) = Count(t, j) /\ Ports(s, i) = Ports(t, j)
    BY <1>4, <1>7, <2>1
  <2>3. ~insertBefore => i < k
    <3>1. ~insertBefore => k = n + 1
      BY <1>a DEF Growing
    <3> QED
      BY <1>0, <2>1, <3>1
  <2> QED
    BY <1>5, <2>2, <2>3
<1>8. ASSUME NEW i \in 1..(n + 1), ~IsRootAt(s, i)
      PROVE  \/ Count(s, i) = Ports(s, i)
             \/ /\ i = s.at /\ Count(s, i) = 1 /\ Ports(s, i) = 2
                /\ Growing(s, insertBefore)
  <2>1. CASE i = k
    <3>1. Growing(s, insertBefore)
      BY <1>0, <1>2, <1>a DEF Growing
    <3> QED
      BY <1>2, <1>3, <2>1, <3>1
  <2>2. CASE i # k
    BY <1>4, <1>5, <1>8, <2>2
  <2> QED
    BY <2>1, <2>2
<1>9. Counted(s, insertBefore, FALSE)
  BY <1>2, <1>6, <1>7, <1>8 DEF Counted
<1> QED
  BY <1>9, <1>b, <1>c

\* The pairs of a node and one it knows.
Met == {p \in Node \X Node : Knows(p[1], p[2])}

LEMMA MetIs == \A n, m \in Node : <<n, m>> \in Met <=> Knows(n, m)
BY DEF Met

\* Nodes forget none.
LEMMA MetGrows == Hearing /\ [Next]_vars => Met \subseteq Met'
<1> SUFFICES ASSUME Hearing, [Next]_vars PROVE Met \subseteq Met'
  OBVIOUS
<1>1. CASE UNCHANGED heard
  BY <1>1 DEF Met, Knows
<1>2. CASE \E l \in Link : Heartbeats(l)
  <2>1. ASSUME NEW n \in Node, NEW m \in Node, Knows(n, m)
        PROVE  Knows(n, m)'
    <3> DEFINE old == heard[n]
    <3>1. PICK i \in DOMAIN old : old[i] = m
      BY <2>1 DEF Knows
    <3>2. PICK l \in Link : Heartbeats(l)
      BY <1>2
    <3>3. \/ heard'[n] = old
          \/ n \in l /\ heard'[n] = Append(old, Other(l, n))
      BY <3>2 DEF Heartbeats
    <3>4. old \in Seq(Node)
      BY DEF Hearing
    <3> HIDE DEF old
    <3>5. \A e : i \in DOMAIN Append(old, e) /\ Append(old, e)[i] = old[i]
      <4>1. /\ Len(old) \in Nat /\ DOMAIN old = 1..Len(old)
            /\ i \in 1..Len(old) /\ i \in 1..(Len(old) + 1)
        BY <3>1, <3>4
      <4> QED
        BY <3>4, <4>1
    <3>6. i \in DOMAIN heard'[n] /\ heard'[n][i] = m
      BY <3>1, <3>3, <3>5
    <3> QED
      BY <3>6 DEF Knows
  <2> QED
    BY <2>1 DEF Met
<1>3. UNCHANGED heard \/ \E l \in Link : Heartbeats(l)
  BY DEF Next, StartWalk, Thread, HandleStart, HandleCheck, HandleAdd, HandleTimeout,
         HandleEnd, TopologyTimer, Network, Answer, LoseRequest, Reply, LoseReply,
         LinkUp, LinkDown, vars, bus
<1> QED
  BY <1>1, <1>2, <1>3

\* The rows of a table name nodes that its owner knows.
Known(n, table, met) == \A k \in DOMAIN table : <<n, table[k].id>> \in met

\* A list that a walk can be making.
Sound(t, before, asking, met) ==
  /\ OnEntry(t)
  /\ InARow(t) /\ Counted(t, before, asking)
  /\ \A i \in 1..Len(t.list) : Known(t.list[i].node, t.list[i].table, met)

\* The node asked continues the list at the cursor.
Aimed(t, before, n, met) ==
  /\ Growing(t, before)
  /\ n \in Node /\ n \notin Listed(t) /\ <<t.list[t.at].node, n>> \in met

\* The table of the node asked, in a reply or in an event.
Answered(r, n, met) == r.node = n /\ Known(n, r.table, met) /\ UpCount(r.table) # 0

Has(q, type) == \E i \in DOMAIN q : q[i].type = type
Asking(q, running) == running \/ Has(q, "add") \/ Has(q, "timeout")
AddsAnswered(q, n, met) == \A i \in DOMAIN q : q[i].type = "add" => Answered(q[i], n, met)

\* A walk keeps a list that its next node continues.
Walked ==
  /\ inProgress => Sound(topology, insertBefore, Asking(queue, timer), Met)
  /\ ~inProgress => topology = Gone /\ ~insertBefore
  /\ timer \/ Has(queue, "add") => Aimed(topology, insertBefore, target, Met)
  /\ \A r \in replies : Answered(r, target, Met)
  /\ AddsAnswered(queue, target, Met)

\* A row is in the order of the bus.
LEMMA WalkedIs ==
  ASSUME TypeOK, Walked
  PROVE  InBusOrder
<1>1. CASE inProgress
  <2>1. PICK t : t = topology
    OBVIOUS
  <2>2. OnEntry(t) /\ InARow(t)
    BY <1>1, <2>1 DEF Walked, Sound
  <2>3. /\ Len(t.list) \in Nat \ {0}
        /\ \A i \in 1..Len(t.list) : Place(t, i) \in Int
    BY <2>2, OnEntryIs, EntryParts
  <2>4. \A i \in 1..(Len(t.list) - 1) :
          /\ i \in 1..Len(t.list) /\ i + 1 \in 1..Len(t.list) /\ 1 \in 1..Len(t.list)
    BY <2>3
  <2>5. CASE \A i \in 1..Len(t.list) : Place(t, i) = Place(t, 1) + i - 1
    <3>1. \A i \in 1..(Len(t.list) - 1) : Place(t, i + 1) = Place(t, i) + 1
      BY <2>3, <2>4, <2>5
    <3>2. \A i \in 1..(Len(topology.list) - 1) :
            Position(topology.list[i + 1].node) = Position(topology.list[i].node) + 1
      BY <2>1, <3>1 DEF Place
    <3> QED
      BY <3>2, Zenon DEF InBusOrder
  <2>6. CASE \A i \in 1..Len(t.list) : Place(t, i) = Place(t, 1) - i + 1
    <3>1. ASSUME NEW i \in 1..(Len(t.list) - 1)
          PROVE  Place(t, i) = Place(t, i + 1) + 1
      <4>1. Place(t, i) = Place(t, 1) - i + 1 /\ Place(t, i + 1) = Place(t, 1) - (i + 1) + 1
        BY <2>4, <2>6
      <4>2. Place(t, 1) \in Int
        BY <2>3, <2>4
      <4> QED
        BY <4>1, <4>2
    <3> QED
      BY <2>1, <3>1 DEF InBusOrder, Place
  <2> QED
    BY <2>2, <2>5, <2>6 DEF InARow
<1>2. CASE ~inProgress
  <2>1. topology.list = <<>> /\ Len(<<>>) = 0
    BY <1>2 DEF Walked, Gone
  <2>2. 1..(Len(topology.list) - 1) = {}
    BY <2>1
  <2> QED
    BY <2>2 DEF InBusOrder
<1> QED
  BY <1>1, <1>2

\* More pairs take nothing from it.
LEMMA MoreMet ==
  ASSUME NEW met, NEW more, met \subseteq more
  PROVE  /\ \A n, table : Known(n, table, met) => Known(n, table, more)
         /\ \A t, before, asking :
              Sound(t, before, asking, met) => Sound(t, before, asking, more)
         /\ \A t, before, n : Aimed(t, before, n, met) => Aimed(t, before, n, more)
         /\ \A r, n : Answered(r, n, met) => Answered(r, n, more)
         /\ \A q, n : AddsAnswered(q, n, met) => AddsAnswered(q, n, more)
<1>1. \A n, table : Known(n, table, met) => Known(n, table, more)
  BY DEF Known
<1>2. \A t, before, asking :
        Sound(t, before, asking, met) => Sound(t, before, asking, more)
  BY <1>1 DEF Sound
<1>3. \A t, before, n : Aimed(t, before, n, met) => Aimed(t, before, n, more)
  BY DEF Aimed
<1>4. \A r, n : Answered(r, n, met) => Answered(r, n, more)
  BY <1>1 DEF Answered
<1>5. \A q, n : AddsAnswered(q, n, met) => AddsAnswered(q, n, more)
  BY <1>4 DEF AddsAnswered
<1> QED
  BY <1>1, <1>2, <1>3, <1>4, <1>5

\* What is in a queue that gets an event, and in one that loses its first.
LEMMA HasAdded ==
  ASSUME NEW q \in Seq(Events), NEW e \in Events
  PROVE  /\ \A type : Has(Append(q, e), type) <=> Has(q, type) \/ e.type = type
         /\ \A n, met : /\ AddsAnswered(q, n, met)
                        /\ e.type = "add" => Answered(e, n, met)
                        => AddsAnswered(Append(q, e), n, met)
<1> DEFINE new == Append(q, e)
<1>1. /\ Len(q) \in Nat /\ DOMAIN q = 1..Len(q) /\ DOMAIN new = 1..(Len(q) + 1)
      /\ \A i \in DOMAIN q : new[i] = q[i]
      /\ new[Len(q) + 1] = e
  OBVIOUS
<1>2. /\ \A i \in DOMAIN new : i \in DOMAIN q \/ i = Len(q) + 1
      /\ \A i \in DOMAIN q : i \in DOMAIN new
      /\ Len(q) + 1 \in DOMAIN new
  BY <1>1
<1> HIDE DEF new
<1>3. \A type : Has(new, type) <=> Has(q, type) \/ e.type = type
  BY <1>1, <1>2 DEF Has
<1>4. ASSUME NEW n, NEW met, AddsAnswered(q, n, met), e.type = "add" => Answered(e, n, met)
      PROVE  AddsAnswered(new, n, met)
  BY <1>1, <1>2, <1>4 DEF AddsAnswered
<1> QED
  BY <1>3, <1>4 DEF new

LEMMA HasTaken ==
  ASSUME NEW q \in Seq(Events), q # <<>>
  PROVE  /\ \A type : Has(q, type) <=> Has(Tail(q), type) \/ Head(q).type = type
         /\ \A n, met : AddsAnswered(q, n, met) =>
              /\ AddsAnswered(Tail(q), n, met)
              /\ Head(q).type = "add" => Answered(Head(q), n, met)
<1> DEFINE new == Tail(q)
<1>1. /\ Len(q) \in Nat \ {0} /\ DOMAIN q = 1..Len(q) /\ DOMAIN new = 1..(Len(q) - 1)
      /\ \A i \in DOMAIN new : new[i] = q[i + 1]
      /\ Head(q) = q[1]
  OBVIOUS
<1>2. /\ \A i \in DOMAIN q : i = 1 \/ (i - 1 \in DOMAIN new /\ (i - 1) + 1 = i)
      /\ \A i \in DOMAIN new : i + 1 \in DOMAIN q
      /\ 1 \in DOMAIN q
  BY <1>1
<1> HIDE DEF new
<1>3. ASSUME NEW type
      PROVE  Has(q, type) <=> Has(new, type) \/ Head(q).type = type
  <2>1. Has(new, type) => Has(q, type)
    BY <1>1, <1>2 DEF Has
  <2>2. Head(q).type = type => Has(q, type)
    BY <1>1, <1>2 DEF Has
  <2>3. ASSUME NEW i \in DOMAIN q, q[i].type = type, Head(q).type # type
        PROVE  Has(new, type)
    <3>1. i # 1
      BY <1>1, <2>3
    <3>2. i - 1 \in DOMAIN new /\ new[i - 1] = q[i]
      BY <1>1, <1>2, <3>1
    <3> QED
      BY <2>3, <3>2 DEF Has
  <2> QED
    BY <2>1, <2>2, <2>3 DEF Has
<1>4. ASSUME NEW n, NEW met, AddsAnswered(q, n, met)
      PROVE  /\ AddsAnswered(new, n, met)
             /\ Head(q).type = "add" => Answered(Head(q), n, met)
  BY <1>1, <1>2, <1>4 DEF AddsAnswered
<1> QED
  BY <1>3, <1>4 DEF new

\* A queue with no event of the walk has none of any kind.
LEMMA NoStep ==
  ASSUME NEW q, ~Steps(q)
  PROVE  /\ \A type : type # "start" => ~Has(q, type)
         /\ \A n, met : AddsAnswered(q, n, met)
BY DEF Steps, Has, AddsAnswered

\* A node that can be reached from the root and continues the list has a port
\* that is up, the one at which it heard the node beside it.
LEMMA AnswerIs ==
  ASSUME Hearing, NEW t, NEW before, NEW asking, NEW n \in Node,
         Sound(t, before, asking, Met), Aimed(t, before, n, Met), Reachable(n)
  PROVE  Answered([node |-> n, table |-> TableOf(n)], n, Met)
<1> DEFINE m == t.list[t.at].node
           p(x) == Position(x)
<1>1. /\ OnEntry(t) /\ InARow(t) /\ n \notin Listed(t) /\ <<m, n>> \in Met
      /\ \E i \in 1..Len(t.list) : t.list[i].node = Root
  BY DEF Sound, Aimed, Counted, IsRootAt
<1>2. /\ m \in Node /\ DOMAIN t.list = 1..Len(t.list) /\ t.at \in 1..Len(t.list)
      /\ m \in Listed(t) /\ Root \in Listed(t) /\ Root \in Node /\ Root # n
  BY <1>1, OnEntryIs, EntryParts DEF Listed
<1>3. Knows(m, n) /\ Knows(n, m)
  BY <1>1, <1>2, MetIs DEF Hearing
<1>4. Joined(n, m)
  BY <1>2, <1>3 DEF Hearing, Knows
<1>5. /\ p(n) \in 1..Len(Bus) /\ p(m) \in 1..Len(Bus) /\ p(Root) \in 1..Len(Bus)
      /\ Bus[p(n)] = n /\ Bus[p(m)] = m /\ p(Root) # p(n)
      /\ Len(Bus) \in Nat
  BY <1>2, Positions
<1>6. PICK i, j \in 1..Len(t.list) : t.list[i].node = m /\ t.list[j].node = Root
  BY <1>1, <1>2
<1>7. /\ ~(p(m) < p(n) /\ p(n) < p(Root))
      /\ ~(p(Root) < p(n) /\ p(n) < p(m))
  BY <1>1, <1>6, RowIs DEF Place
<1>8. {n, m} \in up
  <2>1. CASE p(m) = p(n) + 1
    <3>1. p(n) < p(Root)
      BY <1>5, <1>7, <2>1
    <3>2. p(n) \in 1..(Len(Bus) - 1) /\ p(n) <= p(n)
      BY <1>5, <2>1
    <3>3. {Bus[p(n)], Bus[p(n) + 1]} \in up
      BY <3>1, <3>2 DEF Reachable
    <3> QED
      BY <1>5, <2>1, <3>3
  <2>2. CASE p(n) = p(m) + 1
    <3>1. p(Root) <= p(m) /\ p(m) < p(n)
      BY <1>5, <1>7, <2>2
    <3>2. p(m) \in 1..(Len(Bus) - 1)
      BY <1>5, <2>2
    <3>3. {Bus[p(m)], Bus[p(m) + 1]} \in up
      BY <3>1, <3>2 DEF Reachable
    <3> QED
      BY <1>5, <2>2, <3>3
  <2> QED
    BY <1>4, <2>1, <2>2 DEF Joined
<1> HIDE DEF m, p
<1>9. \A k \in DOMAIN heard[n] :
        TableOf(n)[k].id = heard[n][k] /\ TableOf(n)[k].up = ({n, heard[n][k]} \in up)
  BY DEF TableOf
<1>10. TableOf(n) \in Table /\ DOMAIN TableOf(n) = DOMAIN heard[n]
  BY TableType
<1>11. Known(n, TableOf(n), Met)
  <2>1. ASSUME NEW k \in DOMAIN heard[n]
        PROVE  <<n, heard[n][k]>> \in Met
    <3>1. heard[n][k] \in Node
      BY DEF Hearing
    <3> QED
      BY <3>1, MetIs DEF Knows
  <2> QED
    BY <1>9, <1>10, <2>1 DEF Known
<1>12. UpCount(TableOf(n)) # 0
  <2>1. PICK k \in DOMAIN heard[n] : heard[n][k] = m
    BY <1>3 DEF Knows
  <2>2. TableOf(n)[k].up
    BY <1>8, <1>9, <2>1
  <2> QED
    BY <1>10, <2>2, UpCountIs
<1> QED
  BY <1>11, <1>12 DEF Answered

\* A walk begins with the root alone.
LEMMA SoundStart ==
  ASSUME Hearing, NEW t, t = [list |-> <<RootEntry>>, at |-> 1]
  PROVE  Sound(t, FALSE, FALSE, Met)
<1>1. /\ RootEntry \in Entry /\ RootEntry.node = Root /\ RootEntry.explored = 0
      /\ RootEntry.table = TableOf(Root) /\ TableOf(Root) \in Table
  BY BusAssumption, TableType DEF RootEntry, Entry
<1> DEFINE e == RootEntry
<1> HIDE DEF e
<1>2. PICK list : list = <<e>>
  OBVIOUS
<1>3. list \in Seq(Entry) /\ Len(list) = 1 /\ list[1] = e /\ 1 \in DOMAIN list
  BY <1>1, <1>2 DEF e
<1>4. t.list = list /\ t.at = 1 /\ t \in Lists
  BY <1>2, <1>3 DEF Lists, e
<1>5. OnEntry(t) /\ Len(t.list) = 1 /\ t.list[1] = e
  BY <1>3, <1>4 DEF OnEntry
<1>6. \A i \in 1..Len(t.list) : i = 1
  BY <1>5
<1>7. 1 \in 1..Len(t.list) /\ Place(t, 1) \in Int
  BY <1>5, EntryParts
<1>8. InARow(t)
  <2>1. Place(t, 1) = Place(t, 1) + 1 - 1
    BY <1>7
  <2> QED
    BY <1>6, <2>1 DEF InARow
<1>9. Counted(t, FALSE, FALSE)
  <2>1. /\ IsRootAt(t, 1) /\ Count(t, 1) = 0 /\ Ports(t, 1) \in Nat
    BY <1>1, <1>5, <1>7, EntryParts DEF IsRootAt, Count, e
  <2>2. Count(t, 1) <= Ports(t, 1) /\ Count(t, 1) <= 1
    BY <2>1
  <2>3. \E i \in 1..Len(t.list) : IsRootAt(t, i)
    BY <1>7, <2>1
  <2>4. \A i \in 1..Len(t.list) :
          /\ IsRootAt(t, i) /\ i = 1
          /\ Count(t, i) <= Ports(t, i) /\ Count(t, i) <= 1
    BY <1>6, <2>1, <2>2
  <2> QED
    BY <1>5, <2>3, <2>4, Zenon DEF Counted
<1>10. Known(Root, TableOf(Root), Met)
  <2>1. ASSUME NEW k \in DOMAIN heard[Root]
        PROVE  <<Root, heard[Root][k]>> \in Met
    <3>1. heard[Root][k] \in Node /\ Root \in Node
      BY BusAssumption DEF Hearing
    <3> QED
      BY <3>1, MetIs DEF Knows
  <2> QED
    BY <2>1 DEF Known, TableOf
<1>11. \A i \in 1..Len(t.list) : Known(t.list[i].node, t.list[i].table, Met)
  BY <1>1, <1>5, <1>6, <1>10 DEF e
<1> QED
  BY <1>5, <1>8, <1>9, <1>11 DEF Sound

\* Asking at the cursor.
LEMMA SoundAsk ==
  ASSUME NEW met, NEW t, NEW before \in BOOLEAN, NEW after \in BOOLEAN,
         Sound(t, before, FALSE, met), ~AllPortsExplored(t),
         after <=> (before \/ (IsRoot(t) /\ PortCountIs(t, 1)))
  PROVE  /\ Sound(CountPort(t), after, TRUE, met)
         /\ Growing(CountPort(t), after) /\ Listed(CountPort(t)) = Listed(t)
         /\ CountPort(t).list[CountPort(t).at].node = t.list[t.at].node
<1>a. PICK s : s = CountPort(t)
  OBVIOUS
<1>1. /\ OnEntry(t) /\ InARow(t) /\ Counted(t, before, FALSE)
      /\ \A i \in 1..Len(t.list) : Known(t.list[i].node, t.list[i].table, met)
      /\ t.at \in 1..Len(t.list)
  BY OnEntryIs DEF Sound
<1>2. Growing(t, after) /\ Counted(s, after, TRUE)
  BY <1>1, <1>a, CountAsk
<1>3. /\ OnEntry(s) /\ s.at = t.at /\ Len(s.list) = Len(t.list)
      /\ \A i \in 1..Len(t.list) :
           s.list[i].node = t.list[i].node /\ s.list[i].table = t.list[i].table
  BY <1>1, <1>a, CountPortParts
<1>4. InARow(s) /\ Listed(s) = Listed(t)
  BY <1>1, <1>a, RowStays
<1>5. Sound(s, after, TRUE, met)
  BY <1>1, <1>2, <1>3, <1>4 DEF Sound
<1>6. Growing(s, after)
  BY <1>2, <1>3 DEF Growing
<1> QED
  BY <1>1, <1>3, <1>4, <1>5, <1>6, <1>a

\* Going back.
LEMMA SoundBack ==
  ASSUME NEW met, NEW t, NEW before \in BOOLEAN,
         \/ Sound(t, before, TRUE, met)
         \/ Sound(t, before, FALSE, met) /\ AllPortsExplored(t) /\ ~IsRoot(t)
  PROVE  Sound(Back(t, before), before, FALSE, met)
<1>a. PICK s : s = Back(t, before)
  OBVIOUS
<1>1. /\ OnEntry(t) /\ InARow(t)
      /\ \A i \in 1..Len(t.list) : Known(t.list[i].node, t.list[i].table, met)
      /\ \/ Counted(t, before, TRUE)
         \/ Counted(t, before, FALSE) /\ AllPortsExplored(t) /\ ~IsRoot(t)
  BY DEF Sound
<1>2. Counted(s, before, FALSE)
  BY <1>1, <1>a, CountBack
<1>3. OnEntry(s) /\ s.list = t.list
  BY <1>1, <1>a, BackIs
<1>4. InARow(s)
  BY <1>1, <1>a, RowStays
<1> QED
  BY <1>1, <1>2, <1>3, <1>4, <1>a DEF Sound

\* The node that answered.
LEMMA SoundAdd ==
  ASSUME Hearing, insertBefore \in BOOLEAN
  PROVE  \A t : \A e \in Entry :
           /\ Sound(t, insertBefore, TRUE, Met) /\ Aimed(t, insertBefore, e.node, Met)
           /\ e.explored = 0 /\ Known(e.node, e.table, Met) /\ UpCount(e.table) # 0
           => Sound(CountPort(Insert(t, e)), insertBefore, FALSE, Met)
<1> SUFFICES ASSUME NEW t, NEW e \in Entry,
                    Sound(t, insertBefore, TRUE, Met),
                    Aimed(t, insertBefore, e.node, Met),
                    e.explored = 0, Known(e.node, e.table, Met), UpCount(e.table) # 0
             PROVE  Sound(CountPort(Insert(t, e)), insertBefore, FALSE, Met)
  OBVIOUS
<1> DEFINE k == IF insertBefore THEN t.at ELSE t.at + 1
<1>a. PICK r : r = Insert(t, e)
  OBVIOUS
<1>b. PICK s : s = CountPort(r)
  OBVIOUS
<1>1. /\ OnEntry(t) /\ InARow(t) /\ Counted(t, insertBefore, TRUE)
      /\ \A i \in 1..Len(t.list) : Known(t.list[i].node, t.list[i].table, Met)
      /\ Growing(t, insertBefore) /\ e.node \in Node /\ e.node \notin Listed(t)
      /\ <<t.list[t.at].node, e.node>> \in Met
  BY DEF Sound, Aimed
<1>2. /\ t.at \in 1..Len(t.list) /\ t.list[t.at].node \in Node
      /\ DOMAIN t.list = 1..Len(t.list) /\ Len(t.list) \in Nat
  BY <1>1, OnEntryIs, EntryParts
<1>3. Joined(t.list[t.at].node, e.node)
  <2>1. Knows(t.list[t.at].node, e.node)
    BY <1>1, <1>2, MetIs
  <2> QED
    BY <1>2, <2>1 DEF Hearing, Knows
<1>4. InARow(r)
  BY <1>1, <1>3, <1>a, RowGrows
<1>5. /\ OnEntry(r) /\ k \in 1..(Len(t.list) + 1)
      /\ Len(r.list) = Len(t.list) + 1
      /\ \A i \in 1..(Len(t.list) + 1) :
           r.list[i] = IF i < k THEN t.list[i] ELSE IF i = k THEN e ELSE t.list[i - 1]
  BY <1>1, <1>a, InsertIs
<1>6. e.node # Root
  <2>1. Root \in Listed(t)
    BY <1>1, <1>2 DEF Counted, IsRootAt, Listed
  <2> QED
    BY <1>1, <2>1
<1>7. Counted(s, insertBefore, FALSE)
  BY <1>1, <1>6, <1>a, <1>b, CountNew
<1>8. InARow(s)
  BY <1>4, <1>5, <1>b, RowStays
<1>9. /\ OnEntry(s) /\ Len(s.list) = Len(r.list)
      /\ \A i \in 1..Len(r.list) :
           s.list[i].node = r.list[i].node /\ s.list[i].table = r.list[i].table
  BY <1>5, <1>b, CountPortParts
<1>10. ASSUME NEW i \in 1..Len(r.list)
       PROVE  Known(r.list[i].node, r.list[i].table, Met)
  <2>1. CASE i < k
    <3>1. i \in 1..Len(t.list) /\ i \in 1..(Len(t.list) + 1)
      BY <1>2, <1>5, <2>1
    <3> QED
      BY <1>1, <1>5, <2>1, <3>1
  <2>2. CASE i = k
    <3>1. r.list[k] = e
      BY <1>5
    <3> QED
      BY <2>2, <3>1
  <2>3. CASE ~(i < k) /\ i # k
    <3>1. i - 1 \in 1..Len(t.list) /\ i \in 1..(Len(t.list) + 1)
      BY <1>2, <1>5, <2>3
    <3>2. r.list[i] = t.list[i - 1]
      BY <1>5, <2>3, <3>1
    <3> QED
      BY <1>1, <3>1, <3>2
  <2> QED
    BY <2>1, <2>2, <2>3
<1>11. Sound(s, insertBefore, FALSE, Met)
  BY <1>7, <1>8, <1>9, <1>10 DEF Sound
<1> QED
  BY <1>11, <1>a, <1>b

\* Calls, lost frames and changes of the bus leave a walk as it is.
LEMMA WalkKept ==
  ASSUME Walked, Met \subseteq Met',
         UNCHANGED <<topology, inProgress, insertBefore, target, timer>>,
         \A type : type # "start" => (Has(queue', type) <=> Has(queue, type)),
         AddsAnswered(queue', target, Met), replies' \subseteq replies
  PROVE  Walked'
<1>1. Asking(queue', timer') <=> Asking(queue, timer)
  BY DEF Asking
<1>2. inProgress => Sound(topology, insertBefore, Asking(queue', timer'), Met)
  <2>1. CASE Asking(queue, timer)
    <3>1. /\ Asking(queue, timer) = TRUE /\ Asking(queue', timer') = TRUE
      BY <1>1, <2>1 DEF Asking
    <3> QED
      BY <3>1 DEF Walked
  <2>2. CASE ~Asking(queue, timer)
    <3>1. /\ Asking(queue, timer) <=> FALSE
          /\ Asking(queue', timer') <=> FALSE
      BY <1>1, <2>2
    <3> QED
      BY <3>1 DEF Walked, Sound, Counted
  <2> QED
    BY <2>1, <2>2
<1>3. inProgress' => Sound(topology', insertBefore', Asking(queue', timer'), Met')
  BY <1>2, MoreMet
<1>4. timer' \/ Has(queue', "add") => Aimed(topology', insertBefore', target', Met')
  BY MoreMet DEF Walked
<1>5. \A r \in replies' : Answered(r, target', Met')
  BY MoreMet DEF Walked
<1>6. AddsAnswered(queue', target', Met')
  BY MoreMet
<1> QED
  BY <1>3, <1>4, <1>5, <1>6 DEF Walked

\* Frames, the timer and what is outside.
LEMMA OtherWalked ==
  ASSUME TypeOK, Hearing, OneStep, Flight, Walked, "late" \notin Faults, [Next]_vars,
         \/ \E c \in Caller : StartWalk(c)
         \/ TopologyTimer
         \/ Network
         \/ \E l \in Link : Heartbeats(l) \/ LinkUp(l) \/ LinkDown(l)
         \/ UNCHANGED vars
  PROVE  Walked'
<1>q. queue \in Seq(Events) /\ replies \subseteq Replies /\ target \in Node \cup {Nobody}
  BY DEF TypeOK, Events, Replies
<1>b. inProgress \in BOOLEAN /\ timer \in BOOLEAN
  BY DEF TypeOK
<1>o. /\ timer => ~Steps(queue)
      /\ inProgress <=> timer \/ Steps(queue)
  BY OneStepIs
<1>m. Met \subseteq Met'
  BY MetGrows
<1>w. /\ inProgress => Sound(topology, insertBefore, Asking(queue, timer), Met)
      /\ timer \/ Has(queue, "add") => Aimed(topology, insertBefore, target, Met)
      /\ \A r \in replies : Answered(r, target, Met)
      /\ AddsAnswered(queue, target, Met)
  BY DEF Walked
<1>n. ASSUME UNCHANGED <<topology, inProgress, insertBefore, target>>,
             inProgress, Asking(queue, timer), Asking(queue', timer'),
             timer' \/ Has(queue', "add") => Aimed(topology, insertBefore, target, Met),
             \A r \in replies' : Answered(r, target, Met),
             AddsAnswered(queue', target, Met)
      PROVE  Walked'
  <2>1. Asking(queue, timer) = TRUE /\ Asking(queue', timer') = TRUE
    BY <1>n DEF Asking
  <2>2. Sound(topology, insertBefore, Asking(queue', timer'), Met)
    BY <1>n, <1>w, <2>1
  <2>3. Sound(topology', insertBefore', Asking(queue', timer'), Met')
    BY <1>m, <1>n, <2>2, MoreMet
  <2>4. timer' \/ Has(queue', "add") => Aimed(topology', insertBefore', target', Met')
    BY <1>m, <1>n, MoreMet
  <2>5. /\ \A r \in replies' : Answered(r, target', Met')
        /\ AddsAnswered(queue', target', Met')
    BY <1>m, <1>n, MoreMet
  <2> QED
    BY <1>n, <2>3, <2>4, <2>5 DEF Walked
<1>1. ASSUME NEW c \in Caller, StartWalk(c)
      PROVE  Walked'
  <2>1. /\ queue' = Append(queue, Start(c)) /\ Start(c) \in Events
        /\ Start(c).type = "start"
        /\ UNCHANGED <<topology, inProgress, insertBefore, target, timer, replies>>
    BY <1>1, EventTypes DEF StartWalk, Start, walk, net
  <2>2. /\ \A type : Has(queue', type) <=> Has(queue, type) \/ "start" = type
        /\ AddsAnswered(queue', target, Met)
    BY <1>q, <1>w, <2>1, HasAdded
  <2> QED
    BY <1>m, <2>1, <2>2, WalkKept
<1>2. CASE TopologyTimer
  <2>1. /\ timer /\ ~timer' /\ replies = {} /\ replies' = {}
        /\ queue' = Append(queue, Event("timeout")) /\ Event("timeout") \in Events
        /\ Event("timeout").type = "timeout"
        /\ UNCHANGED <<topology, inProgress, insertBefore, target>>
    BY <1>2, EventTypes DEF TopologyTimer, Event, walk, net
  <2>2. /\ \A type : Has(queue', type) <=> Has(queue, type) \/ "timeout" = type
        /\ AddsAnswered(queue', target, Met)
    BY <1>q, <1>w, <2>1, HasAdded
  <2>3. ~Has(queue, "add")
    BY <1>o, <2>1, NoStep
  <2>4. ~Has(queue', "add") /\ Has(queue', "timeout")
    BY <2>2, <2>3
  <2>5. Asking(queue, timer) /\ Asking(queue', timer') /\ inProgress
    BY <1>o, <2>1, <2>4 DEF Asking
  <2> QED
    BY <1>n, <2>1, <2>2, <2>4, <2>5
<1>3. ASSUME NEW n \in requests, Answer(n)
      PROVE  Walked'
  <2>1. /\ UNCHANGED <<topology, inProgress, insertBefore, queue, timer, target>>
        /\ replies' = replies \cup {[node |-> n, table |-> TableOf(n)]}
        /\ Reachable(n)
    BY <1>3 DEF Answer, walk
  <2>2. timer /\ n = target /\ inProgress
    BY <1>b, <1>o DEF Flight
  <2>3. Aimed(topology, insertBefore, n, Met) /\ n \in Node
    BY <1>w, <2>2 DEF Aimed
  <2>4. Answered([node |-> n, table |-> TableOf(n)], n, Met)
    BY <1>w, <2>1, <2>2, <2>3, AnswerIs
  <2>5. \A r \in replies' : Answered(r, target, Met)
    BY <1>w, <2>1, <2>2, <2>4
  <2>6. Asking(queue, timer) /\ Asking(queue', timer')
    BY <2>1, <2>2 DEF Asking
  <2> QED
    BY <1>n, <1>w, <2>1, <2>2, <2>5, <2>6
<1>4. ASSUME NEW r \in replies, Reply(r)
      PROVE  Walked'
  <2>1. /\ timer /\ inProgress /\ sentRequest /\ r.node = target
        /\ replies \ {r} = {}
    BY <1>b, <1>o DEF Flight
  <2>2. PICK e : e = Add(r.node, r.table)
    OBVIOUS
  <2>3. /\ replies' = {} /\ ~timer' /\ queue' = Append(queue, e)
        /\ UNCHANGED <<topology, target, inProgress, insertBefore>>
    BY <1>4, <2>1, <2>2 DEF Reply, walk
  <2>4. e \in Events /\ e.type = "add" /\ e.node = r.node /\ e.table = r.table
    BY <1>q, <2>2, EventTypes DEF Add
  <2>5. Answered(e, target, Met)
    BY <1>w, <2>4 DEF Answered
  <2>6. /\ \A type : Has(queue', type) <=> Has(queue, type) \/ "add" = type
        /\ AddsAnswered(queue', target, Met)
    BY <1>q, <1>w, <2>3, <2>4, <2>5, HasAdded
  <2>7. Asking(queue, timer) /\ Asking(queue', timer')
    BY <2>1, <2>6 DEF Asking
  <2> QED
    BY <1>n, <1>w, <2>1, <2>3, <2>6, <2>7
<1>5. CASE \/ \E n \in requests : LoseRequest(n)
           \/ \E r \in replies : LoseReply(r)
           \/ \E l \in Link : Heartbeats(l) \/ LinkUp(l) \/ LinkDown(l)
           \/ UNCHANGED vars
  <2>1. /\ UNCHANGED <<topology, inProgress, insertBefore, queue, timer, target>>
        /\ replies' \subseteq replies
    BY <1>5 DEF LoseRequest, LoseReply, Heartbeats, LinkUp, LinkDown, walk, net, vars
  <2> QED
    BY <1>m, <1>w, <2>1, WalkKept
<1> QED
  BY <1>1, <1>2, <1>3, <1>4, <1>5 DEF Network

\* The walk's own steps.
LEMMA ThreadWalked ==
  ASSUME TypeOK, Hearing, OneStep, Flight, Walked, Thread
  PROVE  Walked'
<1>q. queue \in Seq(Events) /\ insertBefore \in BOOLEAN
  BY DEF TypeOK, Events
<1>o. /\ Single(queue) /\ (timer => ~Steps(queue))
      /\ inProgress <=> timer \/ Steps(queue)
  BY OneStepIs
<1>m. Met' = Met
  BY DEF Thread, HandleStart, HandleCheck, HandleAdd, HandleTimeout, HandleEnd, bus,
         Met, Knows
<1>w. /\ inProgress => Sound(topology, insertBefore, Asking(queue, timer), Met)
      /\ ~inProgress => topology = Gone /\ ~insertBefore
      /\ timer \/ Has(queue, "add") => Aimed(topology, insertBefore, target, Met)
      /\ \A r \in replies : Answered(r, target, Met)
      /\ AddsAnswered(queue, target, Met)
  BY DEF Walked
<1>0. queue # <<>> /\ Tail(queue) \in Seq(Events) /\ Head(queue) \in Events
  BY <1>q, QueueTypes DEF Thread, HandleStart, HandleCheck, HandleAdd, HandleTimeout,
                          HandleEnd, Got
\* An event of the walk was the only one.
<1>t. ASSUME Head(queue).type # "start"
      PROVE  /\ inProgress /\ ~timer /\ ~Steps(Tail(queue))
             /\ \A type : type # "start" => (Has(queue, type) <=> Head(queue).type = type)
  <2>1. Steps(queue) /\ ~Steps(Tail(queue))
    BY <1>0, <1>o, <1>q, <1>t, EventTaken
  <2>2. \A type : Has(queue, type) <=> Has(Tail(queue), type) \/ Head(queue).type = type
    BY <1>0, <1>q, HasTaken
  <2> QED
    BY <1>o, <2>1, <2>2, NoStep
\* And is followed by a check or by the end.
<1>n. ASSUME NEW type \in {"check", "end"}, Then(Event(type)), ~timer', ~Steps(Tail(queue)),
             inProgress', Sound(topology', insertBefore', FALSE, Met),
             UNCHANGED <<replies, target>>
      PROVE  Walked'
  <2>1. /\ queue' = Append(Tail(queue), Event(type)) /\ Event(type) \in Events
        /\ Event(type).type = type
    BY <1>n, EventTypes DEF Then, Event
  <2>2. /\ AddsAnswered(Tail(queue), target, Met)
        /\ ~Has(Tail(queue), "add") /\ ~Has(Tail(queue), "timeout")
    BY <1>n, NoStep
  <2>3. /\ AddsAnswered(queue', target, Met)
        /\ ~Has(queue', "add") /\ ~Has(queue', "timeout")
    BY <1>0, <1>n, <2>1, <2>2, HasAdded
  <2>4. Asking(queue', timer') = FALSE
    BY <1>n, <2>3 DEF Asking
  <2> QED
    BY <1>m, <1>n, <1>w, <2>3, <2>4 DEF Walked
<1>1. CASE HandleStart
  <2>1. Head(queue).type = "start"
    BY <1>1 DEF HandleStart, Got
  <2>2. CASE ~inProgress
    <3>1. /\ inProgress' /\ topology' = [list |-> <<RootEntry>>, at |-> 1]
          /\ Then(Event("check"))
          /\ UNCHANGED <<target, insertBefore, timer, replies>>
      BY <1>1, <2>2 DEF HandleStart, net
    <3>2. ~timer /\ ~Steps(Tail(queue)) /\ insertBefore = FALSE
      BY <1>0, <1>o, <1>q, <1>w, <2>1, <2>2, EventTaken
    <3>3. Sound(topology', insertBefore', FALSE, Met)
      BY <3>1, <3>2, SoundStart
    <3> QED
      BY <1>n, <3>1, <3>2, <3>3
  <2>3. CASE inProgress
    <3>1. /\ queue' = Tail(queue)
          /\ UNCHANGED <<topology, inProgress, insertBefore, target, timer, replies>>
      BY <1>1, <2>3 DEF HandleStart, walk, net
    <3>2. /\ \A type : Has(queue, type) <=> Has(queue', type) \/ "start" = type
          /\ AddsAnswered(queue', target, Met)
      BY <1>0, <1>q, <1>w, <2>1, <3>1, HasTaken
    <3> QED
      BY <1>m, <3>1, <3>2, WalkKept
  <2> QED
    BY <2>2, <2>3
<1>2. CASE HandleCheck
  <2>1. /\ Head(queue).type = "check" /\ inProgress' = inProgress
        /\ inProgress /\ ~timer /\ ~Steps(Tail(queue))
        /\ ~Has(queue, "add") /\ ~Has(queue, "timeout")
    BY <1>2, <1>t DEF HandleCheck, Got
  <2>2. Asking(queue, timer) = FALSE
    BY <2>1 DEF Asking
  <2>3. Sound(topology, insertBefore, FALSE, Met)
    BY <1>w, <2>1, <2>2
  <2>4. CASE AllPortsExplored(topology)
    <3>1. AskNothing /\ insertBefore' = insertBefore
      BY <1>2, <2>4 DEF HandleCheck, Ask
    <3>2. CASE IsRoot(topology)
      <4>1. Then(Event("end")) /\ topology' = topology
        BY <1>2, <2>4, <3>2 DEF HandleCheck
      <4> QED
        BY <1>n, <2>1, <2>3, <3>1, <4>1 DEF AskNothing, net
    <3>3. CASE ~IsRoot(topology)
      <4>1. Then(Event("check")) /\ topology' = Back(topology, insertBefore)
        BY <1>2, <2>4, <3>3 DEF HandleCheck, MoveOn
      <4>2. Sound(topology', insertBefore', FALSE, Met)
        BY <1>q, <2>3, <2>4, <3>1, <3>3, <4>1, SoundBack
      <4> QED
        BY <1>n, <2>1, <3>1, <4>1, <4>2 DEF AskNothing, net
    <3> QED
      BY <3>2, <3>3
  <2>5. CASE ~AllPortsExplored(topology)
    <3> DEFINE after == insertBefore \/ (IsRoot(topology) /\ PortCountIs(topology, 1))
    <3>1. insertBefore' = after /\ after \in BOOLEAN
      BY <1>2, <1>q, <2>5 DEF HandleCheck
    <3> HIDE DEF after
    <3>2. /\ Sound(CountPort(topology), after, TRUE, Met)
          /\ Growing(CountPort(topology), after)
          /\ Listed(CountPort(topology)) = Listed(topology)
          /\ CountPort(topology).list[CountPort(topology).at].node
               = topology.list[topology.at].node
      BY <1>q, <2>3, <2>5, <3>1, SoundAsk DEF after
    <3>3. CASE NewNode(topology) # Nobody
      <4>1. PICK n : n = NewNode(topology)
        OBVIOUS
      <4>2. Ask(n)
        BY <1>2, <2>5, <3>3, <4>1 DEF HandleCheck
      <4>3. /\ topology' = CountPort(topology) /\ target' = n /\ timer'
            /\ queue' = Tail(queue) /\ replies' = replies
        BY <4>2 DEF Ask
      <4>4. /\ OnEntry(topology) /\ topology.at \in 1..Len(topology.list)
            /\ Known(topology.list[topology.at].node, topology.list[topology.at].table, Met)
        BY <2>3, OnEntryIs DEF Sound
      <4>5. /\ n \in Node /\ n \notin Listed(topology)
            /\ <<topology.list[topology.at].node, n>> \in Met
        BY <3>3, <4>1, <4>4, NewNodeIs DEF Known
      <4>6. Aimed(topology', insertBefore', target', Met)
        BY <3>1, <3>2, <4>3, <4>5 DEF Aimed
      <4>7. replies' = {} /\ AddsAnswered(queue', target', Met)
        BY <2>1, <4>3, NoStep DEF Flight
      <4>8. Asking(queue', timer') = TRUE
        BY <4>3 DEF Asking
      <4>9. Sound(topology', insertBefore', Asking(queue', timer'), Met)
        BY <3>1, <3>2, <4>3, <4>8
      <4> QED
        BY <1>m, <2>1, <4>6, <4>7, <4>9 DEF Walked
    <3>4. CASE NewNode(topology) = Nobody
      <4>1. /\ Then(Event("check")) /\ topology' = Back(CountPort(topology), after)
            /\ AskNothing
        BY <1>2, <2>5, <3>1, <3>4 DEF HandleCheck, MoveOn
      <4>2. Sound(topology', insertBefore', FALSE, Met)
        BY <3>1, <3>2, <4>1, SoundBack
      <4> QED
        BY <1>n, <2>1, <4>1, <4>2 DEF AskNothing, net
    <3> QED
      BY <3>3, <3>4
  <2> QED
    BY <2>4, <2>5
<1>3. CASE HandleAdd
  <2>1. /\ Head(queue).type = "add" /\ inProgress' = inProgress
        /\ inProgress /\ ~timer /\ ~Steps(Tail(queue)) /\ Has(queue, "add")
        /\ UNCHANGED <<insertBefore, timer, target, replies>>
    BY <1>3, <1>t DEF HandleAdd, Got, net
  <2>2. Asking(queue, timer) = TRUE
    BY <2>1 DEF Asking
  <2>3. /\ Sound(topology, insertBefore, TRUE, Met)
        /\ Aimed(topology, insertBefore, target, Met)
    BY <1>w, <2>1, <2>2
  <2>4. PICK e : e = [node |-> Head(queue).node, explored |-> 0,
                      table |-> Head(queue).table]
    OBVIOUS
  <2>5. Answered(Head(queue), target, Met)
    BY <1>0, <1>q, <1>w, <2>1, HasTaken
  <2>6. /\ e \in Entry /\ e.node = target /\ e.explored = 0
        /\ Known(e.node, e.table, Met) /\ UpCount(e.table) # 0
    <3>1. Head(queue).node \in Node /\ Head(queue).table \in Table
      BY <1>0, <2>1, EventTypes
    <3> QED
      BY <2>4, <2>5, <3>1 DEF Answered, Entry
  <2>7. topology # Gone /\ Head(queue).node \notin Listed(topology)
    BY <2>3, <2>4, <2>6, OnEntryIs DEF Sound, Aimed
  <2>8. Then(Event("check")) /\ topology' = CountPort(Insert(topology, e))
    BY <1>3, <2>4, <2>7 DEF HandleAdd, MoveOn
  <2>9. Sound(topology', insertBefore', FALSE, Met)
    <3>1. Aimed(topology, insertBefore, e.node, Met)
      BY <2>3, <2>6 DEF Aimed
    <3>2. Sound(CountPort(Insert(topology, e)), insertBefore, FALSE, Met)
      BY <1>q, <2>3, <2>6, <3>1, SoundAdd
    <3> QED
      BY <2>1, <2>8, <3>2
  <2> QED
    BY <1>n, <2>1, <2>8, <2>9
<1>4. CASE HandleTimeout
  <2>1. /\ Head(queue).type = "timeout" /\ inProgress' = inProgress
        /\ inProgress /\ ~timer /\ ~Steps(Tail(queue)) /\ Has(queue, "timeout")
        /\ UNCHANGED <<insertBefore, timer, target, replies>>
        /\ Then(Event("check")) /\ topology' = Back(topology, insertBefore)
    BY <1>4, <1>t DEF HandleTimeout, Got, MoveOn, net
  <2>2. Asking(queue, timer) = TRUE
    BY <2>1 DEF Asking
  <2>3. Sound(topology', insertBefore', FALSE, Met)
    BY <1>q, <1>w, <2>1, <2>2, SoundBack
  <2> QED
    BY <1>n, <2>1, <2>3
<1>5. CASE HandleEnd
  <2>1. /\ Head(queue).type = "end" /\ ~timer /\ ~Steps(Tail(queue))
        /\ topology' = Gone /\ ~insertBefore' /\ ~inProgress' /\ queue' = Tail(queue)
        /\ UNCHANGED <<target, timer, replies>>
    BY <1>5, <1>t DEF HandleEnd, Got, net
  <2>2. ~Has(queue', "add") /\ AddsAnswered(queue', target', Met)
    BY <2>1, NoStep
  <2> QED
    BY <1>m, <1>w, <2>1, <2>2 DEF Walked
<1> QED
  BY <1>1, <1>2, <1>3, <1>4, <1>5 DEF Thread

LEMMA WalkedNext ==
  ASSUME "late" \notin Faults
  PROVE  TypeOK /\ Hearing /\ OneStep /\ Flight /\ Walked /\ [Next]_vars => Walked'
<1> SUFFICES ASSUME TypeOK, Hearing, OneStep, Flight, Walked, [Next]_vars PROVE Walked'
  OBVIOUS
<1> QED
  BY OtherWalked, ThreadWalked DEF Next

LEMMA WalkedInit == Init => Walked
<1> SUFFICES ASSUME Init PROVE Walked
  OBVIOUS
<1>1. DOMAIN <<>> = {}
  OBVIOUS
<1>2. ~Has(queue, "add") /\ AddsAnswered(queue, target, Met)
  BY <1>1 DEF Init, Has, AddsAnswered
<1> QED
  BY <1>2 DEF Init, Walked

\* The list follows the cable, on a bus of any length, whatever is lost and
\* whichever links change, if no frame outlasts the timer of a second
\* (bcmp_topology.cpp, _insert_before and the moves of the cursor).
THEOREM ListFollowsTheBus ==
  ASSUME "late" \notin Faults
  PROVE  Spec => []InBusOrder
<1>1. TypeOK /\ Hearing /\ OneStep /\ Flight /\ Walked /\ [Next]_vars => Walked'
  BY WalkedNext
<1>2. TypeOK /\ Walked => InBusOrder
  BY WalkedIs
<1> QED
  BY <1>1, <1>2, WalkedInit, InitTypes, NextTypes, HearingInit, HearingNext,
     InitOneStep, NextOneStep, PTL
  DEF Spec

(***************************************************************************)
(* The list is complete                                                    *)
(*                                                                         *)
(* When every port of an entry that is up has been counted, the node at    *)
(* each of them is in the list; when one of two has been, the node at one  *)
(* of the two rows is.  While a node is being asked, the list counts as    *)
(* having it already: if nothing is silent it answers and is inserted.     *)
(***************************************************************************)
\* The node at every port that is up, and the node at some port, is in the list
\* or among more.
Full(t, i, more) ==
  \A k \in DOMAIN t.list[i].table :
    t.list[i].table[k].up => t.list[i].table[k].id \in Listed(t) \cup more
Half(t, i, more) ==
  \E k \in DOMAIN t.list[i].table : t.list[i].table[k].id \in Listed(t) \cup more

\* What has been counted is in the list, or among more.
Paid(t, more) ==
  \A i \in 1..Len(t.list) :
    /\ Count(t, i) = Ports(t, i) => Full(t, i, more)
    /\ Count(t, i) = 1 /\ Ports(t, i) = 2 => Half(t, i, more)

\* The ports that are up, counted.
LEMMA UpCountSmall ==
  ASSUME NEW table \in Table
  PROVE  /\ UpCount(table) = 0 => \A k \in DOMAIN table : ~table[k].up
         /\ UpCount(table) = 1 =>
              \A j, k \in DOMAIN table : table[j].up /\ table[k].up => j = k
         /\ UpCount(table) = 2 => DOMAIN table # {}
         /\ \A k \in DOMAIN table : k \in 1..2
<1> DEFINE S == {i \in DOMAIN table : table[i].up}
<1>1. table \in Seq(Row) /\ Len(table) <= 2
  BY DEF Table
<1>2. Len(table) \in Nat /\ DOMAIN table = 1..Len(table)
  BY <1>1
<1>3. \A k \in DOMAIN table : k \in 1..2
  BY <1>1, <1>2
<1>4. IsFiniteSet(S)
  <2>1. IsFiniteSet(1..2)
    <3>1. 1 \in Int /\ 2 \in Int
      OBVIOUS
    <3> QED
      BY <3>1, FS_Interval
  <2>2. S \in SUBSET (1..2)
    BY <1>3
  <2> QED
    BY <2>1, <2>2, FS_Subset
<1>5. UpCount(table) = Cardinality(S)
  BY DEF UpCount
<1>6. \A k \in DOMAIN table : table[k].up => k \in S
  OBVIOUS
<1>7. S # {} => DOMAIN table # {}
  OBVIOUS
<1> HIDE DEF S
<1>8. UpCount(table) = 0 => S = {}
  BY <1>4, <1>5, FS_EmptySet
<1>9. UpCount(table) = 1 => \E x : S = {x}
  BY <1>4, <1>5, FS_Singleton
<1>10. UpCount(table) = 2 => S # {}
  <2>1. S = {} => Cardinality(S) = 0
    BY <1>4, FS_EmptySet
  <2>2. S = {} => UpCount(table) = 0
    BY <1>5, <2>1
  <2> QED
    BY <2>2
<1> QED
  BY <1>3, <1>6, <1>7, <1>8, <1>9, <1>10

\* The node asked is joined to the one under the cursor by a link that is up, if it
\* can be reached.
LEMMA LinkIsUp ==
  ASSUME Hearing, NEW t, NEW before, NEW asking, NEW n \in Node,
         Sound(t, before, asking, Met), Aimed(t, before, n, Met), Reachable(n)
  PROVE  /\ {n, t.list[t.at].node} \in up
         /\ t.list[t.at].node \in Node /\ Knows(n, t.list[t.at].node)
         /\ t.list[t.at].node \in Listed(t)
<1> DEFINE m == t.list[t.at].node
           p(x) == Position(x)
<1>1. /\ OnEntry(t) /\ InARow(t) /\ n \notin Listed(t) /\ <<m, n>> \in Met
      /\ \E i \in 1..Len(t.list) : t.list[i].node = Root
  BY DEF Sound, Aimed, Counted, IsRootAt
<1>2. /\ m \in Node /\ DOMAIN t.list = 1..Len(t.list) /\ t.at \in 1..Len(t.list)
      /\ m \in Listed(t) /\ Root \in Listed(t) /\ Root \in Node /\ Root # n
  BY <1>1, OnEntryIs, EntryParts DEF Listed
<1>3. Knows(m, n) /\ Knows(n, m)
  BY <1>1, <1>2, MetIs DEF Hearing
<1>4. Joined(n, m)
  BY <1>2, <1>3 DEF Hearing, Knows
<1>5. /\ p(n) \in 1..Len(Bus) /\ p(m) \in 1..Len(Bus) /\ p(Root) \in 1..Len(Bus)
      /\ Bus[p(n)] = n /\ Bus[p(m)] = m /\ p(Root) # p(n)
      /\ Len(Bus) \in Nat
  BY <1>2, Positions
<1>6. PICK i, j \in 1..Len(t.list) : t.list[i].node = m /\ t.list[j].node = Root
  BY <1>1, <1>2
<1>7. /\ ~(p(m) < p(n) /\ p(n) < p(Root))
      /\ ~(p(Root) < p(n) /\ p(n) < p(m))
  BY <1>1, <1>6, RowIs DEF Place
<1>8. {n, m} \in up
  <2>1. CASE p(m) = p(n) + 1
    <3>1. p(n) < p(Root)
      BY <1>5, <1>7, <2>1
    <3>2. p(n) \in 1..(Len(Bus) - 1) /\ p(n) <= p(n)
      BY <1>5, <2>1
    <3>3. {Bus[p(n)], Bus[p(n) + 1]} \in up
      BY <3>1, <3>2 DEF Reachable
    <3> QED
      BY <1>5, <2>1, <3>3
  <2>2. CASE p(n) = p(m) + 1
    <3>1. p(Root) <= p(m) /\ p(m) < p(n)
      BY <1>5, <1>7, <2>2
    <3>2. p(m) \in 1..(Len(Bus) - 1)
      BY <1>5, <2>2
    <3>3. {Bus[p(m)], Bus[p(m) + 1]} \in up
      BY <3>1, <3>2 DEF Reachable
    <3> QED
      BY <1>5, <2>2, <3>3
  <2> QED
    BY <1>4, <2>1, <2>2 DEF Joined
<1> QED
  BY <1>2, <1>3, <1>8

\* The rows of a table that is current.
LEMMA RowsAre ==
  ASSUME Hearing, NEW n \in Node, NEW table, table = TableOf(n)
  PROVE  /\ table \in Table
         /\ \A k \in DOMAIN table : table[k].up <=> {n, table[k].id} \in up
         /\ \A j, k \in DOMAIN table : table[j].id = table[k].id => j = k
         /\ \A m : Knows(n, m) <=> \E k \in DOMAIN table : table[k].id = m
<1>1. table \in Table /\ DOMAIN table = DOMAIN heard[n]
  BY TableType
<1>2. \A k \in DOMAIN heard[n] :
        /\ TableOf(n)[k].id = heard[n][k]
        /\ TableOf(n)[k].up = ({n, heard[n][k]} \in up)
  BY DEF TableOf
<1>3. \A k \in DOMAIN table : table[k].id = heard[n][k]
  BY <1>1, <1>2
<1>4. \A k \in DOMAIN table : table[k].up <=> {n, table[k].id} \in up
  <2> TAKE k \in DOMAIN table
  <2>1. k \in DOMAIN heard[n] /\ table[k] = TableOf(n)[k]
    BY <1>1
  <2>2. table[k].up <=> {n, heard[n][k]} \in up
    BY <1>2, <2>1, Zenon
  <2>3. table[k].id = heard[n][k]
    BY <1>3
  <2> QED
    BY <2>2, <2>3, Zenon
<1>5. \A j, k \in DOMAIN table : table[j].id = table[k].id => j = k
  BY <1>1, <1>3 DEF Hearing
<1>6. \A m : Knows(n, m) <=> \E k \in DOMAIN table : table[k].id = m
  BY <1>1, <1>3 DEF Knows
<1> QED
  BY <1>1, <1>4, <1>5, <1>6

\* More in the list, or expected, pays for more.
LEMMA PaidMore ==
  ASSUME NEW t, NEW s, NEW i, NEW j, NEW more, NEW most,
         Listed(t) \cup more \subseteq Listed(s) \cup most,
         s.list[j].table = t.list[i].table
  PROVE  /\ Full(t, i, more) => Full(s, j, most)
         /\ Half(t, i, more) => Half(s, j, most)
BY DEF Full, Half

\* Asking a node that can be reached.
LEMMA PaidAsk ==
  ASSUME Hearing, NEW t, NEW before, NEW n,
         OnEntry(t), Counted(t, before, FALSE), ~AllPortsExplored(t),
         n = NewNode(t), n # Nobody, Reachable(n),
         t.list[t.at].table = TableOf(t.list[t.at].node),
         {n, t.list[t.at].node} \in up,
         Paid(t, {})
  PROVE  Paid(CountPort(t), {n})
<1>a. PICK s : s = CountPort(t)
  OBVIOUS
<1>b. PICK table : table = t.list[t.at].table
  OBVIOUS
<1>0. /\ t # Gone /\ t.at \in 1..Len(t.list) /\ DOMAIN t.list = 1..Len(t.list)
      /\ \A i \in 1..Len(t.list) :
           Count(t, i) \in Nat /\ Ports(t, i) \in Nat /\ Ports(t, i) <= 2
      /\ t.list[t.at].node \in Node
  BY OnEntryIs, EntryParts
<1>1. /\ Len(s.list) = Len(t.list) /\ s.at = t.at /\ DOMAIN s.list = 1..Len(s.list)
      /\ \A i \in 1..Len(t.list) :
           /\ s.list[i].node = t.list[i].node /\ s.list[i].table = t.list[i].table
           /\ Count(s, i) = Count(t, i) + (IF i = t.at THEN 1 ELSE 0)
  BY <1>a, CountPortParts, OnEntryIs
<1>2. Listed(s) = Listed(t)
  <2>1. /\ DOMAIN s.list = DOMAIN t.list
        /\ \A i \in DOMAIN t.list : s.list[i].node = t.list[i].node
    BY <1>0, <1>1
  <2> QED
    BY ONLY <2>1, Zenon DEF Listed
<1>3. \A i \in 1..Len(t.list) : Ports(s, i) = Ports(t, i)
  BY <1>1 DEF Ports
<1>4. ASSUME NEW i \in 1..Len(t.list), i # t.at
      PROVE  /\ Count(s, i) = Ports(s, i) => Full(s, i, {n})
             /\ Count(s, i) = 1 /\ Ports(s, i) = 2 => Half(s, i, {n})
  <2>1. Count(s, i) = Count(t, i)
    <3>1. Count(s, i) = Count(t, i) + 0 /\ Count(t, i) \in Nat
      BY <1>0, <1>1, <1>4
    <3> QED
      BY <3>1
  <2>2. /\ Full(t, i, {}) => Full(s, i, {n})
        /\ Half(t, i, {}) => Half(s, i, {n})
    BY <1>1, <1>2, PaidMore
  <2> QED
    BY <1>3, <2>1, <2>2 DEF Paid
<1>r. /\ table \in Table
      /\ \A k \in DOMAIN table :
           table[k].up <=> {t.list[t.at].node, table[k].id} \in up
      /\ \A j, k \in DOMAIN table : table[j].id = table[k].id => j = k
  <2>1. table = TableOf(t.list[t.at].node)
    BY <1>b
  <2>2. PICK m \in Node : m = t.list[t.at].node
    BY <1>0
  <2>3. /\ table \in Table
        /\ \A k \in DOMAIN table : table[k].up <=> {m, table[k].id} \in up
        /\ \A j, k \in DOMAIN table : table[j].id = table[k].id => j = k
    <3>1. table = TableOf(m)
      BY <2>1, <2>2
    <3> QED
      BY <3>1, RowsAre, SMTT(30)
  <2> QED
    BY <2>2, <2>3, Zenon
<1>n. n \notin Listed(t) /\ \E k \in DOMAIN table : table[k].id = n
  BY <1>b, NewNodeIs
<1>p. PICK new \in DOMAIN table : table[new].id = n
  BY <1>n
<1>u. table[new].up
  <2>1. {n, t.list[t.at].node} = {t.list[t.at].node, n}
    OBVIOUS
  <2> QED
    BY <1>p, <1>r, <2>1
<1>c. /\ Count(s, t.at) = Count(t, t.at) + 1 /\ Ports(t, t.at) = UpCount(table)
      /\ s.list[t.at].table = table
  BY <1>0, <1>1, <1>b DEF Ports
<1>5. Half(s, t.at, {n})
  BY <1>c, <1>p DEF Half
<1>6. ASSUME Count(s, t.at) = Ports(s, t.at)
      PROVE  Full(s, t.at, {n})
  <2>1. UpCount(table) = 1 \/ (UpCount(table) = 2 /\ Count(t, t.at) = 1)
    <3>1. /\ Count(t, t.at) \in Nat /\ UpCount(table) \in Nat /\ UpCount(table) <= 2
          /\ Count(t, t.at) + 1 = UpCount(table)
      BY <1>0, <1>3, <1>6, <1>c
    <3> QED
      BY <3>1
  <2>2. CASE UpCount(table) = 1
    <3>1. \A k \in DOMAIN table : table[k].up => k = new
      BY <1>r, <1>u, <2>2, UpCountSmall
    <3> QED
      BY <1>c, <1>p, <3>1 DEF Full
  <2>3. CASE UpCount(table) = 2 /\ Count(t, t.at) = 1
    <3>1. Half(t, t.at, {})
      BY <1>0, <1>c, <2>3 DEF Paid
    <3>2. PICK old \in DOMAIN table : table[old].id \in Listed(t)
      BY <1>b, <3>1 DEF Half
    <3>3. old # new
      BY <1>n, <1>p, <3>2
    <3>4. \A k \in DOMAIN table : k = old \/ k = new
      <4>1. \A k \in DOMAIN table : k \in 1..2
        BY <1>r, UpCountSmall
      <4>2. \A x, y, z \in 1..2 : x # y => z = x \/ z = y
        OBVIOUS
      <4> QED
        BY <3>3, <4>1, <4>2
    <3> QED
      BY <1>2, <1>c, <1>p, <3>2, <3>4 DEF Full
  <2> QED
    BY <2>1, <2>2, <2>3
<1>7. Paid(s, {n})
  BY <1>0, <1>1, <1>4, <1>5, <1>6 DEF Paid
<1> QED
  BY <1>7, <1>a

\* The cursor alone moves.
LEMMA PaidBack ==
  ASSUME NEW t, NEW s, s.list = t.list, NEW more, Paid(t, more)
  PROVE  Paid(s, more)
<1>1. \A i : Count(s, i) = Count(t, i) /\ Ports(s, i) = Ports(t, i)
  BY DEF Count, Ports
<1>2. \A i : (Full(s, i, more) <=> Full(t, i, more)) /\ (Half(s, i, more) <=> Half(t, i, more))
  BY DEF Full, Half, Listed
<1> QED
  BY <1>1, <1>2 DEF Paid

\* Counting a port when there is no node to ask for.
LEMMA PaidNone ==
  ASSUME NEW t, OnEntry(t), NewNode(t) = Nobody, Paid(t, {})
  PROVE  Paid(CountPort(t), {})
<1>a. PICK s : s = CountPort(t)
  OBVIOUS
<1>0. /\ t.at \in 1..Len(t.list) /\ DOMAIN t.list = 1..Len(t.list)
      /\ \A i \in 1..Len(t.list) : Count(t, i) \in Nat /\ t.list[i].table \in Table
  BY OnEntryIs, EntryParts
<1>1. /\ Len(s.list) = Len(t.list) /\ s.at = t.at /\ DOMAIN s.list = 1..Len(s.list)
      /\ \A i \in 1..Len(t.list) :
           /\ s.list[i].node = t.list[i].node /\ s.list[i].table = t.list[i].table
           /\ Count(s, i) = Count(t, i) + (IF i = t.at THEN 1 ELSE 0)
  BY <1>a, CountPortParts, OnEntryIs
<1>2. Listed(s) = Listed(t)
  <2>1. /\ DOMAIN s.list = DOMAIN t.list
        /\ \A i \in DOMAIN t.list : s.list[i].node = t.list[i].node
    BY <1>0, <1>1
  <2> QED
    BY ONLY <2>1, Zenon DEF Listed
<1>3. \A i \in 1..Len(t.list) : Ports(s, i) = Ports(t, i)
  BY <1>1 DEF Ports
<1>4. ASSUME NEW i \in 1..Len(t.list), i # t.at
      PROVE  /\ Count(s, i) = Ports(s, i) => Full(s, i, {})
             /\ Count(s, i) = 1 /\ Ports(s, i) = 2 => Half(s, i, {})
  <2>1. Count(s, i) = Count(t, i)
    <3>1. Count(s, i) = Count(t, i) + 0 /\ Count(t, i) \in Nat
      BY <1>0, <1>1, <1>4
    <3> QED
      BY <3>1
  <2>2. /\ Full(t, i, {}) => Full(s, i, {})
        /\ Half(t, i, {}) => Half(s, i, {})
    BY <1>1, <1>2, PaidMore
  <2> QED
    BY <1>3, <2>1, <2>2 DEF Paid
<1>5. \A k \in DOMAIN s.list[t.at].table : s.list[t.at].table[k].id \in Listed(s)
  BY <1>0, <1>1, <1>2, NoNewNode
<1>6. Full(s, t.at, {})
  BY <1>5 DEF Full
<1>7. Ports(s, t.at) = 2 => Half(s, t.at, {})
  <2>1. Ports(s, t.at) = 2 => DOMAIN s.list[t.at].table # {}
    BY <1>0, <1>1, UpCountSmall DEF Ports
  <2> QED
    BY <1>5, <2>1 DEF Half
<1> QED
  BY <1>1, <1>4, <1>6, <1>7, <1>a DEF Paid

\* The entries of a list that got one.
LEMMA EntryAdded ==
  ASSUME NEW t, OnEntry(t), NEW e \in Entry, insertBefore \in BOOLEAN,
         NEW s, s = CountPort(Insert(t, e))
  PROVE  /\ OnEntry(s)
         /\ s.list[s.at].node = e.node /\ s.list[s.at].table = e.table
         /\ Count(s, s.at) = e.explored + 1
         /\ \A i \in 1..Len(s.list) : i = s.at \/
              \E j \in 1..Len(t.list) :
                /\ s.list[i].node = t.list[j].node /\ s.list[i].table = t.list[j].table
                /\ Count(s, i) = Count(t, j)
         /\ e.node \in Listed(s) /\ Listed(t) \subseteq Listed(s)
<1> DEFINE k == IF insertBefore THEN t.at ELSE t.at + 1
<1>a. PICK n : n = Len(t.list)
  OBVIOUS
<1>b. PICK r : r = Insert(t, e)
  OBVIOUS
<1>0. /\ n \in Nat \ {0} /\ t.at \in 1..n /\ DOMAIN t.list = 1..n
      /\ \A i \in 1..n : Count(t, i) \in Nat
  BY <1>a, OnEntryIs, EntryParts
<1>1. /\ OnEntry(r) /\ r.at = k /\ k \in 1..(n + 1) /\ Len(r.list) = n + 1
      /\ \A i \in 1..(n + 1) :
           r.list[i] = IF i < k THEN t.list[i] ELSE IF i = k THEN e ELSE t.list[i - 1]
  BY <1>a, <1>b, InsertIs
<1>2. /\ OnEntry(s) /\ s.at = k /\ Len(s.list) = n + 1 /\ DOMAIN s.list = 1..(n + 1)
      /\ \A i \in 1..(n + 1) :
           /\ s.list[i].node = r.list[i].node /\ s.list[i].table = r.list[i].table
           /\ Count(s, i) = Count(r, i) + (IF i = k THEN 1 ELSE 0)
  BY <1>1, <1>b, CountPortParts, OnEntryIs
<1>3. /\ s.list[k].node = e.node /\ s.list[k].table = e.table
      /\ Count(s, k) = e.explored + 1
  <2>1. r.list[k] = e
    BY <1>1
  <2> QED
    BY <1>1, <1>2, <2>1 DEF Count
<1>4. ASSUME NEW i \in 1..(n + 1), i # k
      PROVE  \E j \in 1..n :
               /\ s.list[i].node = t.list[j].node /\ s.list[i].table = t.list[j].table
               /\ Count(s, i) = Count(t, j)
  <2>a. PICK j : j = IF i < k THEN i ELSE i - 1
    OBVIOUS
  <2>1. j \in 1..n
    BY <1>0, <1>1, <1>4, <2>a
  <2>2. r.list[i] = t.list[j]
    BY <1>1, <1>4, <2>a
  <2>3. Count(s, i) = Count(r, i) + 0
    BY <1>2, <1>4
  <2>4. Count(r, i) = Count(t, j) /\ Count(t, j) \in Nat
    BY <1>0, <2>1, <2>2 DEF Count
  <2>5. s.list[i].node = t.list[j].node /\ s.list[i].table = t.list[j].table
    BY <1>2, <2>2
  <2>6. Count(s, i) = Count(t, j)
    BY <2>3, <2>4
  <2> QED
    BY <2>1, <2>5, <2>6
<1>5. ASSUME NEW j \in 1..n
      PROVE  \E i \in 1..(n + 1) : s.list[i].node = t.list[j].node
  <2>a. PICK i : i = IF j < k THEN j ELSE j + 1
    OBVIOUS
  <2>1. i \in 1..(n + 1)
    BY <1>0, <2>a
  <2>2. r.list[i] = t.list[j]
    <3>1. CASE j < k
      BY <1>1, <2>1, <2>a, <3>1
    <3>2. CASE ~(j < k)
      <4>1. ~(i < k) /\ i # k /\ i - 1 = j
        BY <1>0, <1>1, <2>a, <3>2
      <4> QED
        BY <1>1, <2>1, <4>1
    <3> QED
      BY <3>1, <3>2
  <2> QED
    BY <1>2, <2>1, <2>2
<1>6. e.node \in Listed(s) /\ Listed(t) \subseteq Listed(s)
  <2>1. \A i \in 1..(n + 1) : s.list[i].node \in Listed(s)
    BY <1>2 DEF Listed
  <2>2. \A x \in Listed(t) : \E j \in 1..n : x = t.list[j].node
    BY <1>0 DEF Listed
  <2>3. Listed(t) \subseteq Listed(s)
    BY <1>5, <2>1, <2>2
  <2>4. e.node \in Listed(s)
    BY <1>1, <1>3, <2>1
  <2> QED
    BY <2>3, <2>4
<1> QED
  BY <1>2, <1>3, <1>4, <1>6, <1>a

\* The node that answered is in the list, with the port to the one beside it.
LEMMA PaidAdd ==
  ASSUME Hearing, insertBefore \in BOOLEAN, NEW t, OnEntry(t), NEW n \in Node,
         NEW e \in Entry, e.node = n, e.explored = 0, e.table = TableOf(n),
         NEW m \in Listed(t), Knows(n, m), {n, m} \in up,
         Paid(t, {n})
  PROVE  Paid(CountPort(Insert(t, e)), {})
<1>a. PICK s : s = CountPort(Insert(t, e))
  OBVIOUS
<1>b. PICK table : table = e.table
  OBVIOUS
<1>1. /\ OnEntry(s)
      /\ s.list[s.at].node = n /\ s.list[s.at].table = table
      /\ Count(s, s.at) = 0 + 1
      /\ \A i \in 1..Len(s.list) : i = s.at \/
           \E j \in 1..Len(t.list) :
             /\ s.list[i].node = t.list[j].node /\ s.list[i].table = t.list[j].table
             /\ Count(s, i) = Count(t, j)
      /\ n \in Listed(s) /\ Listed(t) \subseteq Listed(s)
  BY <1>a, <1>b, EntryAdded
<1>2. ASSUME NEW i \in 1..Len(s.list), i # s.at
      PROVE  /\ Count(s, i) = Ports(s, i) => Full(s, i, {})
             /\ Count(s, i) = 1 /\ Ports(s, i) = 2 => Half(s, i, {})
  <2>1. PICK j \in 1..Len(t.list) :
          /\ s.list[i].node = t.list[j].node /\ s.list[i].table = t.list[j].table
          /\ Count(s, i) = Count(t, j)
    BY <1>1, <1>2
  <2>2. Ports(s, i) = Ports(t, j)
    BY <2>1 DEF Ports
  <2>3. Listed(t) \cup {n} \subseteq Listed(s) \cup {}
    BY <1>1
  <2>4. /\ Full(t, j, {n}) => Full(s, i, {})
        /\ Half(t, j, {n}) => Half(s, i, {})
    BY <2>1, <2>3, PaidMore
  <2> QED
    BY <2>1, <2>2, <2>4 DEF Paid
<1>r. /\ table \in Table
      /\ \A k \in DOMAIN table : table[k].up <=> {n, table[k].id} \in up
      /\ \E k \in DOMAIN table : table[k].id = m
  <2>1. table = TableOf(n)
    BY <1>b
  <2> QED
    BY <2>1, RowsAre, SMTT(30)
<1>3. PICK back \in DOMAIN table : table[back].id = m
  BY <1>r
<1>4. table[back].up
  BY <1>3, <1>r
<1>5. m \in Listed(s)
  BY <1>1
<1>6. Half(s, s.at, {})
  BY <1>1, <1>3, <1>5 DEF Half
<1>7. Count(s, s.at) = Ports(s, s.at) => Full(s, s.at, {})
  <2>1. SUFFICES ASSUME Ports(s, s.at) = 1
                 PROVE  Full(s, s.at, {})
    BY <1>1
  <2>2. UpCount(table) = 1
    BY <1>1, <2>1 DEF Ports
  <2>3. \A k \in DOMAIN table : table[k].up => k = back
    BY <1>3, <1>4, <1>r, <2>2, UpCountSmall
  <2> QED
    BY <1>1, <1>3, <1>5, <2>3 DEF Full
<1> QED
  BY <1>2, <1>6, <1>7, <1>a DEF Paid

\* The nodes within reach, with the tables they would send now.
Sent == [n \in {m \in Node : Reachable(m)} |-> TableOf(n)]

\* An entry, a reply or an event with the table of a node within reach.
Current(e, sent) == e.node \in DOMAIN sent /\ e.table = sent[e.node]

\* A current entry, in terms of the bus.
LEMMA CurrentIs ==
  \A e : Current(e, Sent) <=>
           e.node \in Node /\ Reachable(e.node) /\ e.table = TableOf(e.node)
BY DEF Current, Sent

\* The bus is as it was.
LEMMA SentStays == UNCHANGED <<up, heard>> => Sent' = Sent
BY DEF Sent, Reachable, TableOf

AllCurrent(t, sent) == \A i \in 1..Len(t.list) : Current(t.list[i], sent)
AddsCurrent(q, sent) == \A i \in DOMAIN q : q[i].type = "add" => Current(q[i], sent)

\* The node asked, while it may still answer or has answered.
Owed(q, running, n) == IF running \/ Has(q, "add") THEN {n} ELSE {}

\* Of a walk that has met nothing so far, what it has counted is in its list.
Surveyed ==
  /\ Has(queue, "timeout") => trouble # {}
  /\ Has(queue, "end") => AllPortsExplored(topology) /\ IsRoot(topology)
  /\ inProgress /\ trouble = {} =>
       /\ AllCurrent(topology, Sent)
       /\ \A r \in replies : Current(r, Sent)
       /\ AddsCurrent(queue, Sent)
       /\ LET owed == Owed(queue, timer, target)
          IN  owed \subseteq DOMAIN Sent => Paid(topology, owed)

\* Nodes joined by a link that is up know each other.
Acquainted == \A l \in up : \A n, m \in l : n = m \/ Knows(n, m)

\* When the walk is over, every port of every entry has been counted.
LEMMA AllCounted ==
  ASSUME NEW t, NEW before, NEW asking, NEW met, Sound(t, before, asking, met),
         AllPortsExplored(t), IsRoot(t)
  PROVE  \A i \in 1..Len(t.list) : Count(t, i) = Ports(t, i)
<1>1. OnEntry(t) /\ InARow(t) /\ Counted(t, before, asking)
  BY DEF Sound
<1>2. t.at \in 1..Len(t.list) /\ t.list[t.at].node = Root
  BY <1>1, OnEntryIs DEF IsRoot
<1>3. Count(t, t.at) = Ports(t, t.at)
  BY DEF AllPortsExplored, Count, Ports
<1>4. \A i \in 1..Len(t.list) : IsRootAt(t, i) <=> i = t.at
  BY <1>1, <1>2, RowIs DEF IsRootAt
<1> QED
  BY <1>1, <1>3, <1>4 DEF Counted

\* The entries at the two ends of a row.
LEMMA RowEnds ==
  ASSUME NEW t, OnEntry(t), InARow(t)
  PROVE  /\ \E i \in 1..Len(t.list) : \A j \in 1..Len(t.list) : Place(t, j) <= Place(t, i)
         /\ \E i \in 1..Len(t.list) : \A j \in 1..Len(t.list) : Place(t, i) <= Place(t, j)
<1>a. PICK n : n = Len(t.list)
  OBVIOUS
<1>0. n \in Nat \ {0} /\ \A i \in 1..n : Place(t, i) \in Int
  BY <1>a, OnEntryIs, EntryParts
<1>1. /\ n \in Nat \ {0} /\ 1 \in 1..n /\ n \in 1..n
      /\ \A i \in 1..n : Place(t, i) \in Int
  BY <1>0
<1>2. CASE \A i \in 1..n : Place(t, i) = Place(t, 1) + i - 1
  <2>1. \A j \in 1..n : Place(t, j) <= Place(t, n) /\ Place(t, 1) <= Place(t, j)
    BY <1>1, <1>2
  <2> QED
    BY <1>1, <1>a, <2>1
<1>3. CASE \A i \in 1..n : Place(t, i) = Place(t, 1) - i + 1
  <2>1. \A j \in 1..n : Place(t, j) <= Place(t, 1) /\ Place(t, n) <= Place(t, j)
    BY <1>1, <1>3
  <2> QED
    BY <1>1, <1>a, <2>1
<1> QED
  BY <1>2, <1>3, <1>a DEF InARow

\* Beside an entry whose ports have all been counted, across a link that is up,
\* there is another entry.
LEMMA NextListed ==
  ASSUME Hearing, Acquainted, NEW t, OnEntry(t), NEW i \in 1..Len(t.list),
         NEW m \in Node, NEW n \in Node, m = t.list[i].node, n # m, {m, n} \in up,
         Current(t.list[i], Sent), Full(t, i, {})
  PROVE  n \in Listed(t)
<1>1. Knows(m, n)
  BY DEF Acquainted
<1>2. PICK table : table = t.list[i].table
  OBVIOUS
<1>3. table = TableOf(m)
  BY <1>2, CurrentIs
<1>4. /\ \A k \in DOMAIN table : table[k].up <=> {m, table[k].id} \in up
      /\ \E k \in DOMAIN table : table[k].id = n
  BY <1>1, <1>3, RowsAre, SMTT(30)
<1>5. PICK k \in DOMAIN table : table[k].id = n
  BY <1>4
<1>6. table[k].up
  BY <1>4, <1>5
<1> QED
  BY <1>2, <1>5, <1>6 DEF Full

\* The list of a walk that is over has the nodes within reach and no others.
LEMMA ListIsAll ==
  ASSUME Hearing, Acquainted, NEW t, NEW before, NEW asking,
         Sound(t, before, asking, Met), AllPortsExplored(t), IsRoot(t),
         AllCurrent(t, Sent), Paid(t, {})
  PROVE  Listed(t) = {n \in Node : Reachable(n)}
<1> DEFINE p(n) == Position(n)
<1>1. OnEntry(t) /\ InARow(t)
  BY DEF Sound
<1>2. DOMAIN t.list = 1..Len(t.list) /\ t.at \in 1..Len(t.list)
  BY <1>1, OnEntryIs
<1>3. \A i \in 1..Len(t.list) :
        /\ Current(t.list[i], Sent) /\ Full(t, i, {})
        /\ t.list[i].node \in Node /\ Place(t, i) = p(t.list[i].node)
  BY <1>1, AllCounted, EntryParts DEF AllCurrent, Paid, Place
<1>4. Listed(t) \subseteq {n \in Node : Reachable(n)}
  BY <1>2, <1>3, CurrentIs DEF Listed
<1>5. ASSUME NEW n \in Node, Reachable(n), n \notin Listed(t)
      PROVE  FALSE
  <2>1. Root \in Listed(t) /\ Root \in Node /\ Place(t, t.at) = p(Root)
    BY <1>2, <1>3 DEF IsRoot, Listed
  <2>2. /\ p(n) \in 1..Len(Bus) /\ p(Root) \in 1..Len(Bus) /\ p(n) # p(Root)
        /\ Len(Bus) \in Nat /\ Bus[p(n)] = n
    BY <1>5, <2>1, Positions
  <2>3. ASSUME NEW i \in 1..Len(t.list)
        PROVE  /\ Place(t, i) \in 1..Len(Bus) /\ Place(t, i) # p(n)
               /\ Bus[Place(t, i)] = t.list[i].node /\ t.list[i].node \in Listed(t)
    <3>1. t.list[i].node \in Node /\ t.list[i].node \in Listed(t)
      BY <1>2, <1>3 DEF Listed
    <3> QED
      BY <1>3, <1>5, <3>1, Positions
  <2>4. \A i, j \in 1..Len(t.list) : ~(Place(t, i) < p(n) /\ p(n) < Place(t, j))
    BY <1>1, <1>5, RowIs
  \* The node across the link beyond an end of the row is in the list.
  <2>5. ASSUME NEW i \in 1..Len(t.list), NEW k \in 1..Len(Bus),
               k = Place(t, i) + 1 \/ Place(t, i) = k + 1,
               {Bus[Place(t, i)], Bus[k]} \in up
        PROVE  \E j \in 1..Len(t.list) : Place(t, j) = k
    <3>1. PICK m : m = t.list[i].node
      OBVIOUS
    <3>2. m \in Node /\ Bus[Place(t, i)] = m /\ p(m) = Place(t, i)
      BY <1>3, <2>3, <3>1
    <3>3. Bus[k] \in Node /\ p(Bus[k]) = k
      BY Positions
    <3>4. Bus[k] # m
      BY <2>3, <2>5, <3>2, <3>3
    <3>5. Bus[k] \in Listed(t)
      BY <1>1, <1>3, <2>5, <3>1, <3>2, <3>3, <3>4, NextListed
    <3>6. PICK j \in 1..Len(t.list) : t.list[j].node = Bus[k]
      BY <1>2, <3>5 DEF Listed
    <3> QED
      BY <1>3, <3>3, <3>6
  <2>6. CASE p(Root) < p(n)
    <3>1. PICK i \in 1..Len(t.list) : \A j \in 1..Len(t.list) : Place(t, j) <= Place(t, i)
      BY <1>1, RowEnds
    <3>2. p(Root) <= Place(t, i) /\ Place(t, i) < p(n)
      BY <1>2, <2>1, <2>2, <2>3, <2>4, <2>6, <3>1
    <3>3. Place(t, i) \in 1..(Len(Bus) - 1) /\ Place(t, i) + 1 \in 1..Len(Bus)
      BY <2>2, <2>3, <3>2
    <3>4. {Bus[Place(t, i)], Bus[Place(t, i) + 1]} \in up
      BY <1>5, <3>2, <3>3 DEF Reachable
    <3>5. PICK j \in 1..Len(t.list) : Place(t, j) = Place(t, i) + 1
      BY <2>5, <3>3, <3>4
    <3> QED
      BY <2>3, <3>1, <3>5
  <2>7. CASE p(n) < p(Root)
    <3>1. PICK i \in 1..Len(t.list) : \A j \in 1..Len(t.list) : Place(t, i) <= Place(t, j)
      BY <1>1, RowEnds
    <3>2. Place(t, i) <= p(Root) /\ p(n) < Place(t, i)
      BY <1>2, <2>1, <2>2, <2>3, <2>4, <2>7, <3>1
    <3>3. PICK k : k = Place(t, i) - 1
      OBVIOUS
    <3>4. /\ k \in 1..(Len(Bus) - 1) /\ k \in 1..Len(Bus) /\ k + 1 = Place(t, i)
          /\ p(n) <= k /\ k < p(Root)
      BY <2>2, <2>3, <3>2, <3>3
    <3>5. {Bus[k], Bus[k + 1]} \in up
      BY <1>5, <3>4 DEF Reachable
    <3>6. {Bus[Place(t, i)], Bus[k]} \in up
      <4>1. {Bus[Place(t, i)], Bus[k]} = {Bus[k], Bus[k + 1]}
        BY <3>4
      <4> QED
        BY <3>5, <4>1
    <3>7. PICK j \in 1..Len(t.list) : Place(t, j) = k
      BY <2>5, <3>4, <3>6
    <3> QED
      BY <2>3, <3>1, <3>4, <3>7
  <2> QED
    BY <2>2, <2>6, <2>7
<1> QED
  BY <1>4, <1>5

\* What is in a queue that gets an event.
LEMMA CurrentAdded ==
  ASSUME NEW q \in Seq(Events), NEW e \in Events, NEW sent, AddsCurrent(q, sent),
         e.type = "add" => Current(e, sent)
  PROVE  AddsCurrent(Append(q, e), sent)
<1> DEFINE new == Append(q, e)
<1>1. \A i \in DOMAIN new : (i \in DOMAIN q /\ new[i] = q[i]) \/ new[i] = e
  <2>1. /\ Len(q) \in Nat /\ DOMAIN q = 1..Len(q) /\ DOMAIN new = 1..(Len(q) + 1)
        /\ \A i \in DOMAIN q : new[i] = q[i]
        /\ new[Len(q) + 1] = e
    OBVIOUS
  <2> QED
    BY <2>1
<1> HIDE DEF new
<1>2. AddsCurrent(new, sent)
  BY <1>1 DEF AddsCurrent
<1> QED
  BY <1>2 DEF new

\* And in one that loses its first.
LEMMA CurrentTaken ==
  ASSUME NEW q \in Seq(Events), q # <<>>, NEW sent, AddsCurrent(q, sent)
  PROVE  /\ AddsCurrent(Tail(q), sent)
         /\ Head(q).type = "add" => Current(Head(q), sent)
<1> DEFINE new == Tail(q)
<1>1. /\ \A i \in DOMAIN new : i + 1 \in DOMAIN q /\ new[i] = q[i + 1]
      /\ 1 \in DOMAIN q /\ Head(q) = q[1]
  <2>1. /\ Len(q) \in Nat \ {0} /\ DOMAIN q = 1..Len(q) /\ DOMAIN new = 1..(Len(q) - 1)
        /\ \A i \in DOMAIN new : new[i] = q[i + 1]
        /\ Head(q) = q[1]
    OBVIOUS
  <2> QED
    BY <2>1
<1> HIDE DEF new
<1>2. AddsCurrent(new, sent)
  BY <1>1 DEF AddsCurrent
<1>3. Head(q).type = "add" => Current(Head(q), sent)
  BY <1>1 DEF AddsCurrent
<1> QED
  BY <1>2, <1>3 DEF new

\* Without an event of the walk there is nothing to be current.
LEMMA NoAdds ==
  ASSUME NEW q, ~Steps(q)
  PROVE  \A sent : AddsCurrent(q, sent)
BY DEF Steps, AddsCurrent

\* Calls and lost frames leave a walk as it is.
LEMMA SurveyKept ==
  ASSUME Surveyed,
         UNCHANGED <<up, heard, topology, inProgress, target, timer, trouble>>,
         \A type : type # "start" => (Has(queue', type) <=> Has(queue, type)),
         AddsCurrent(queue, Sent) => AddsCurrent(queue', Sent), replies' \subseteq replies
  PROVE  Surveyed'
<1>1. Sent' = Sent
  BY SentStays
<1>2. Owed(queue', timer', target') = Owed(queue, timer, target)
  BY DEF Owed
<1>3. (Has(queue', "timeout") <=> Has(queue, "timeout"))
      /\ (Has(queue', "end") <=> Has(queue, "end"))
  OBVIOUS
<1> QED
  BY <1>1, <1>2, <1>3 DEF Surveyed

\* Frames, the timer and what is outside.
LEMMA OtherSurveyed ==
  ASSUME TypeOK, Hearing, OneStep, Flight, Surveyed, [Next]_vars,
         \/ \E c \in Caller : StartWalk(c)
         \/ TopologyTimer
         \/ Network
         \/ \E l \in Link : Heartbeats(l) \/ LinkUp(l) \/ LinkDown(l)
         \/ UNCHANGED vars
  PROVE  Surveyed'
<1>q. queue \in Seq(Events) /\ replies \subseteq Replies /\ requests \subseteq Node
  BY DEF TypeOK, Events, Replies
<1>b. inProgress \in BOOLEAN /\ timer \in BOOLEAN
  BY DEF TypeOK
<1>o. timer => ~Steps(queue)
  BY OneStepIs
<1>1. ASSUME NEW c \in Caller, StartWalk(c)
      PROVE  Surveyed'
  <2>1. /\ queue' = Append(queue, Start(c)) /\ Start(c) \in Events
        /\ Start(c).type = "start"
        /\ UNCHANGED <<up, heard, topology, inProgress, target, timer, replies, trouble>>
    BY <1>1, EventTypes DEF StartWalk, Start, walk, net, bus
  <2>2. /\ \A type : Has(queue', type) <=> Has(queue, type) \/ "start" = type
        /\ AddsCurrent(queue, Sent) => AddsCurrent(queue', Sent)
    BY <1>q, <2>1, HasAdded, CurrentAdded
  <2> QED
    BY <2>1, <2>2, SurveyKept
<1>2. CASE TopologyTimer
  <2>1. /\ timer /\ trouble' # {} /\ UNCHANGED topology
        /\ queue' = Append(queue, Event("timeout")) /\ Event("timeout") \in Events
        /\ Event("timeout").type = "timeout"
    BY <1>2, EventTypes DEF TopologyTimer, Event, walk
  <2>2. ~Has(queue', "end")
    BY <1>o, <1>q, <2>1, HasAdded, NoStep
  <2> QED
    BY <2>1, <2>2 DEF Surveyed
<1>3. ASSUME NEW n \in requests, Answer(n)
      PROVE  Surveyed'
  <2>1. /\ UNCHANGED <<up, heard, topology, inProgress, queue, timer, target, trouble>>
        /\ replies' = replies \cup {[node |-> n, table |-> TableOf(n)]}
        /\ Reachable(n) /\ n \in Node
    BY <1>3, <1>q DEF Answer, walk, bus
  <2>2. Current([node |-> n, table |-> TableOf(n)], Sent)
    BY <2>1, CurrentIs
  <2>3. Sent' = Sent
    BY <2>1, SentStays
  <2>4. ASSUME inProgress, trouble = {}
        PROVE  \A r \in replies' : Current(r, Sent)
    BY <2>1, <2>2, <2>4 DEF Surveyed
  <2> QED
    BY <2>1, <2>3, <2>4 DEF Surveyed
<1>4. ASSUME NEW r \in replies, Reply(r)
      PROVE  Surveyed'
  <2>1. timer /\ inProgress /\ sentRequest /\ r.node = target
    BY <1>b, OneStepIs DEF Flight
  <2>2. PICK e : e = Add(r.node, r.table)
    OBVIOUS
  <2>3. /\ replies' \subseteq replies /\ queue' = Append(queue, e)
        /\ UNCHANGED <<up, heard, topology, target, inProgress, trouble>>
    BY <1>4, <2>1, <2>2 DEF Reply, walk, bus
  <2>4. e \in Events /\ e.type = "add" /\ e.node = r.node /\ e.table = r.table
    BY <1>q, <2>2, EventTypes DEF Add
  <2>5. Current(r, Sent) => Current(e, Sent)
    BY <2>4 DEF Current
  <2>6. \A type : Has(queue', type) <=> Has(queue, type) \/ "add" = type
    BY <1>q, <2>3, <2>4, HasAdded
  <2>7. ~Has(queue', "timeout") /\ ~Has(queue', "end") /\ Has(queue', "add")
    BY <1>o, <2>1, <2>6, NoStep
  <2>8. Owed(queue', timer', target') = Owed(queue, timer, target)
    BY <2>1, <2>3, <2>7 DEF Owed
  <2>9. Sent' = Sent
    BY <2>3, SentStays
  <2>10. ASSUME inProgress, trouble = {}
         PROVE  AddsCurrent(queue', Sent)
    BY <1>q, <2>10, <2>3, <2>4, <2>5, CurrentAdded DEF Surveyed
  <2> QED
    BY <2>3, <2>7, <2>8, <2>9, <2>10 DEF Surveyed
<1>5. CASE \/ \E n \in requests : LoseRequest(n)
           \/ \E r \in replies : LoseReply(r)
           \/ UNCHANGED vars
  <2>1. /\ UNCHANGED <<up, heard, topology, inProgress, queue, timer, target, trouble>>
        /\ replies' \subseteq replies
    BY <1>5 DEF LoseRequest, LoseReply, walk, net, vars, bus
  <2> QED
    BY <2>1, SurveyKept
<1>6. ASSUME NEW l \in Link, Heartbeats(l) \/ LinkUp(l) \/ LinkDown(l)
      PROVE  Surveyed'
  <2>1. UNCHANGED <<topology, queue>> /\ trouble' # {}
    BY <1>6 DEF Heartbeats, LinkUp, LinkDown, walk
  <2> QED
    BY <2>1 DEF Surveyed
<1> QED
  BY <1>1, <1>2, <1>3, <1>4, <1>5, <1>6 DEF Network

\* A walk begins with the root alone, and owes nothing.
LEMMA SurveyStart ==
  ASSUME Hearing, NEW t, t = [list |-> <<RootEntry>>, at |-> 1]
  PROVE  AllCurrent(t, Sent) /\ Paid(t, {})
<1>1. /\ Root \in Node /\ RootEntry.node = Root /\ RootEntry.explored = 0
      /\ RootEntry.table = TableOf(Root) /\ TableOf(Root) \in Table
  BY BusAssumption, TableType DEF RootEntry
<1>2. /\ Len(t.list) = 1 /\ t.list[1] = RootEntry
      /\ \A i \in 1..Len(t.list) : i = 1
  OBVIOUS
<1>3. Reachable(Root)
  <2>1. Position(Root) \in Int
    BY <1>1, Positions
  <2>2. \A i \in 1..(Len(Bus) - 1) :
          ~(Position(Root) <= i /\ i < Position(Root))
    BY <1>1, <2>1, Positions
  <2> QED
    BY <2>2 DEF Reachable
<1>4. AllCurrent(t, Sent)
  BY <1>1, <1>2, <1>3, CurrentIs DEF AllCurrent
<1>5. Count(t, 1) = 0 /\ Ports(t, 1) = UpCount(TableOf(Root))
  BY <1>1, <1>2 DEF Count, Ports
<1>6. Count(t, 1) = Ports(t, 1) => Full(t, 1, {})
  BY <1>1, <1>2, <1>5, UpCountSmall DEF Full
<1> QED
  BY <1>2, <1>4, <1>5, <1>6 DEF Paid

\* The entries of a list that is counted or gone back in.
LEMMA CurrentStays ==
  ASSUME NEW t, OnEntry(t), NEW sent, AllCurrent(t, sent)
  PROVE  /\ AllCurrent(CountPort(t), sent)
         /\ \A s : s.list = t.list => AllCurrent(s, sent)
<1>1. /\ Len(CountPort(t).list) = Len(t.list)
      /\ \A i \in 1..Len(t.list) :
           /\ CountPort(t).list[i].node = t.list[i].node
           /\ CountPort(t).list[i].table = t.list[i].table
  BY CountPortParts
<1> QED
  BY <1>1 DEF AllCurrent, Current

\* The walk's own steps.
LEMMA ThreadSurveyed ==
  ASSUME TypeOK, Hearing, OneStep, Flight, Walked, Walked', Surveyed, Thread
  PROVE  Surveyed'
<1>q. /\ queue \in Seq(Events) /\ insertBefore \in BOOLEAN
      /\ inProgress \in BOOLEAN /\ timer \in BOOLEAN
  BY DEF TypeOK, Events
<1>o. /\ Single(queue) /\ (timer => ~Steps(queue))
      /\ inProgress <=> timer \/ Steps(queue)
  BY OneStepIs
<1>m. Met' = Met /\ Sent' = Sent
  <2>1. UNCHANGED <<up, heard>>
    BY DEF Thread, HandleStart, HandleCheck, HandleAdd, HandleTimeout, HandleEnd, bus
  <2> QED
    BY <2>1, SentStays DEF Met, Knows
<1>w. /\ inProgress => Sound(topology, insertBefore, Asking(queue, timer), Met)
      /\ timer \/ Has(queue, "add") => Aimed(topology, insertBefore, target, Met)
      /\ ~timer => replies = {}
  BY DEF Walked, Flight
<1>s. /\ Has(queue, "timeout") => trouble # {}
      /\ inProgress /\ trouble = {} =>
           /\ AllCurrent(topology, Sent) /\ AddsCurrent(queue, Sent)
           /\ Owed(queue, timer, target) \subseteq DOMAIN Sent
                => Paid(topology, Owed(queue, timer, target))
  BY DEF Surveyed
<1>0. queue # <<>> /\ Tail(queue) \in Seq(Events) /\ Head(queue) \in Events
  BY <1>q, QueueTypes DEF Thread, HandleStart, HandleCheck, HandleAdd, HandleTimeout,
                          HandleEnd, Got
\* An event of the walk was the only one.
<1>t. ASSUME Head(queue).type # "start"
      PROVE  /\ inProgress /\ ~timer /\ ~Steps(Tail(queue))
             /\ \A type : type # "start" => (Has(queue, type) <=> Head(queue).type = type)
  <2>1. Steps(queue) /\ ~Steps(Tail(queue))
    BY <1>0, <1>o, <1>q, <1>t, EventTaken
  <2>2. \A type : Has(queue, type) <=> Has(Tail(queue), type) \/ Head(queue).type = type
    BY <1>0, <1>q, HasTaken
  <2> QED
    BY <1>o, <2>1, <2>2, NoStep
\* And is followed by a check or by the end, and no reply is left.
<1>n. ASSUME NEW type \in {"check", "end"}, Then(Event(type)), ~timer, ~timer',
             ~Steps(Tail(queue)), UNCHANGED replies,
             type = "end" => AllPortsExplored(topology') /\ IsRoot(topology'),
             trouble' = {} => AllCurrent(topology', Sent) /\ Paid(topology', {})
      PROVE  Surveyed'
  <2>1. /\ queue' = Append(Tail(queue), Event(type)) /\ Event(type) \in Events
        /\ Event(type).type = type
    BY <1>n, EventTypes DEF Then, Event
  <2>2. /\ ~Has(Tail(queue), "add") /\ ~Has(Tail(queue), "timeout")
        /\ ~Has(Tail(queue), "end") /\ AddsCurrent(Tail(queue), Sent)
    BY <1>n, NoStep, NoAdds
  <2>3. \A x : Has(queue', x) <=> Has(Tail(queue), x) \/ type = x
    BY <1>0, <2>1, HasAdded
  <2>4. /\ ~Has(queue', "add") /\ ~Has(queue', "timeout")
        /\ Has(queue', "end") => type = "end"
    BY <1>n, <2>2, <2>3
  <2>5. AddsCurrent(queue', Sent')
    BY <1>0, <1>m, <1>n, <2>1, <2>2, CurrentAdded
  <2>6. Owed(queue', timer', target') = {} /\ replies' = {}
    BY <1>n, <1>w, <2>4 DEF Owed
  <2>7. trouble' = {} => AllCurrent(topology', Sent') /\ Paid(topology', {})
    BY <1>m, <1>n
  <2>8. Has(queue', "end") => AllPortsExplored(topology') /\ IsRoot(topology')
    BY <1>n, <2>4
  <2> QED
    BY <2>4, <2>5, <2>6, <2>7, <2>8 DEF Surveyed
<1>1. CASE HandleStart
  <2>1. Head(queue).type = "start"
    BY <1>1 DEF HandleStart, Got
  <2>2. CASE ~inProgress
    <3>1. /\ topology' = [list |-> <<RootEntry>>, at |-> 1]
          /\ Then(Event("check")) /\ UNCHANGED <<timer, replies>>
      BY <1>1, <2>2 DEF HandleStart, net
    <3>2. ~timer /\ ~Steps(Tail(queue))
      BY <1>0, <1>o, <1>q, <2>1, <2>2, EventTaken
    <3>3. AllCurrent(topology', Sent) /\ Paid(topology', {})
      BY <3>1, SurveyStart
    <3> QED
      BY <1>n, <3>1, <3>2, <3>3
  <2>3. CASE inProgress
    <3>1. /\ queue' = Tail(queue)
          /\ UNCHANGED <<up, heard, topology, inProgress, target, timer, replies, trouble>>
      BY <1>1, <2>3 DEF HandleStart, walk, net, bus
    <3>2. /\ \A type : Has(queue, type) <=> Has(queue', type) \/ "start" = type
          /\ AddsCurrent(queue, Sent) => AddsCurrent(queue', Sent)
      BY <1>0, <1>q, <2>1, <3>1, HasTaken, CurrentTaken
    <3> QED
      BY <3>1, <3>2, SurveyKept
  <2> QED
    BY <2>2, <2>3
<1>2. CASE HandleCheck
  <2>1. /\ Head(queue).type = "check" /\ inProgress' = inProgress
        /\ inProgress /\ ~timer /\ ~Steps(Tail(queue))
        /\ ~Has(queue, "add") /\ ~Has(queue, "timeout")
    BY <1>2, <1>t DEF HandleCheck, Got
  <2>2. Asking(queue, timer) = FALSE /\ Owed(queue, timer, target) = {}
    BY <2>1 DEF Asking, Owed
  <2>3. Sound(topology, insertBefore, FALSE, Met) /\ OnEntry(topology)
    BY <1>w, <2>1, <2>2 DEF Sound
  <2>4. trouble = {} => AllCurrent(topology, Sent) /\ Paid(topology, {})
    BY <1>s, <2>1, <2>2
  <2>5. CASE AllPortsExplored(topology)
    <3>1. AskNothing
      BY <1>2, <2>5 DEF HandleCheck, Ask
    <3>2. CASE IsRoot(topology)
      <4>1. Then(Event("end")) /\ topology' = topology
        BY <1>2, <2>5, <3>2 DEF HandleCheck
      <4> QED
        BY <1>n, <2>1, <2>4, <2>5, <3>1, <3>2, <4>1 DEF AskNothing, net
    <3>3. CASE ~IsRoot(topology)
      <4>1. Then(Event("check")) /\ topology' = Back(topology, insertBefore)
        BY <1>2, <2>5, <3>3 DEF HandleCheck, MoveOn
      <4>2. topology'.list = topology.list
        BY <1>q, <2>3, <4>1, BackIs
      <4>3. trouble = {} => AllCurrent(topology', Sent) /\ Paid(topology', {})
        BY <2>3, <2>4, <4>2, CurrentStays, PaidBack
      <4> QED
        BY <1>n, <2>1, <3>1, <4>1, <4>3 DEF AskNothing, net
    <3> QED
      BY <3>2, <3>3
  <2>6. CASE ~AllPortsExplored(topology)
    <3>1. insertBefore' \in BOOLEAN
      BY <1>2, <1>q, <2>6 DEF HandleCheck
    <3>2. trouble = {} => AllCurrent(CountPort(topology), Sent)
      BY <2>3, <2>4, CurrentStays
    <3>3. CASE NewNode(topology) # Nobody
      <4>1. PICK n : n = NewNode(topology)
        OBVIOUS
      <4>2. Ask(n)
        BY <1>2, <2>6, <3>3, <4>1 DEF HandleCheck
      <4>3. /\ topology' = CountPort(topology) /\ target' = n /\ timer'
            /\ queue' = Tail(queue) /\ replies' = replies /\ trouble' = trouble
        BY <4>2 DEF Ask
      <4>4. /\ ~Has(queue', "add") /\ ~Has(queue', "timeout") /\ ~Has(queue', "end")
            /\ AddsCurrent(queue', Sent) /\ replies' = {}
        BY <1>w, <2>1, <4>3, NoStep, NoAdds
      <4>5. Owed(queue', timer', target') = {n}
        BY <4>3 DEF Owed
      <4>6. ASSUME trouble = {}, {n} \subseteq DOMAIN Sent
            PROVE  Paid(topology', {n})
        <5>1. n \in Node /\ Reachable(n)
          BY <4>6 DEF Sent
        <5>2. PICK asking : Sound(topology', insertBefore', asking, Met)
          BY <1>m, <2>1 DEF Walked
        <5>3. Aimed(topology', insertBefore', n, Met)
          BY <1>m, <4>3 DEF Walked
        <5>4. {n, topology'.list[topology'.at].node} \in up
          BY <5>1, <5>2, <5>3, LinkIsUp
        <5>5. /\ topology.at \in 1..Len(topology.list) /\ topology'.at = topology.at
              /\ topology'.list[topology.at].node = topology.list[topology.at].node
          BY <2>3, <4>3, OnEntryIs, CountPortParts
        <5>6. {n, topology.list[topology.at].node} \in up
          BY <5>4, <5>5
        <5>7. topology.list[topology.at].table = TableOf(topology.list[topology.at].node)
          BY <2>4, <4>6, <5>5, CurrentIs DEF AllCurrent
        <5>8. Counted(topology, insertBefore, FALSE)
          BY <2>3 DEF Sound
        <5> QED
          BY <2>3, <2>4, <2>6, <3>3, <4>1, <4>3, <4>6, <5>1, <5>6, <5>7, <5>8, PaidAsk
      <4>7. trouble' = {} => AllCurrent(topology', Sent')
        BY <1>m, <3>2, <4>3
      <4>8. AddsCurrent(queue', Sent')
        BY <1>m, <4>4
      <4>9. trouble' = {} /\ {n} \subseteq DOMAIN Sent' => Paid(topology', {n})
        BY <1>m, <4>3, <4>6
      <4> QED
        BY <4>4, <4>5, <4>7, <4>8, <4>9 DEF Surveyed
    <3>4. CASE NewNode(topology) = Nobody
      <4>1. /\ Then(Event("check")) /\ AskNothing
            /\ topology' = Back(CountPort(topology), insertBefore')
        BY <1>2, <2>6, <3>4 DEF HandleCheck, MoveOn
      <4>2. topology'.list = CountPort(topology).list
        <5>1. OnEntry(CountPort(topology))
          BY <2>3, CountPortParts
        <5> QED
          BY <3>1, <4>1, <5>1, BackIs
      <4>3. trouble = {} => AllCurrent(topology', Sent)
        BY <3>2, <4>2 DEF AllCurrent
      <4>4. trouble = {} => Paid(topology', {})
        BY <2>3, <2>4, <3>4, <4>2, PaidNone, PaidBack
      <4> QED
        BY <1>n, <2>1, <4>1, <4>3, <4>4 DEF AskNothing, net
    <3> QED
      BY <3>3, <3>4
  <2> QED
    BY <2>5, <2>6
<1>3. CASE HandleAdd
  <2>1. /\ Head(queue).type = "add" /\ inProgress /\ ~timer /\ ~Steps(Tail(queue))
        /\ Has(queue, "add") /\ UNCHANGED <<timer, replies, trouble>>
    BY <1>3, <1>t DEF HandleAdd, Got, net
  <2>2. /\ Sound(topology, insertBefore, Asking(queue, timer), Met)
        /\ Aimed(topology, insertBefore, target, Met)
        /\ OnEntry(topology) /\ Owed(queue, timer, target) = {target}
    BY <1>w, <2>1 DEF Owed, Sound
  <2>3. PICK e : e = [node |-> Head(queue).node, explored |-> 0,
                      table |-> Head(queue).table]
    OBVIOUS
  <2>4. e \in Entry /\ e.node = target /\ e.explored = 0 /\ target \in Node
    <3>1. Head(queue).node \in Node /\ Head(queue).table \in Table
      BY <1>0, <2>1, EventTypes
    <3>2. Answered(Head(queue), target, Met)
      BY <1>0, <1>q, <2>1, HasTaken DEF Walked
    <3> QED
      BY <2>3, <3>1, <3>2 DEF Answered, Entry
  <2>5. topology # Gone /\ Head(queue).node \notin Listed(topology)
    BY <2>2, <2>3, <2>4, OnEntryIs DEF Aimed
  <2>6. Then(Event("check")) /\ topology' = CountPort(Insert(topology, e))
    BY <1>3, <2>3, <2>5 DEF HandleAdd, MoveOn
  <2>7. ASSUME trouble = {}
        PROVE  AllCurrent(topology', Sent) /\ Paid(topology', {})
    <3>1. Current(e, Sent)
      <4>1. Current(Head(queue), Sent)
        BY <1>0, <1>q, <1>s, <2>1, <2>7, CurrentTaken
      <4> QED
        BY <2>3, <4>1 DEF Current
    <3>2. Reachable(target) /\ e.table = TableOf(target) /\ {target} \subseteq DOMAIN Sent
      BY <2>4, <3>1, CurrentIs DEF Current
    <3>3. AllCurrent(topology, Sent) /\ Paid(topology, {target})
      BY <1>s, <2>1, <2>2, <2>7, <3>2
    <3>4. PICK m : m = topology.list[topology.at].node
      OBVIOUS
    <3>5. {target, m} \in up /\ Knows(target, m) /\ m \in Listed(topology)
      BY <2>2, <2>4, <3>2, <3>4, LinkIsUp
    <3>6. Paid(topology', {})
      BY <1>q, <2>2, <2>4, <2>6, <3>2, <3>3, <3>5, PaidAdd
    <3>7. PICK s : s = topology'
      OBVIOUS
    <3>8. /\ s.list[s.at].node = e.node /\ s.list[s.at].table = e.table
          /\ \A i \in 1..Len(s.list) : i = s.at \/
               \E j \in 1..Len(topology.list) :
                 /\ s.list[i].node = topology.list[j].node
                 /\ s.list[i].table = topology.list[j].table
      BY <1>q, <2>2, <2>4, <2>6, <3>7, EntryAdded, SMTT(30)
    <3>9. AllCurrent(s, Sent)
      BY <3>1, <3>3, <3>8 DEF AllCurrent, Current
    <3> QED
      BY <3>6, <3>7, <3>9
  <2> QED
    BY <1>n, <2>1, <2>6, <2>7
<1>4. CASE HandleTimeout
  <2>1. /\ Head(queue).type = "timeout" /\ ~timer /\ ~Steps(Tail(queue))
        /\ Has(queue, "timeout") /\ UNCHANGED <<timer, replies, trouble>>
        /\ Then(Event("check"))
    BY <1>4, <1>t DEF HandleTimeout, Got, MoveOn, net
  <2>2. trouble' # {}
    BY <1>s, <2>1
  <2> QED
    BY <1>n, <2>1, <2>2
<1>5. CASE HandleEnd
  <2>1. ~Steps(queue') /\ ~inProgress'
    BY <1>5, <1>t DEF HandleEnd, Got
  <2>2. ~Has(queue', "timeout") /\ ~Has(queue', "end")
    BY <2>1, NoStep
  <2> QED
    BY <2>1, <2>2 DEF Surveyed
<1> QED
  BY <1>1, <1>2, <1>3, <1>4, <1>5 DEF Thread

\* Every step keeps the survey.
LEMMA SurveyedNext ==
  TypeOK /\ Hearing /\ OneStep /\ Flight /\ Walked /\ Walked' /\ Surveyed /\ [Next]_vars
    => Surveyed'
<1> SUFFICES ASSUME TypeOK, Hearing, OneStep, Flight, Walked, Walked', Surveyed, [Next]_vars
             PROVE  Surveyed'
  OBVIOUS
<1> QED
  BY OtherSurveyed, ThreadSurveyed DEF Next

\* And there is none to keep at first.
LEMMA SurveyedInit == Init => Surveyed
<1> SUFFICES ASSUME Init PROVE Surveyed
  OBVIOUS
<1>1. DOMAIN <<>> = {}
  OBVIOUS
<1>2. ~Has(queue, "timeout") /\ ~Has(queue, "end")
  BY <1>1 DEF Init, Has
<1> QED
  BY <1>2 DEF Init, Surveyed

\* The list that a walk ends with is the bus within reach.
LEMMA SurveyedIs ==
  ASSUME TypeOK, Hearing, OneStep, Walked, Surveyed
  PROVE  Complete
<1> SUFFICES ASSUME Got("end"), trouble = {}, Acquainted
             PROVE  Listed(topology) = {n \in Node : Reachable(n)}
  BY DEF Complete, Acquainted
<1>1. queue \in Seq(Events) /\ queue # <<>>
  BY DEF TypeOK, Events, Got
<1>2. 1 \in DOMAIN queue /\ Head(queue) = queue[1]
  BY <1>1
<1>3. Has(queue, "end") /\ Steps(queue)
  BY <1>2 DEF Got, Has, Steps
<1>4. /\ inProgress /\ ~timer
      /\ \A i \in DOMAIN queue : queue[i].type # "start" => i = 1
  BY <1>2, <1>3, OneStepIs DEF Single, Got
<1>5. ~Has(queue, "add")
  BY <1>2, <1>4 DEF Got, Has
<1>6. Owed(queue, timer, target) = {}
  BY <1>4, <1>5 DEF Owed
<1>7. /\ AllCurrent(topology, Sent) /\ Paid(topology, {})
      /\ AllPortsExplored(topology) /\ IsRoot(topology)
  BY <1>3, <1>4, <1>6 DEF Surveyed
<1> QED
  BY <1>4, <1>7, ListIsAll DEF Walked

\* A walk that met no silence and no change of the bus lists every node within
\* reach, on a bus of any length whose neighbors know each other, if no frame
\* outlasts the timer (bcmp_topology.cpp, the ports counted as explored).
THEOREM ListIsComplete ==
  ASSUME "late" \notin Faults
  PROVE  Spec => []Complete
<1>1. TypeOK /\ Hearing /\ OneStep /\ Flight /\ Walked /\ [Next]_vars => Walked'
  BY WalkedNext
<1>2. TypeOK /\ Hearing /\ OneStep /\ Walked /\ Surveyed => Complete
  BY SurveyedIs
<1> QED
  BY <1>1, <1>2, WalkedInit, SurveyedNext, SurveyedInit, InitTypes, NextTypes,
     HearingInit, HearingNext, InitOneStep, NextOneStep, PTL
  DEF Spec
=============================================================================
