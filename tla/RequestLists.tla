---------------------------- MODULE RequestLists ----------------------------
(***************************************************************************)
(* The linked lists in which requests wait: each one is in the list once,  *)
(* a new one goes to the end, and any one can be taken out.                *)
(***************************************************************************)
EXTENDS Naturals, Sequences, TLAPS

Elements(list) == {list[i] : i \in DOMAIN list}
NoRepetition(list) == \A i, j \in DOMAIN list : list[i] = list[j] => i = j

\* The list without the request r.
Without(list, r) ==
  LET i == CHOOSE i \in DOMAIN list : list[i] = r
  IN [j \in 1..(Len(list) - 1) |-> IF j < i THEN list[j] ELSE list[j + 1]]

\* The end of a list grows by what is new.
LEMMA AppendNew ==
  ASSUME NEW S, NEW list \in Seq(S), NoRepetition(list),
         NEW r \in S, r \notin Elements(list)
  PROVE  /\ Append(list, r) \in Seq(S)
         /\ NoRepetition(Append(list, r))
         /\ Elements(Append(list, r)) = Elements(list) \cup {r}
<1> DEFINE new == Append(list, r)
<1>1. /\ new \in Seq(S)
      /\ DOMAIN new = 1..(Len(list) + 1)
      /\ DOMAIN list = 1..Len(list)
      /\ Len(list) \in Nat
      /\ \A i \in DOMAIN list : new[i] = list[i]
      /\ new[Len(list) + 1] = r
  OBVIOUS
<1>2. NoRepetition(new)
  BY <1>1 DEF NoRepetition, Elements
<1>3. Elements(new) = Elements(list) \cup {r}
  BY <1>1 DEF Elements
<1> QED
  BY <1>1, <1>2, <1>3

\* What is taken from a list leaves the others as they are.
LEMMA WithoutOne ==
  ASSUME NEW S, NEW list \in Seq(S), NoRepetition(list),
         NEW r \in Elements(list)
  PROVE  /\ Without(list, r) \in Seq(S)
         /\ NoRepetition(Without(list, r))
         /\ Elements(Without(list, r)) = Elements(list) \ {r}
<1> DEFINE at  == CHOOSE i \in DOMAIN list : list[i] = r
           new == Without(list, r)
<1>1. /\ Len(list) \in Nat
      /\ DOMAIN list = 1..Len(list)
      /\ \A i \in 1..Len(list) : list[i] \in S
  OBVIOUS
<1>2. at \in DOMAIN list /\ list[at] = r
  BY DEF Elements
<1> HIDE DEF at
<1>3. new = [j \in 1..(Len(list) - 1) |->
               IF j < at THEN list[j] ELSE list[j + 1]]
  BY DEF Without, at
<1> HIDE DEF new
<1>4. Len(list) - 1 \in Nat
  BY <1>1, <1>2
<1>5. new \in [1..(Len(list) - 1) -> S]
  BY <1>1, <1>2, <1>3
<1>6. new \in Seq(S) /\ DOMAIN new = 1..(Len(list) - 1)
  BY <1>4, <1>5
<1>7. NoRepetition(new)
  BY <1>1, <1>2, <1>3, <1>6 DEF NoRepetition
<1>8. Elements(new) = Elements(list) \ {r}
  <2>1. ASSUME NEW j \in DOMAIN new PROVE new[j] \in Elements(list) \ {r}
    BY <1>1, <1>2, <1>3, <1>6, <2>1 DEF NoRepetition, Elements
  <2>2. ASSUME NEW i \in DOMAIN list, list[i] # r PROVE list[i] \in Elements(new)
    <3>1. CASE i < at
      <4>1. i \in DOMAIN new /\ new[i] = list[i]
        BY <1>1, <1>2, <1>3, <1>6, <3>1
      <4> QED
        BY <4>1 DEF Elements
    <3>2. CASE i > at
      <4>1. i - 1 \in DOMAIN new /\ new[i - 1] = list[i]
        BY <1>1, <1>2, <1>3, <1>6, <3>2
      <4> QED
        BY <4>1 DEF Elements
    <3> QED
      BY <1>1, <1>2, <2>2, <3>1, <3>2
  <2> QED
    BY <2>1, <2>2 DEF Elements
<1> QED
  BY <1>6, <1>7, <1>8 DEF new
=============================================================================
