-------------------------- MODULE ConfigStoreProofs ---------------------------
(***************************************************************************)
(* Proofs about ConfigStore: its types, that no slot hides another, that   *)
(* the commit flag is honest, and that it implements ConfigMap.            *)
(***************************************************************************)
EXTENDS ConfigStore, TLAPS

(***************************************************************************)
(* Tables                                                                  *)
(***************************************************************************)

\* A table with one slot replaced is a table.
LEMMA ReplacedIsTable ==
  ASSUME NEW t \in Table, NEW i \in DOMAIN t, NEW s \in Slot
  PROVE  /\ [t EXCEPT ![i] = s] \in Table
         /\ DOMAIN [t EXCEPT ![i] = s] = DOMAIN t
BY DEF Table

\* The slots of a table have their fields.
LEMMA SlotFields ==
  ASSUME NEW t \in Table, NEW i \in DOMAIN t
  PROVE  /\ t[i] \in Slot
         /\ t[i].name \in Key
         /\ t[i].named \in Key
         /\ t[i].value \in (Value \ Oversized) \cup {Torn}
         /\ t[i] = Entry(t[i].name, t[i].named, t[i].value)
<1>1. t[i] \in Slot
  BY DEF Table
<1> QED
  BY <1>1 DEF Slot, Entry

\* A table with room can take one more slot.
LEMMA AppendedIsTable ==
  ASSUME NEW t \in Table, NEW s \in Slot, Len(t) < MaxKeys
  PROVE  /\ Append(t, s) \in Table
         /\ DOMAIN Append(t, s) = 1..(Len(t) + 1)
         /\ DOMAIN t = 1..Len(t)
         /\ \A i \in DOMAIN t : Append(t, s)[i] = t[i]
         /\ Append(t, s)[Len(t) + 1] = s
BY MaxKeysAssumption DEF Table

\* A table with one slot taken out is a table, its slots in their old order.
LEMMA WithoutIsTable ==
  ASSUME NEW t \in Table, NEW i \in DOMAIN t
  PROVE  /\ Without(t, i) \in Table
         /\ DOMAIN Without(t, i) = 1..(Len(t) - 1)
         /\ \A j \in 1..(Len(t) - 1) :
              Without(t, i)[j] = IF j < i THEN t[j] ELSE t[j + 1]
<1>1. /\ Len(t) \in Nat
      /\ DOMAIN t = 1..Len(t)
      /\ Len(t) <= MaxKeys
      /\ \A j \in 1..Len(t) : t[j] \in Slot
  BY DEF Table
<1>2. Without(t, i) \in [1..(Len(t) - 1) -> Slot]
  BY <1>1 DEF Without
<1>3. Len(t) - 1 \in Nat
  BY <1>1
<1>4. Without(t, i) \in Seq(Slot) /\ Len(Without(t, i)) = Len(t) - 1
  BY <1>2, <1>3
<1> QED
  BY <1>1, <1>2, <1>3, <1>4, MaxKeysAssumption DEF Table, Without

(***************************************************************************)
(* Types                                                                   *)
(***************************************************************************)

\* The slots that the three ways to set a key leave are slots.
LEMMA EntryIsSlot ==
  ASSUME NEW n \in Key, NEW k \in Key,
         NEW v \in (Value \ Oversized) \cup {Torn}
  PROVE  Entry(n, k, v) \in Slot
BY DEF Slot, Entry

\* Clipped and copied keys are keys.
LEMMA KeyTypes ==
  ASSUME NEW k \in Key
  PROVE  Clip[k] \in Key /\ Copied(k) \subseteq Key
BY ClipAssumption DEF Copied

\* No table is smaller than the empty one.
LEMMA EmptyIsTable == <<>> \in Table
BY MaxKeysAssumption DEF Table

\* Every variable of the store keeps its type.
THEOREM TypeCorrect == Spec => []TypeOK
<1>1. Init => TypeOK
  <2>1. Erased \in [whole : BOOLEAN, slots : Table]
    BY EmptyIsTable DEF Erased
  <2> QED
    BY <2>1, EmptyIsTable DEF Init, TypeOK
<1>2. TypeOK /\ [Next]_vars => TypeOK'
  <2> SUFFICES ASSUME TypeOK, [Next]_vars PROVE TypeOK'
    OBVIOUS
  <2>a. ram \in Table
    BY DEF TypeOK
  <2>1. ASSUME NEW k \in Key, NEW v \in Value, SetConfig(k, v) PROVE TypeOK'
    <3>1. Entry(Clip[k], k, v) \in Slot
      BY <2>1, EntryIsSlot, KeyTypes DEF SetConfig
    <3>2. ASSUME NEW i \in DOMAIN ram,
                 ram' = [ram EXCEPT ![i] = Entry(Clip[k], k, v)]
          PROVE  ram' \in Table
      BY <3>1, <3>2, <2>a, ReplacedIsTable
    <3>3. ram' = Append(ram, Entry(Clip[k], k, v)) => ram' \in Table
      BY <2>1, <3>1, <2>a, AppendedIsTable DEF SetConfig
    <3>4. ram' \in Table
      BY <2>1, <3>2, <3>3 DEF SetConfig
    <3> QED
      BY <2>1, <3>4 DEF SetConfig, TypeOK, Quiet, Done
  <2>2. ASSUME NEW k \in Key, NEW v \in Value, SetConfigTooLong(k, v)
        PROVE  TypeOK'
    <3>1. \A i \in DOMAIN ram : Entry(Clip[k], ram[i].named, Torn) \in Slot
      BY <2>a, SlotFields, EntryIsSlot, KeyTypes
    <3>2. PICK i \in DOMAIN ram :
            ram' = [ram EXCEPT ![i] = Entry(Clip[k], ram[i].named, Torn)]
      BY <2>2 DEF SetConfigTooLong
    <3>3. ram' \in Table
      BY <2>a, <3>1, <3>2, ReplacedIsTable
    <3> QED
      BY <2>2, <3>3 DEF SetConfigTooLong, TypeOK, Quiet, None
  <2>3. ASSUME NEW k \in Key, NEW v \in Value, SetConfigCbor(k, v)
        PROVE  TypeOK'
    <3>1. \A i \in DOMAIN ram : Entry(ram[i].name, k, v) \in Slot
      BY <2>3, <2>a, SlotFields, EntryIsSlot DEF SetConfigCbor
    <3>2. \A n \in Copied(k) : Entry(n, k, v) \in Slot
      BY <2>3, EntryIsSlot, KeyTypes DEF SetConfigCbor
    <3>3. ASSUME NEW i \in DOMAIN ram,
                 ram' = [ram EXCEPT ![i] = Entry(ram[i].name, k, v)]
          PROVE  ram' \in Table
      BY <3>1, <3>3, <2>a, ReplacedIsTable
    <3>4. ASSUME NEW n \in Copied(k), Len(ram) < MaxKeys,
                 ram' = Append(ram, Entry(n, k, v))
          PROVE  ram' \in Table
      BY <3>2, <3>4, <2>a, AppendedIsTable
    <3>5. ram' \in Table
      BY <2>3, <3>3, <3>4 DEF SetConfigCbor
    <3> QED
      BY <2>3, <3>5 DEF SetConfigCbor, TypeOK, Quiet, Done
  <2>4. ASSUME NEW k \in Key, RemoveKey(k) PROVE TypeOK'
    <3>1. ram' \in Table
      BY <2>4, <2>a, WithoutIsTable DEF RemoveKey
    <3> QED
      BY <2>4, <3>1 DEF RemoveKey, TypeOK, Quiet, Done
  <2>5. ASSUME NEW mode \in {"stay", "restart"}, SaveConfig(mode) PROVE TypeOK'
    BY <2>5, EmptyIsTable DEF SaveConfig, Erased, TypeOK
  <2>6. CASE SaveDone
    <3>1. flash' \in [whole : BOOLEAN, slots : Table]
      <4>1. [whole |-> TRUE, slots |-> image] \in [whole : BOOLEAN, slots : Table]
        BY DEF TypeOK
      <4>2. flash \in [whole : BOOLEAN, slots : Table]
        BY DEF TypeOK
      <4> QED
        BY <2>6, <4>1, <4>2 DEF SaveDone
    <3>2. CASE PowerOff
      BY <3>1, <3>2, EmptyIsTable DEF PowerOff, TypeOK
    <3>3. CASE /\ saving' = "no"
               /\ image' = <<>>
               /\ UNCHANGED <<power, ram, needsCommit, last>>
      BY <3>1, <3>3, EmptyIsTable DEF TypeOK
    <3> QED
      BY <2>6, <3>2, <3>3 DEF SaveDone
  <2>7. CASE SaveFails
    BY <2>7, EmptyIsTable DEF SaveFails, TypeOK, None, Erased
  <2>8. CASE Crash
    BY <2>8, EmptyIsTable DEF Crash, PowerOff, TypeOK, None, Erased
  <2>9. CASE Load
    BY <2>9 DEF Load, TypeOK, None, Erased
  <2>10. CASE LoadFails
    BY <2>10 DEF LoadFails, TypeOK, None, Erased
  <2>11. CASE UNCHANGED vars
    BY <2>11 DEF vars, TypeOK, None, Erased
  <2> QED
    BY <2>1, <2>2, <2>3, <2>4, <2>5, <2>6, <2>7, <2>8, <2>9, <2>10, <2>11
    DEF Next
<1> QED
  BY <1>1, <1>2, PTL DEF Spec

(***************************************************************************)
(* No slot hides another                                                   *)
(***************************************************************************)

\* No key fills its buffer, so that none loses a character.
KeysFit == \A k \in Key : Clip[k] = k

\* The key a slot records and the characters in its buffer agree as far as
\* they go, and nothing stored before begins with what the slot lists.
Told(slot) ==
  <<slot.name, slot.named>> \in Prefix \/ <<slot.named, slot.name>> \in Prefix
Hidden(t, i) == \E j \in 1..(i - 1) : Matches(t, Listed(t[i]), j)
Clear(t) == \A i \in DOMAIN t : Told(t[i]) /\ ~Hidden(t, i)

\* A slot lists a key, and its buffer begins with that key.
LEMMA ListedKey ==
  ASSUME NEW s \in Slot, Told(s)
  PROVE  Listed(s) \in Key /\ <<Listed(s), s.name>> \in Prefix
BY PrefixAssumption DEF Slot, Told, Listed

\* In a clear table, a lookup of what a slot lists finds that slot.
LEMMA ClearIsFound ==
  ASSUME NEW t \in Table, Clear(t), NEW i \in DOMAIN t
  PROVE  FindKeyIndex(t, Listed(t[i]), i)
BY SlotFields, ListedKey DEF Clear, Hidden, FindKeyIndex, Matches

\* Replacing a slot that a lookup found keeps a table clear, if the new one
\* lists the key looked up, or what the slot listed, and its buffer is a
\* beginning of the old one.
LEMMA ReplacingIsClear ==
  ASSUME NEW t \in Table, Clear(t), NEW k \in Key, NEW i \in DOMAIN t,
         FindKeyIndex(t, k, i), NEW s \in Slot, Told(s),
         Listed(s) \in {k, Listed(t[i])},
         <<s.name, t[i].name>> \in Prefix
  PROVE  Clear([t EXCEPT ![i] = s])
<1> DEFINE u == [t EXCEPT ![i] = s]
<1>1. /\ u \in Table
      /\ DOMAIN u = DOMAIN t
      /\ DOMAIN t = 1..Len(t)
      /\ Len(t) \in Nat
      /\ u[i] = s
      /\ \A j \in DOMAIN t : j # i => u[j] = t[j]
  BY ReplacedIsTable DEF Table
<1> HIDE DEF u
<1>2. ASSUME NEW j \in DOMAIN u PROVE Told(u[j])
  BY <1>1, <1>2 DEF Clear
<1>3. ASSUME NEW j \in DOMAIN u, NEW h \in 1..(j - 1)
      PROVE  ~Matches(u, Listed(u[j]), h)
  <2>1. h \in DOMAIN t /\ j \in DOMAIN t /\ h # j
    BY <1>1
  <2>2. ~Matches(t, Listed(t[j]), h)
    BY <2>1 DEF Clear, Hidden
  <2>3. CASE j = i
    <3>1. h # i /\ u[h] = t[h] /\ u[j] = s
      BY <1>1, <2>1, <2>3
    <3>2. ~Matches(t, k, h)
      BY <2>3 DEF FindKeyIndex
    <3> QED
      BY <2>2, <2>3, <3>1, <3>2 DEF Matches
  <2>4. CASE h = i
    <3>1. u[j] = t[j] /\ u[h] = s
      BY <1>1, <2>1, <2>4
    <3>2. /\ Listed(t[j]) \in Key
          /\ s.name \in Key
          /\ t[h].name \in Key
      BY <2>1, SlotFields, ListedKey DEF Clear, Slot
    <3> QED
      BY <2>2, <2>4, <3>1, <3>2, PrefixAssumption DEF Matches
  <2>5. CASE j # i /\ h # i
    BY <1>1, <2>1, <2>2, <2>5 DEF Matches
  <2> QED
    BY <2>3, <2>4, <2>5
<1> QED
  BY <1>2, <1>3 DEF Clear, Hidden, u

\* A new slot for a key that is missing keeps a table clear.
LEMMA AppendingIsClear ==
  ASSUME NEW t \in Table, Clear(t), Len(t) < MaxKeys, NEW k \in Key,
         KeyMissing(t, k), NEW s \in Slot, Told(s), Listed(s) = k
  PROVE  Clear(Append(t, s))
<1> DEFINE u == Append(t, s)
<1>1. /\ DOMAIN u = 1..(Len(t) + 1)
      /\ DOMAIN t = 1..Len(t)
      /\ Len(t) \in Nat
      /\ u[Len(t) + 1] = s
      /\ \A j \in DOMAIN t : u[j] = t[j]
  BY AppendedIsTable DEF Table
<1> HIDE DEF u
<1>2. ASSUME NEW j \in DOMAIN u PROVE Told(u[j])
  BY <1>1, <1>2 DEF Clear
<1>3. ASSUME NEW j \in DOMAIN u, NEW h \in 1..(j - 1)
      PROVE  ~Matches(u, Listed(u[j]), h)
  <2>1. h \in DOMAIN t /\ u[h] = t[h]
    BY <1>1
  <2>2. CASE j \in DOMAIN t
    BY <1>1, <2>1, <2>2 DEF Clear, Hidden, Matches
  <2>3. CASE j = Len(t) + 1
    BY <1>1, <2>1, <2>3 DEF KeyMissing, Matches
  <2> QED
    BY <1>1, <2>2, <2>3
<1> QED
  BY <1>2, <1>3 DEF Clear, Hidden, u

\* Taking a slot out keeps a table clear.
LEMMA WithoutIsClear ==
  ASSUME NEW t \in Table, Clear(t), NEW i \in DOMAIN t
  PROVE  Clear(Without(t, i))
<1> DEFINE u == Without(t, i)
           old(j) == IF j < i THEN j ELSE j + 1
<1>1. /\ DOMAIN u = 1..(Len(t) - 1)
      /\ DOMAIN t = 1..Len(t)
      /\ Len(t) \in Nat
      /\ \A j \in DOMAIN u : u[j] = t[old(j)]
  <2>1. DOMAIN t = 1..Len(t) /\ Len(t) \in Nat
    BY DEF Table
  <2>2. DOMAIN u = 1..(Len(t) - 1)
    BY WithoutIsTable
  <2>3. ASSUME NEW j \in DOMAIN u PROVE u[j] = t[old(j)]
    BY <2>2, WithoutIsTable
  <2> QED
    BY <2>1, <2>2, <2>3
<1> HIDE DEF u
<1>2. ASSUME NEW j \in DOMAIN u PROVE Told(u[j])
  <2>1. old(j) \in DOMAIN t
    BY <1>1
  <2> QED
    BY <1>1, <2>1 DEF Clear
<1>3. ASSUME NEW j \in DOMAIN u, NEW h \in 1..(j - 1)
      PROVE  ~Matches(u, Listed(u[j]), h)
  <2>1. /\ h \in DOMAIN u
        /\ old(j) \in DOMAIN t
        /\ old(h) \in 1..(old(j) - 1)
    BY <1>1
  <2>2. ~Matches(t, Listed(t[old(j)]), old(h))
    BY <2>1 DEF Clear, Hidden
  <2> QED
    BY <1>1, <2>1, <2>2 DEF Matches
<1> QED
  BY <1>2, <1>3 DEF Clear, Hidden, u

\* The three tables of a store are clear.
AllClear == Clear(ram) /\ Clear(flash.slots) /\ Clear(image)

\* An empty table is clear.
LEMMA EmptyIsClear == Clear(<<>>)
BY DEF Clear

\* What SetConfig leaves in a slot lists the key that was set.
LEMMA NewEntryListed ==
  ASSUME NEW k \in Key, NEW n \in Key, NEW v, <<k, n>> \in Prefix
  PROVE  Told(Entry(n, k, v)) /\ Listed(Entry(n, k, v)) = k
BY PrefixAssumption DEF Told, Listed, Entry

\* A failed SetConfig leaves a slot that lists the key that was to be set, or
\* what it listed before.
LEMMA TornEntryListed ==
  ASSUME NEW s \in Slot, Told(s), NEW k \in Key, <<k, s.name>> \in Prefix
  PROVE  /\ Told(Entry(k, s.named, Torn))
         /\ Listed(Entry(k, s.named, Torn)) \in {k, Listed(s)}
<1>1. s.name \in Key /\ s.named \in Key
  BY DEF Slot
<1>2. Told(Entry(k, s.named, Torn))
  BY <1>1, PrefixAssumption DEF Told, Entry
<1>3. CASE <<k, s.named>> \in Prefix
  BY <1>2, <1>3 DEF Listed, Entry
<1>4. CASE <<k, s.named>> \notin Prefix
  <2>1. <<s.name, s.named>> \notin Prefix
    BY <1>1, <1>4, PrefixAssumption
  <2> QED
    BY <1>2, <1>4, <2>1 DEF Listed, Entry
<1> QED
  BY <1>2, <1>3, <1>4

\* Every step keeps the tables clear.
LEMMA StepIsClear ==
  ASSUME KeysFit, TypeOK, AllClear, [Next]_vars
  PROVE  AllClear'
<1>a. ram \in Table /\ Clear(ram)
  BY DEF TypeOK, AllClear
<1>1. ASSUME NEW k \in Key, NEW v \in Value, SetConfig(k, v) PROVE AllClear'
  <2>1. /\ Entry(k, k, v) \in Slot
        /\ Told(Entry(k, k, v))
        /\ Listed(Entry(k, k, v)) = k
        /\ Entry(k, k, v).name = k
    BY <1>1, EntryIsSlot, NewEntryListed, PrefixAssumption DEF SetConfig, Entry
  <2>2. ASSUME NEW i \in DOMAIN ram, FindKeyIndex(ram, k, i),
               ram' = [ram EXCEPT ![i] = Entry(k, k, v)]
        PROVE  Clear(ram')
    <3>1. <<k, ram[i].name>> \in Prefix
      BY <2>2 DEF FindKeyIndex, Matches
    <3> QED
      BY <1>a, <2>1, <2>2, <3>1, ReplacingIsClear
  <2>3. ASSUME KeyMissing(ram, k), ram' = Append(ram, Entry(k, k, v))
        PROVE  Clear(ram')
    BY <1>a, <1>1, <2>1, <2>3, AppendingIsClear DEF SetConfig
  <2>4. Clip[k] = k
    BY DEF KeysFit
  <2>5. Clear(ram')
    BY <1>1, <2>2, <2>3, <2>4 DEF SetConfig
  <2> QED
    BY <1>1, <2>5 DEF SetConfig, AllClear, Quiet
<1>2. ASSUME NEW k \in Key, NEW v \in Value, SetConfigTooLong(k, v)
      PROVE  AllClear'
  <2>1. Clip[k] = k
    BY DEF KeysFit
  <2>2. PICK i \in DOMAIN ram :
          /\ FindKeyIndex(ram, k, i)
          /\ ram' = [ram EXCEPT ![i] = Entry(k, ram[i].named, Torn)]
    BY <1>2, <2>1 DEF SetConfigTooLong
  <2> DEFINE s == Entry(k, ram[i].named, Torn)
  <2>3. <<k, ram[i].name>> \in Prefix
    BY <2>2 DEF FindKeyIndex, Matches
  <2>4. s \in Slot /\ <<s.name, ram[i].name>> \in Prefix
    BY <1>a, <2>3, SlotFields, EntryIsSlot DEF Entry
  <2>5. Told(s) /\ Listed(s) \in {k, Listed(ram[i])}
    BY <1>a, <2>3, SlotFields, TornEntryListed DEF Clear
  <2>6. Clear(ram')
    <3> HIDE DEF s
    <3>1. ram' = [ram EXCEPT ![i] = s]
      BY <2>2 DEF s
    <3> QED
      BY <1>a, <2>2, <2>3, <2>4, <2>5, <3>1, ReplacingIsClear
  <2> QED
    BY <1>2, <2>6 DEF SetConfigTooLong, AllClear, Quiet
<1>3. ASSUME NEW k \in Key, NEW v \in Value, SetConfigCbor(k, v)
      PROVE  AllClear'
  <2>1. v \in (Value \ Oversized) \cup {Torn}
    BY <1>3 DEF SetConfigCbor
  <2>2. ASSUME NEW i \in DOMAIN ram, FindKeyIndex(ram, k, i),
               ram' = [ram EXCEPT ![i] = Entry(ram[i].name, k, v)]
        PROVE  Clear(ram')
    <3> DEFINE s == Entry(ram[i].name, k, v)
    <3>1. <<k, ram[i].name>> \in Prefix /\ ram[i].name \in Key
      BY <1>a, <2>2, SlotFields DEF FindKeyIndex, Matches
    <3>2. /\ s \in Slot
          /\ s.name = ram[i].name
          /\ <<s.name, ram[i].name>> \in Prefix
      BY <2>1, <3>1, EntryIsSlot, PrefixAssumption DEF Entry
    <3>3. Told(s) /\ Listed(s) = k
      BY <3>1, NewEntryListed
    <3> HIDE DEF s
    <3>4. ram' = [ram EXCEPT ![i] = s]
      BY <2>2 DEF s
    <3> QED
      BY <1>a, <2>2, <3>2, <3>3, <3>4, ReplacingIsClear, ZenonT(60)
  <2>3. ASSUME KeyMissing(ram, k), Len(ram) < MaxKeys, NEW n \in Copied(k),
               ram' = Append(ram, Entry(n, k, v))
        PROVE  Clear(ram')
    <3>1. n \in Key /\ <<k, n>> \in Prefix
      BY DEF Copied, KeysFit
    <3>2. /\ Entry(n, k, v) \in Slot
          /\ Told(Entry(n, k, v))
          /\ Listed(Entry(n, k, v)) = k
      BY <2>1, <3>1, EntryIsSlot, NewEntryListed
    <3> QED
      BY <1>a, <2>3, <3>2, AppendingIsClear
  <2>4. Clear(ram')
    BY <1>3, <2>2, <2>3 DEF SetConfigCbor
  <2> QED
    BY <1>3, <2>4 DEF SetConfigCbor, AllClear, Quiet
<1>4. ASSUME NEW k \in Key, RemoveKey(k) PROVE AllClear'
  <2>1. Clear(ram')
    BY <1>a, <1>4, WithoutIsClear DEF RemoveKey
  <2> QED
    BY <1>4, <2>1 DEF RemoveKey, AllClear, Quiet
<1>5. ASSUME NEW mode \in {"stay", "restart"}, SaveConfig(mode) PROVE AllClear'
  BY <1>5, EmptyIsClear DEF SaveConfig, Erased, AllClear
<1>6. CASE SaveDone
  <2>1. Clear(flash.slots)'
    BY <1>6 DEF SaveDone, AllClear
  <2>2. Clear(ram)' /\ Clear(image)'
    BY <1>6, EmptyIsClear DEF SaveDone, PowerOff, AllClear
  <2> QED
    BY <2>1, <2>2 DEF AllClear
<1>7. CASE SaveFails
  BY <1>7, EmptyIsClear DEF SaveFails, AllClear
<1>8. CASE Crash
  BY <1>8, EmptyIsClear DEF Crash, PowerOff, AllClear
<1>9. CASE Load
  BY <1>9 DEF Load, AllClear
<1>10. CASE LoadFails
  BY <1>10 DEF LoadFails, AllClear
<1>11. CASE UNCHANGED vars
  BY <1>11 DEF vars, AllClear
<1> QED
  BY <1>1, <1>2, <1>3, <1>4, <1>5, <1>6, <1>7, <1>8, <1>9, <1>10, <1>11
  DEF Next

\* If no key fills its buffer, a key that a status response lists is found in
\* the slot that lists it, whatever keys begin with one another.
THEOREM ListedKeysAreFound ==
  ASSUME KeysFit
  PROVE  Spec => []ListedKeysFound
<1>1. Init => AllClear
  BY EmptyIsClear DEF Init, Erased, AllClear
<1>2. TypeOK /\ AllClear /\ [Next]_vars => AllClear'
  BY StepIsClear
<1>3. TypeOK /\ AllClear => ListedKeysFound
  BY ClearIsFound DEF TypeOK, AllClear, ListedKeysFound
<1> QED
  BY <1>1, <1>2, <1>3, TypeCorrect, PTL DEF Spec

(***************************************************************************)
(* The commit flag                                                         *)
(***************************************************************************)

\* Two tables agree, except for values that a failed set has destroyed.
Agree(t, u) ==
  /\ DOMAIN t = DOMAIN u
  /\ \A i \in DOMAIN t : t[i].value = Torn \/ t[i] = u[i]

\* The flag is honest about a save under way too: while nothing is marked for
\* commit, the table being saved is the one in RAM.
Honest ==
  /\ CleanMeansSaved
  /\ saving # "no" /\ ~needsCommit => Agree(ram, image)
  /\ ~Running => saving = "no"

\* A table agrees with itself, also after it loses a value.
LEMMA AgreeAfterTorn ==
  ASSUME NEW t \in Table, NEW u, Agree(t, u), NEW i \in DOMAIN t,
         NEW s, s.value = Torn
  PROVE  Agree([t EXCEPT ![i] = s], u)
BY DEF Table, Agree

\* Every step keeps the commit flag honest.
LEMMA StepIsHonest ==
  ASSUME TypeOK, Honest, [Next]_vars
  PROVE  Honest'
<1>a. ram \in Table
  BY DEF TypeOK
<1>1. ASSUME Running, needsCommit', UNCHANGED power PROVE Honest'
  BY <1>1 DEF Honest, CleanMeansSaved, Running
<1>2. ASSUME NEW k \in Key, NEW v \in Value, SetConfig(k, v) PROVE Honest'
  BY <1>1, <1>2 DEF SetConfig, Quiet
<1>3. ASSUME NEW k \in Key, NEW v \in Value, SetConfigTooLong(k, v)
      PROVE  Honest'
  <2>1. PICK i \in DOMAIN ram :
          ram' = [ram EXCEPT ![i] = Entry(Clip[k], ram[i].named, Torn)]
    BY <1>3 DEF SetConfigTooLong
  <2> DEFINE s == Entry(Clip[k], ram[i].named, Torn)
  <2>2. s.value = Torn
    BY DEF Entry
  <2>3. ram' = [ram EXCEPT ![i] = s]
    BY <2>1
  <2> HIDE DEF s
  <2>4. ASSUME NEW u, Agree(ram, u) PROVE Agree(ram', u)
    BY <1>a, <2>2, <2>3, <2>4, AgreeAfterTorn
  <2>5. UNCHANGED <<power, needsCommit, flash, saving, image>>
    BY <1>3 DEF SetConfigTooLong, Quiet
  <2>6. CASE power = "loaded" /\ ~needsCommit /\ flash.whole
    BY <2>4, <2>5, <2>6 DEF Honest, CleanMeansSaved, Agree, Running
  <2>7. CASE ~(power = "loaded" /\ ~needsCommit /\ flash.whole)
    BY <2>4, <2>5, <2>7 DEF Honest, CleanMeansSaved, Running
  <2> QED
    BY <2>6, <2>7
<1>4. ASSUME NEW k \in Key, NEW v \in Value, SetConfigCbor(k, v) PROVE Honest'
  BY <1>1, <1>4 DEF SetConfigCbor, Quiet
<1>5. ASSUME NEW k \in Key, RemoveKey(k) PROVE Honest'
  BY <1>1, <1>5 DEF RemoveKey, Quiet
<1>6. ASSUME NEW mode \in {"stay", "restart"}, SaveConfig(mode) PROVE Honest'
  BY <1>6 DEF SaveConfig, Erased, Honest, CleanMeansSaved, Agree, Running
<1>7. CASE SaveDone
  <2>1. CASE PowerOff
    BY <2>1 DEF PowerOff, Honest, CleanMeansSaved, Running
  <2>2. CASE saving' = "no" /\ UNCHANGED <<power, ram, needsCommit>>
    <3>1. CASE flash' = [whole |-> TRUE, slots |-> image]
      BY <1>7, <2>2, <3>1 DEF SaveDone, Honest, CleanMeansSaved, Agree, Running
    <3>2. CASE UNCHANGED flash
      BY <2>2, <3>2 DEF Honest, CleanMeansSaved, Running
    <3> QED
      BY <1>7, <3>1, <3>2 DEF SaveDone
  <2> QED
    BY <1>7, <2>1, <2>2 DEF SaveDone
<1>8. CASE SaveFails
  BY <1>8 DEF SaveFails, Honest, CleanMeansSaved, Running
<1>9. CASE Crash
  BY <1>9 DEF Crash, PowerOff, Honest, CleanMeansSaved, Running
<1>10. CASE Load
  BY <1>10 DEF Load, Honest, CleanMeansSaved, Agree, Running
<1>11. CASE LoadFails
  BY <1>11 DEF LoadFails, Honest, CleanMeansSaved, Running
<1>12. CASE UNCHANGED vars
  BY <1>12 DEF vars, Honest, CleanMeansSaved, Running
<1> QED
  BY <1>2, <1>3, <1>4, <1>5, <1>6, <1>7, <1>8, <1>9, <1>10, <1>11, <1>12
  DEF Next

\* needsCommit() never hides a change: while it is false, a table that came
\* from flash is still the one in flash.
THEOREM CommitIsHonest == Spec => []CleanMeansSaved
<1>1. Init => Honest
  BY DEF Init, Honest, CleanMeansSaved, Running
<1>2. TypeOK /\ Honest /\ [Next]_vars => Honest'
  BY StepIsHonest
<1>3. Honest => CleanMeansSaved
  BY DEF Honest
<1> QED
  BY <1>1, <1>2, <1>3, TypeCorrect, PTL DEF Spec

(***************************************************************************)
(* What was set is found                                                   *)
(***************************************************************************)

\* A node that is off has reported nothing.
Fresh == SetIsFound /\ (~Running => last = None)

\* A lookup gives the value of the slot that findKeyIndex returns.
LEMMA LookupIsFirst ==
  ASSUME NEW t \in Table, NEW k \in Key, NEW i, FindKeyIndex(t, k, i)
  PROVE  Lookup(t, k) = t[i].value
<1>1. DOMAIN t = 1..Len(t) /\ Len(t) \in Nat
  BY DEF Table
<1>2. ~KeyMissing(t, k)
  BY DEF FindKeyIndex, KeyMissing
<1>3. ASSUME NEW j \in DOMAIN t, FindKeyIndex(t, k, j) PROVE j = i
  <2>1. ~(i < j) /\ ~(j < i)
    BY <1>1, <1>3 DEF FindKeyIndex
  <2> QED
    BY <1>1, <2>1 DEF FindKeyIndex
<1>4. (CHOOSE j \in DOMAIN t : FindKeyIndex(t, k, j)) = i
  BY <1>3 DEF FindKeyIndex
<1> QED
  BY <1>2, <1>4 DEF Lookup

\* The slot that a lookup found is found again when it is replaced by one
\* whose buffer begins with the key.
LEMMA ReplacedIsFound ==
  ASSUME NEW t \in Table, NEW k \in Key, NEW i \in DOMAIN t,
         FindKeyIndex(t, k, i), NEW s \in Slot, <<k, s.name>> \in Prefix
  PROVE  Lookup([t EXCEPT ![i] = s], k) = s.value
<1> DEFINE u == [t EXCEPT ![i] = s]
<1>1. /\ u \in Table
      /\ DOMAIN u = DOMAIN t
      /\ DOMAIN t = 1..Len(t)
      /\ Len(t) \in Nat
      /\ u[i] = s
      /\ \A j \in DOMAIN t : j # i => u[j] = t[j]
  BY ReplacedIsTable DEF Table
<1> HIDE DEF u
<1>2. \A j \in 1..(i - 1) : u[j] = t[j]
  BY <1>1
<1>3. FindKeyIndex(u, k, i)
  BY <1>1, <1>2 DEF FindKeyIndex, Matches
<1>4. Lookup(u, k) = s.value
  BY <1>1, <1>3, LookupIsFirst
<1> QED
  BY <1>4 DEF u

\* A slot added for a missing key is found.
LEMMA AppendedIsFound ==
  ASSUME NEW t \in Table, Len(t) < MaxKeys, NEW k \in Key, KeyMissing(t, k),
         NEW s \in Slot, <<k, s.name>> \in Prefix
  PROVE  Lookup(Append(t, s), k) = s.value
<1> DEFINE u == Append(t, s)
           n == Len(t) + 1
<1>1. /\ u \in Table
      /\ DOMAIN u = 1..n
      /\ DOMAIN t = 1..Len(t)
      /\ Len(t) \in Nat
      /\ u[n] = s
      /\ \A j \in DOMAIN t : u[j] = t[j]
  BY AppendedIsTable DEF Table
<1> HIDE DEF u
<1>2. \A j \in 1..(n - 1) : j \in DOMAIN t
  BY <1>1
<1>3. n \in DOMAIN u
  BY <1>1
<1> HIDE DEF n
<1>4. FindKeyIndex(u, k, n)
  BY <1>1, <1>2, <1>3 DEF FindKeyIndex, KeyMissing, Matches
<1>5. Lookup(u, k) = s.value
  BY <1>1, <1>4, LookupIsFirst
<1> QED
  BY <1>5 DEF u

\* A call that sets a key leaves the value where a lookup finds it.
LEMMA SetLeavesFound ==
  ASSUME KeysFit, TypeOK, NEW k \in Key, NEW v \in Value,
         SetConfig(k, v) \/ SetConfigCbor(k, v)
  PROVE  Lookup(ram', k) = v
<1>1. ram \in Table
  BY DEF TypeOK
<1>2. v \in (Value \ Oversized) \cup {Torn}
  BY DEF SetConfig, SetConfigCbor
<1>3. \/ \E i \in DOMAIN ram, n \in Key :
           /\ FindKeyIndex(ram, k, i)
           /\ <<k, n>> \in Prefix
           /\ ram' = [ram EXCEPT ![i] = Entry(n, k, v)]
      \/ \E n \in Key :
           /\ KeyMissing(ram, k)
           /\ Len(ram) < MaxKeys
           /\ <<k, n>> \in Prefix
           /\ ram' = Append(ram, Entry(n, k, v))
  <2>1. CASE SetConfig(k, v)
    <3>1. Clip[k] = k /\ <<k, k>> \in Prefix
      BY PrefixAssumption DEF KeysFit
    <3> QED
      BY <2>1, <3>1 DEF SetConfig
  <2>2. CASE SetConfigCbor(k, v)
    <3>1. \A n \in Copied(k) : n \in Key /\ <<k, n>> \in Prefix
      BY DEF Copied, KeysFit
    <3>2. \A i \in DOMAIN ram : FindKeyIndex(ram, k, i)
            => ram[i].name \in Key /\ <<k, ram[i].name>> \in Prefix
      BY <1>1, SlotFields DEF FindKeyIndex, Matches
    <3> QED
      BY <2>2, <3>1, <3>2 DEF SetConfigCbor
  <2> QED
    BY <2>1, <2>2
<1>4. ASSUME NEW n \in Key
      PROVE  /\ Entry(n, k, v) \in Slot
             /\ Entry(n, k, v).name = n
             /\ Entry(n, k, v).value = v
  BY <1>2, EntryIsSlot DEF Entry
<1>5. ASSUME NEW i \in DOMAIN ram, NEW n \in Key, FindKeyIndex(ram, k, i),
             <<k, n>> \in Prefix, ram' = [ram EXCEPT ![i] = Entry(n, k, v)]
      PROVE  Lookup(ram', k) = v
  BY <1>1, <1>4, <1>5, ReplacedIsFound
<1>6. ASSUME NEW n \in Key, KeyMissing(ram, k), Len(ram) < MaxKeys,
             <<k, n>> \in Prefix, ram' = Append(ram, Entry(n, k, v))
      PROVE  Lookup(ram', k) = v
  BY <1>1, <1>4, <1>6, AppendedIsFound
<1> QED
  BY <1>3, <1>5, <1>6

\* Every step keeps what was set found.
LEMMA StepIsFresh ==
  ASSUME KeysFit, TypeOK, Fresh, [Next]_vars
  PROVE  Fresh'
<1>1. ASSUME NEW k \in Key, NEW v \in Value, SetConfig(k, v) \/ SetConfigCbor(k, v)
      PROVE  Fresh'
  <2>1. Lookup(ram', k) = v
    BY <1>1, SetLeavesFound
  <2>2. last' = Done("set", k, v) /\ power' = power /\ power # "off"
    BY <1>1 DEF SetConfig, SetConfigCbor, Quiet, Running
  <2> QED
    BY <2>1, <2>2 DEF Fresh, SetIsFound, Done, Running
<1>2. ASSUME NEW k \in Key, NEW v \in Value, SetConfigTooLong(k, v) PROVE Fresh'
  BY <1>2 DEF SetConfigTooLong, Fresh, SetIsFound, None
<1>3. ASSUME NEW k \in Key, RemoveKey(k) PROVE Fresh'
  BY <1>3 DEF RemoveKey, Quiet, Running, Fresh, SetIsFound, Done
<1>4. ASSUME PowerOff PROVE Fresh'
  BY <1>4 DEF PowerOff, Fresh, SetIsFound, None
<1>5. ASSUME UNCHANGED <<power, ram, last>> PROVE Fresh'
  BY <1>5 DEF Fresh, SetIsFound, Running
<1>6. ASSUME NEW mode \in {"stay", "restart"}, SaveConfig(mode) PROVE Fresh'
  BY <1>5, <1>6 DEF SaveConfig
<1>7. CASE SaveDone
  BY <1>4, <1>5, <1>7 DEF SaveDone
<1>8. CASE SaveFails
  BY <1>5, <1>8 DEF SaveFails
<1>9. CASE Crash
  BY <1>4, <1>9 DEF Crash
<1>10. CASE Load \/ LoadFails
  BY <1>10 DEF Load, LoadFails, Fresh, SetIsFound, Running, None
<1>11. CASE UNCHANGED vars
  BY <1>5, <1>11 DEF vars
<1> QED
  BY <1>1, <1>2, <1>3, <1>6, <1>7, <1>8, <1>9, <1>10, <1>11 DEF Next

\* If no key fills its buffer, what was set is found, whatever keys begin
\* with one another and whoever set it.
THEOREM SetsAreFound ==
  ASSUME KeysFit
  PROVE  Spec => []SetIsFound
<1>1. Init => Fresh
  BY DEF Init, Fresh, SetIsFound, None
<1>2. TypeOK /\ Fresh /\ [Next]_vars => Fresh'
  BY StepIsFresh
<1>3. Fresh => SetIsFound
  BY DEF Fresh
<1> QED
  BY <1>1, <1>2, <1>3, TypeCorrect, PTL DEF Spec
-----------------------------------------------------------------------------
(***************************************************************************)
(* ConfigStore implements ConfigMap, if no key begins with another.  Then  *)
(* a lookup finds the one slot whose buffer holds the key, and each change *)
(* of the slots is a change of the map at that key.                        *)
(***************************************************************************)

\* No key begins with another, so none loses a character either.
PrefixFree == \A k, l \in Key : <<k, l>> \in Prefix => k = l

\* Where no key begins with another, keys are compared and stored whole.
LEMMA WholeKeys ==
  ASSUME PrefixFree, NEW k \in Key
  PROVE  /\ Clip[k] = k
         /\ Copied(k) = {k}
         /\ \A l \in Key : <<k, l>> \in Prefix <=> l = k
<1>1. \A l \in Key : Clip[l] = l
  BY ClipAssumption DEF PrefixFree
<1>2. \A l \in Key : <<k, l>> \in Prefix <=> l = k
  BY PrefixAssumption DEF PrefixFree
<1>3. Copied(k) = {k}
  BY <1>1, <1>2 DEF Copied
<1> QED
  BY <1>1, <1>2, <1>3

(***************************************************************************)
(* Lookups                                                                 *)
(***************************************************************************)

\* Different slots hold different keys.
NamesDiffer(t) ==
  \A i, j \in DOMAIN t : t[i].name = t[j].name => i = j

\* The slots give k the value v.
Holds(t, k, v) ==
  \/ \E i \in DOMAIN t : t[i].name = k /\ t[i].value = v
  \/ (\A i \in DOMAIN t : t[i].name # k) /\ v = Absent

\* Only a slot that holds the key asked for matches it.
LEMMA MatchIsEqual ==
  ASSUME PrefixFree, NEW t \in Table, NEW k \in Key, NEW i \in DOMAIN t
  PROVE  Matches(t, k, i) <=> t[i].name = k
BY SlotFields, WholeKeys DEF Matches

\* A lookup finds the value that the slots give a key.
LEMMA LookupIsHeld ==
  ASSUME PrefixFree, NEW t \in Table, NamesDiffer(t), NEW k \in Key
  PROVE  /\ Holds(t, k, Lookup(t, k))
         /\ \A v : Holds(t, k, v) => Lookup(t, k) = v
<1>1. CASE KeyMissing(t, k)
  BY <1>1, MatchIsEqual DEF KeyMissing, Lookup, Holds
<1>2. ASSUME NEW i \in DOMAIN t, t[i].name = k
      PROVE  Lookup(t, k) = t[i].value
  <2>1. DOMAIN t = 1..Len(t) /\ Len(t) \in Nat
    BY DEF Table
  <2>2. ~KeyMissing(t, k)
    BY <1>2, MatchIsEqual DEF KeyMissing
  <2>3. \A j \in 1..(i - 1) : j \in DOMAIN t /\ j # i
    BY <2>1
  <2>4. FindKeyIndex(t, k, i)
    BY <1>2, <2>3, MatchIsEqual DEF FindKeyIndex, NamesDiffer
  <2>5. \A j \in DOMAIN t : FindKeyIndex(t, k, j) => j = i
    BY <1>2, MatchIsEqual DEF FindKeyIndex, NamesDiffer
  <2>6. (CHOOSE j \in DOMAIN t : FindKeyIndex(t, k, j)) = i
    BY <2>4, <2>5
  <2> QED
    BY <2>2, <2>6 DEF Lookup
<1>3. CASE \E i \in DOMAIN t : t[i].name = k
  BY <1>2, <1>3 DEF Holds
<1>4. CASE \A i \in DOMAIN t : t[i].name # k
  BY <1>1, <1>4, MatchIsEqual DEF KeyMissing, Holds
<1> QED
  BY <1>3, <1>4

\* A table is the map of another with one key changed, if its slots give that
\* key the new value and every other key the value it had.
LEMMA MapOfChanged ==
  ASSUME PrefixFree, NEW t \in Table, NEW u \in Table, NamesDiffer(u),
         NEW k \in Key, NEW v, Holds(u, k, v),
         \A l \in Key \ {k} : Holds(u, l, Lookup(t, l))
  PROVE  AsMap(u) = [AsMap(t) EXCEPT ![k] = v]
<1>1. Lookup(u, k) = v
  BY LookupIsHeld
<1>2. \A l \in Key \ {k} : Lookup(u, l) = Lookup(t, l)
  BY LookupIsHeld
<1> QED
  BY <1>1, <1>2 DEF AsMap

\* The empty table is the empty map.
LEMMA MapOfEmpty == AsMap(<<>>) = [k \in Key |-> Absent] /\ NamesDiffer(<<>>)
BY DEF AsMap, Lookup, KeyMissing, NamesDiffer

\* A slot replaced by one for the same key changes the map at that key.
LEMMA MapOfReplaced ==
  ASSUME PrefixFree, NEW t \in Table, NamesDiffer(t), NEW k \in Key,
         NEW i \in DOMAIN t, t[i].name = k, NEW s \in Slot, s.name = k
  PROVE  /\ AsMap([t EXCEPT ![i] = s]) = [AsMap(t) EXCEPT ![k] = s.value]
         /\ NamesDiffer([t EXCEPT ![i] = s])
         /\ AsMap(t)[k] # Absent
<1> DEFINE u == [t EXCEPT ![i] = s]
<1>1. /\ u \in Table
      /\ DOMAIN u = DOMAIN t
      /\ u[i] = s
      /\ \A j \in DOMAIN t : j # i => u[j] = t[j]
  BY ReplacedIsTable DEF Table
<1> HIDE DEF u
<1>2. \A j \in DOMAIN t : u[j].name = t[j].name
  BY <1>1
<1>3. NamesDiffer(u)
  BY <1>1, <1>2 DEF NamesDiffer
<1>4. Holds(u, k, s.value)
  BY <1>1 DEF Holds
<1>5. ASSUME NEW l \in Key \ {k} PROVE Holds(u, l, Lookup(t, l))
  <2>1. Holds(t, l, Lookup(t, l))
    BY LookupIsHeld
  <2>2. \A j \in DOMAIN t : t[j].name = l => u[j] = t[j]
    BY <1>1
  <2> QED
    BY <1>1, <1>2, <2>1, <2>2 DEF Holds
<1>6. AsMap(t)[k] = t[i].value
  BY LookupIsHeld DEF Holds, AsMap
<1>7. t[i].value # Absent
  BY SlotFields, ValueAssumption
<1>8. AsMap(u) = [AsMap(t) EXCEPT ![k] = s.value]
  BY <1>1, <1>3, <1>4, <1>5, MapOfChanged
<1> QED
  BY <1>3, <1>6, <1>7, <1>8 DEF u

\* A slot added for a missing key changes the map at that key.
LEMMA MapOfAppended ==
  ASSUME PrefixFree, NEW t \in Table, NamesDiffer(t), Len(t) < MaxKeys,
         NEW k \in Key, \A i \in DOMAIN t : t[i].name # k,
         NEW s \in Slot, s.name = k
  PROVE  /\ AsMap(Append(t, s)) = [AsMap(t) EXCEPT ![k] = s.value]
         /\ NamesDiffer(Append(t, s))
<1> DEFINE u == Append(t, s)
<1>1. /\ u \in Table
      /\ DOMAIN u = 1..(Len(t) + 1)
      /\ DOMAIN t = 1..Len(t)
      /\ Len(t) \in Nat
      /\ u[Len(t) + 1] = s
      /\ \A j \in DOMAIN t : u[j] = t[j]
  BY AppendedIsTable DEF Table
<1> HIDE DEF u
<1>2. \A j \in DOMAIN u : j \in DOMAIN t \/ j = Len(t) + 1
  BY <1>1
<1>3. Len(t) + 1 \in DOMAIN u /\ DOMAIN t \subseteq DOMAIN u
  BY <1>1
<1>4. NamesDiffer(u)
  BY <1>1, <1>2 DEF NamesDiffer
<1>5. Holds(u, k, s.value)
  BY <1>1, <1>3 DEF Holds
<1>6. ASSUME NEW l \in Key \ {k} PROVE Holds(u, l, Lookup(t, l))
  <2>1. Holds(t, l, Lookup(t, l))
    BY LookupIsHeld
  <2>2. CASE \E j \in DOMAIN t : t[j].name = l /\ t[j].value = Lookup(t, l)
    BY <1>1, <1>3, <2>2 DEF Holds
  <2>3. CASE (\A j \in DOMAIN t : t[j].name # l) /\ Lookup(t, l) = Absent
    BY <1>1, <1>2, <2>3 DEF Holds
  <2> QED
    BY <2>1, <2>2, <2>3 DEF Holds
<1>7. AsMap(u) = [AsMap(t) EXCEPT ![k] = s.value]
  BY <1>1, <1>4, <1>5, <1>6, MapOfChanged
<1> QED
  BY <1>4, <1>7 DEF u

\* A slot taken out takes its key off the map.
LEMMA MapOfWithout ==
  ASSUME PrefixFree, NEW t \in Table, NamesDiffer(t), NEW k \in Key,
         NEW i \in DOMAIN t, t[i].name = k
  PROVE  /\ AsMap(Without(t, i)) = [AsMap(t) EXCEPT ![k] = Absent]
         /\ NamesDiffer(Without(t, i))
         /\ AsMap(t)[k] # Absent
<1> DEFINE u == Without(t, i)
           old(j) == IF j < i THEN j ELSE j + 1
           new(j) == IF j < i THEN j ELSE j - 1
<1>1. u \in Table /\ DOMAIN u = 1..(Len(t) - 1)
  BY WithoutIsTable
<1>2. DOMAIN t = 1..Len(t) /\ Len(t) \in Nat
  BY DEF Table
<1>3. \A j \in DOMAIN u : u[j] = t[old(j)]
  BY <1>1, WithoutIsTable
<1> HIDE DEF u
<1>4. \A j \in DOMAIN u : old(j) \in DOMAIN t \ {i}
  BY <1>1, <1>2
<1>5. \A j \in DOMAIN t \ {i} : new(j) \in DOMAIN u /\ old(new(j)) = j
  BY <1>1, <1>2
<1>6. \A j, h \in DOMAIN u : old(j) = old(h) => j = h
  BY <1>1, <1>2
<1> HIDE DEF old, new
<1>7. NamesDiffer(u)
  BY <1>3, <1>4, <1>6 DEF NamesDiffer
<1>8. Holds(u, k, Absent)
  BY <1>3, <1>4 DEF Holds, NamesDiffer
<1>9. ASSUME NEW l \in Key \ {k} PROVE Holds(u, l, Lookup(t, l))
  <2>1. Holds(t, l, Lookup(t, l))
    BY LookupIsHeld
  <2>2. ASSUME NEW j \in DOMAIN t, t[j].name = l, t[j].value = Lookup(t, l)
        PROVE  Holds(u, l, Lookup(t, l))
    <3>1. j \in DOMAIN t \ {i}
      BY <2>2
    <3>2. u[new(j)] = t[j] /\ new(j) \in DOMAIN u
      BY <1>3, <1>5, <3>1
    <3> QED
      BY <2>2, <3>2 DEF Holds
  <2>3. CASE (\A j \in DOMAIN t : t[j].name # l) /\ Lookup(t, l) = Absent
    BY <1>3, <1>4, <2>3 DEF Holds
  <2> QED
    BY <2>1, <2>2, <2>3 DEF Holds
<1>10. AsMap(t)[k] = t[i].value
  BY LookupIsHeld DEF Holds, AsMap
<1>11. t[i].value # Absent
  BY SlotFields, ValueAssumption
<1>12. AsMap(u) = [AsMap(t) EXCEPT ![k] = Absent]
  BY <1>1, <1>7, <1>8, <1>9, MapOfChanged
<1> QED
  BY <1>7, <1>10, <1>11, <1>12 DEF u

(***************************************************************************)
(* Steps                                                                   *)
(***************************************************************************)

\* In every table different slots hold different keys, and a node that is
\* off has no table.
MapInv ==
  /\ NamesDiffer(ram)
  /\ NamesDiffer(flash.slots)
  /\ NamesDiffer(image)
  /\ ~Running => ram = <<>>

\* A slot that a lookup of k finds holds k.
LEMMA FoundIsNamed ==
  ASSUME PrefixFree, NEW t \in Table, NEW k \in Key, NEW i \in DOMAIN t,
         FindKeyIndex(t, k, i)
  PROVE  t[i].name = k
BY MatchIsEqual DEF FindKeyIndex

\* No slot holds a key that is missing.
LEMMA MissingIsUnnamed ==
  ASSUME PrefixFree, NEW t \in Table, NEW k \in Key, KeyMissing(t, k)
  PROVE  \A i \in DOMAIN t : t[i].name # k
BY MatchIsEqual DEF KeyMissing

\* What a step that changes the table in RAM leaves alone.
LEMMA ChangeKeepsInv ==
  ASSUME MapInv, Running, Quiet, NamesDiffer(ram')
  PROVE  MapInv'
BY DEF MapInv, Quiet, Running

\* A call that sets a key sets it in the map.
LEMMA SetIsMapped ==
  ASSUME PrefixFree, TypeOK, MapInv, NEW k \in Key, NEW v \in Value,
         SetConfig(k, v) \/ SetConfigCbor(k, v)
  PROVE  MapInv' /\ Promise!Set(k, v)
<1>1. ram \in Table /\ NamesDiffer(ram)
  BY DEF TypeOK, MapInv
<1>2. Clip[k] = k /\ Copied(k) = {k}
  BY WholeKeys
<1> DEFINE s == Entry(k, k, v)
<1>3. v \in (Value \ Oversized) \cup {Torn}
  BY DEF SetConfig, SetConfigCbor
<1>4. s \in Slot /\ s.name = k /\ s.value = v
  BY <1>3, EntryIsSlot DEF Entry
<1>5. \/ \E i \in DOMAIN ram :
           FindKeyIndex(ram, k, i) /\ ram' = [ram EXCEPT ![i] = s]
      \/ /\ KeyMissing(ram, k)
         /\ Len(ram) < MaxKeys
         /\ ram' = Append(ram, s)
  <2>1. CASE SetConfig(k, v)
    BY <1>2, <2>1 DEF SetConfig
  <2>2. CASE SetConfigCbor(k, v)
    <3>1. \A i \in DOMAIN ram : FindKeyIndex(ram, k, i) => ram[i].name = k
      BY <1>1, FoundIsNamed
    <3> QED
      BY <1>2, <2>2, <3>1 DEF SetConfigCbor
  <2> QED
    BY <2>1, <2>2
<1> HIDE DEF s
<1>6. AsMap(ram') = [AsMap(ram) EXCEPT ![k] = v] /\ NamesDiffer(ram')
  <2>1. ASSUME NEW i \in DOMAIN ram, FindKeyIndex(ram, k, i),
               ram' = [ram EXCEPT ![i] = s]
        PROVE  AsMap(ram') = [AsMap(ram) EXCEPT ![k] = v] /\ NamesDiffer(ram')
    <3>1. ram[i].name = k
      BY <1>1, <2>1, FoundIsNamed
    <3>2. /\ AsMap([ram EXCEPT ![i] = s]) = [AsMap(ram) EXCEPT ![k] = s.value]
          /\ NamesDiffer([ram EXCEPT ![i] = s])
      BY <1>1, <1>4, <3>1, MapOfReplaced
    <3> QED
      BY <1>4, <2>1, <3>2
  <2>2. ASSUME KeyMissing(ram, k), Len(ram) < MaxKeys, ram' = Append(ram, s)
        PROVE  AsMap(ram') = [AsMap(ram) EXCEPT ![k] = v] /\ NamesDiffer(ram')
    <3>1. \A i \in DOMAIN ram : ram[i].name # k
      BY <1>1, <2>2, MissingIsUnnamed
    <3> QED
      BY <1>1, <1>4, <2>2, <3>1, MapOfAppended
  <2> QED
    BY <1>5, <2>1, <2>2
<1>7. Running /\ Quiet /\ last' = Done("set", k, v)
  BY DEF SetConfig, SetConfigCbor
<1>8. MapInv'
  BY <1>6, <1>7, ChangeKeepsInv
<1>9. Promise!Set(k, v)
  BY <1>6, <1>7 DEF Promise!Set, Promise!Change, Promise!Done, Done, Quiet,
                    Running
<1> QED
  BY <1>8, <1>9

\* A call that fails half way spoils the value of its key in the map.
LEMMA SpoilIsMapped ==
  ASSUME PrefixFree, TypeOK, MapInv, NEW k \in Key, NEW v \in Value,
         SetConfigTooLong(k, v)
  PROVE  MapInv' /\ Promise!Spoil(k)
<1>1. ram \in Table /\ NamesDiffer(ram)
  BY DEF TypeOK, MapInv
<1>2. Clip[k] = k
  BY WholeKeys
<1>3. PICK i \in DOMAIN ram :
        /\ FindKeyIndex(ram, k, i)
        /\ ram' = [ram EXCEPT ![i] = Entry(k, ram[i].named, Torn)]
  BY <1>2 DEF SetConfigTooLong
<1> DEFINE s == Entry(k, ram[i].named, Torn)
<1>4. ram[i].name = k
  BY <1>1, <1>3, FoundIsNamed
<1>5. s \in Slot /\ s.name = k /\ s.value = Torn
  <2>1. ram[i].named \in Key
    BY <1>1, SlotFields
  <2>2. s \in Slot
    BY <2>1, EntryIsSlot
  <2> QED
    BY <2>2 DEF Entry
<1>6. ram' = [ram EXCEPT ![i] = s]
  BY <1>3
<1> HIDE DEF s
<1>7. /\ AsMap(ram') = [AsMap(ram) EXCEPT ![k] = Torn]
      /\ NamesDiffer(ram')
      /\ AsMap(ram)[k] # Absent
  <2>1. /\ AsMap([ram EXCEPT ![i] = s]) = [AsMap(ram) EXCEPT ![k] = s.value]
        /\ NamesDiffer([ram EXCEPT ![i] = s])
        /\ AsMap(ram)[k] # Absent
    BY <1>1, <1>4, <1>5, MapOfReplaced
  <2> QED
    BY <1>5, <1>6, <2>1
<1>8. Running /\ Quiet /\ last' = None
  BY DEF SetConfigTooLong
<1>9. MapInv'
  BY <1>7, <1>8, ChangeKeepsInv
<1>10. Promise!Spoil(k)
  BY <1>7, <1>8 DEF Promise!Spoil, Promise!Change, Promise!None, None, Quiet,
                    Running
<1> QED
  BY <1>9, <1>10

\* A call that removes a key removes it from the map.
LEMMA RemoveIsMapped ==
  ASSUME PrefixFree, TypeOK, MapInv, NEW k \in Key, RemoveKey(k)
  PROVE  MapInv' /\ Promise!Remove(k)
<1>1. ram \in Table /\ NamesDiffer(ram)
  BY DEF TypeOK, MapInv
<1>2. PICK i \in DOMAIN ram :
        FindKeyIndex(ram, k, i) /\ ram' = Without(ram, i)
  BY DEF RemoveKey
<1>3. ram[i].name = k
  BY <1>1, <1>2, FoundIsNamed
<1>4. /\ AsMap(ram') = [AsMap(ram) EXCEPT ![k] = Absent]
      /\ NamesDiffer(ram')
      /\ AsMap(ram)[k] # Absent
  BY <1>1, <1>2, <1>3, MapOfWithout
<1>5. Running /\ Quiet /\ last' = Done("remove", k, Absent)
  BY DEF RemoveKey
<1>6. MapInv'
  BY <1>4, <1>5, ChangeKeepsInv
<1>7. Promise!Remove(k)
  BY <1>4, <1>5 DEF Promise!Remove, Promise!Change, Promise!Done, Done, Quiet,
                    Running
<1> QED
  BY <1>6, <1>7

\* Every step of the store is a step of the map, or leaves the map as it is.
LEMMA StepIsMapped ==
  ASSUME PrefixFree, TypeOK, MapInv, [Next]_vars
  PROVE  MapInv' /\ [Promise!Next]_(Promise!vars)
<1>a. AsMap(<<>>) = Promise!Nothing /\ NamesDiffer(<<>>)
  BY MapOfEmpty DEF Promise!Nothing
<1>b. PowerOff => Promise!Stop /\ ram' = <<>> /\ image' = <<>> /\ saving' = "no"
  BY <1>a DEF PowerOff, Promise!Stop, Promise!None, None, Running
<1>1. ASSUME NEW k \in Key, NEW v \in Value,
             SetConfig(k, v) \/ SetConfigTooLong(k, v) \/ SetConfigCbor(k, v)
      PROVE  MapInv' /\ Promise!Next
  BY <1>1, SetIsMapped, SpoilIsMapped DEF Promise!Next
<1>2. ASSUME NEW k \in Key, RemoveKey(k) PROVE MapInv' /\ Promise!Next
  BY <1>2, RemoveIsMapped DEF Promise!Next
<1>3. ASSUME NEW mode \in {"stay", "restart"}, SaveConfig(mode)
      PROVE  MapInv' /\ Promise!Next
  <2>1. MapInv'
    BY <1>a, <1>3 DEF SaveConfig, Erased, MapInv, Running
  <2>2. Promise!BeginSave
    BY <1>a, <1>3 DEF SaveConfig, Erased, Promise!BeginSave, Running
  <2> QED
    BY <2>1, <2>2 DEF Promise!Next
<1>4. CASE SaveDone
  <2>1. saving # "no" /\ saving' = "no" /\ image' = <<>>
    BY <1>4, <1>b DEF SaveDone
  <2>2. flash'.slots \in {image, flash.slots}
    BY <1>4 DEF SaveDone
  <2>3. \/ Promise!Stop /\ ram' = <<>>
        \/ UNCHANGED <<power, ram, needsCommit, last>>
    BY <1>4, <1>b DEF SaveDone
  <2>4. MapInv'
    BY <1>a, <2>1, <2>2, <2>3 DEF MapInv, Running
  <2>5. Promise!EndSave
    BY <1>a, <2>1, <2>2, <2>3 DEF Promise!EndSave, Running
  <2> QED
    BY <2>4, <2>5 DEF Promise!Next
<1>5. CASE SaveFails
  <2>1. MapInv'
    BY <1>5, <1>a DEF SaveFails, MapInv, Running
  <2>2. Promise!EndSave
    BY <1>5, <1>a DEF SaveFails, Promise!EndSave, Running
  <2> QED
    BY <2>1, <2>2 DEF Promise!Next
<1>6. CASE Crash
  <2>1. MapInv'
    BY <1>6, <1>a, <1>b DEF Crash, MapInv
  <2>2. Promise!Restart
    BY <1>6, <1>a, <1>b DEF Crash, Promise!Restart, Running
  <2> QED
    BY <2>1, <2>2 DEF Promise!Next
<1>7. CASE Load
  <2>1. MapInv'
    BY <1>7 DEF Load, MapInv, Running
  <2>2. Promise!Boot
    BY <1>7 DEF Load, Promise!Boot, Running
  <2> QED
    BY <2>1, <2>2 DEF Promise!Next
<1>8. CASE LoadFails
  <2>1. MapInv'
    BY <1>8 DEF LoadFails, MapInv, Running
  <2>2. AsMap(ram') = Promise!Nothing
    BY <1>8, <1>a DEF LoadFails, MapInv
  <2>3. Promise!Boot
    BY <1>8, <2>2 DEF LoadFails, Promise!Boot, Running
  <2> QED
    BY <2>1, <2>3 DEF Promise!Next
<1>9. CASE UNCHANGED vars
  BY <1>9 DEF vars, MapInv, Running, Promise!vars
<1> QED
  BY <1>1, <1>2, <1>3, <1>4, <1>5, <1>6, <1>7, <1>8, <1>9 DEF Next

\* If no key begins with another, the table of slots is a map: each call
\* changes the key it names as it reports, and a boot finds the whole of a
\* map that was saved, or nothing.
THEOREM StoreIsAMap ==
  ASSUME PrefixFree
  PROVE  Spec => MapPromise
<1>a. AsMap(<<>>) = Promise!Nothing /\ NamesDiffer(<<>>)
  BY MapOfEmpty DEF Promise!Nothing
<1>1. Init => MapInv
  BY <1>a DEF Init, MapInv, Erased, Running
<1>2. Init => Promise!Init
  BY <1>a DEF Init, Promise!Init, Promise!None, None, Erased, Running
<1>3. TypeOK /\ MapInv /\ [Next]_vars
        => MapInv' /\ [Promise!Next]_(Promise!vars)
  BY StepIsMapped
<1> QED
  BY <1>1, <1>2, <1>3, TypeCorrect, PTL DEF Spec, MapPromise, Promise!Spec
=============================================================================
