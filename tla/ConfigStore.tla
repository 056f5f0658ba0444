----------------------------- MODULE ConfigStore -----------------------------
(***************************************************************************)
(* One configuration partition (src/src/lib/sys/configuration.cpp): a      *)
(* table of keys and values in RAM, loaded from flash at boot, changed by  *)
(* local code and by remote nodes, and written back to flash with a CRC.   *)
(*                                                                         *)
(* Keys are found by strncmp over the length of the key asked for, so what *)
(* matters of a key is which keys begin with it: Prefix.  A key that fills *)
(* its buffer loses its last character when it is stored: Clip.            *)
(*                                                                         *)
(* A call that changes the table is one step; a save is not, because the   *)
(* caller waits for the flash while other tasks go on changing the table.  *)
(***************************************************************************)
EXTENDS Naturals, Sequences

CONSTANTS
  Key,       \* keys short enough to be accepted
  Prefix,    \* <<k, l>>: l begins with the characters of k
  Clip,      \* the characters of a key that fit its buffer, [Key -> Key]
  Value,     \* values that local code and remote nodes set
  Oversized, \* strings whose encoding does not fit a value buffer
  Torn,      \* what an encoder that ran out of space leaves behind
  Absent,    \* no value
  MaxKeys    \* MAX_NUM_KV

\* What strncmp and snprintf make of strings.
ASSUME PrefixAssumption ==
  /\ Prefix \subseteq Key \X Key
  /\ \A k \in Key : <<k, k>> \in Prefix
  /\ \A k, l, m \in Key :
       <<k, l>> \in Prefix /\ <<l, m>> \in Prefix => <<k, m>> \in Prefix
  /\ \A k, l \in Key : <<k, l>> \in Prefix /\ <<l, k>> \in Prefix => k = l
  /\ \A k, l, m \in Key :
       <<k, m>> \in Prefix /\ <<l, m>> \in Prefix =>
         <<k, l>> \in Prefix \/ <<l, k>> \in Prefix

ASSUME ClipAssumption ==
  /\ Clip \in [Key -> Key]
  /\ \A k \in Key : <<Clip[k], k>> \in Prefix

ASSUME ValueAssumption ==
  /\ Torn \notin Value
  /\ Absent \notin Value \cup {Torn}

ASSUME MaxKeysAssumption == MaxKeys \in Nat \ {0}

VARIABLES
  power,        \* "off", "loaded" (the table came from flash) or "blank"
  ram,          \* the numKeys slots in use, with their order
  needsCommit,  \* _needs_commit
  flash,        \* what loadAndVerifyNvmConfig would find
  saving,       \* a save under way, and whether it restarts the node
  image,        \* the table that the CRC of this save was computed over
  last          \* history: the last change the store reported as done

vars == <<power, ram, needsCommit, flash, saving, image, last>>

(* A slot holds the characters in its key buffer, the key whose length it  *)
(* records, and a value.                                                   *)
Slot == [name : Key, named : Key, value : (Value \ Oversized) \cup {Torn}]
Entry(name, named, value) ==
  [name |-> name, named |-> named, value |-> value]
Table == {slots \in Seq(Slot) : Len(slots) <= MaxKeys}

None == [op |-> "none"]
Done(op, k, v) == [op |-> op, key |-> k, value |-> v]

TypeOK ==
  /\ power \in {"off", "loaded", "blank"}
  /\ ram \in Table
  /\ needsCommit \in BOOLEAN
  /\ flash \in [whole : BOOLEAN, slots : Table]
  /\ saving \in {"no", "stay", "restart"}
  /\ image \in Table
  /\ last \in {None} \cup [op : {"set", "remove"}, key : Key,
                           value : Value \cup {Absent}]

(***************************************************************************)
(* Looking up a key                                                        *)
(***************************************************************************)
\* Mutant: the comparison is over the length of the stored key.
MatchesBackwards(table, k, i) == <<table[i].name, k>> \in Prefix

Matches(table, k, i) == <<k, table[i].name>> \in Prefix

\* findKeyIndex returns i.
FindKeyIndex(table, k, i) ==
  /\ i \in DOMAIN table
  /\ Matches(table, k, i)
  /\ \A j \in 1..(i - 1) : ~Matches(table, k, j)

\* findKeyIndex returns false.
KeyMissing(table, k) == \A i \in DOMAIN table : ~Matches(table, k, i)

\* What getConfig and getConfigCbor give for k.
Lookup(table, k) ==
  IF KeyMissing(table, k) THEN Absent
  ELSE table[CHOOSE i \in DOMAIN table : FindKeyIndex(table, k, i)].value

\* The key of a slot as getStoredKeys shows it: the buffer up to keyLen.
Listed(slot) ==
  IF <<slot.name, slot.named>> \in Prefix THEN slot.name ELSE slot.named

(***************************************************************************)
(* Changing the table                                                      *)
(***************************************************************************)
Running == power # "off"

Quiet == UNCHANGED <<power, flash, saving, image>>

\* Mutant: the key is not looked for.
SetConfigAppends(k, v) ==
  /\ Running
  /\ Len(ram) < MaxKeys
  /\ v \notin Oversized
  /\ ram' = Append(ram, Entry(Clip[k], k, v))
  /\ needsCommit' = TRUE
  /\ last' = Done("set", k, v)
  /\ Quiet

\* prepareCborEncoder has room and the encoder succeeds: the slot found is
\* renamed to the key asked for.
SetConfig(k, v) ==
  /\ Running
  /\ Len(ram) < MaxKeys
  /\ v \notin Oversized
  /\ \/ \E i \in DOMAIN ram :
          /\ FindKeyIndex(ram, k, i)
          /\ ram' = [ram EXCEPT ![i] = Entry(Clip[k], k, v)]
     \/ /\ KeyMissing(ram, k)
        /\ ram' = Append(ram, Entry(Clip[k], k, v))
  /\ needsCommit' = TRUE
  /\ last' = Done("set", k, v)
  /\ Quiet

\* The encoder runs out of space: the call fails with the key buffer and the
\* head of the value already overwritten, and the length and the commit flag
\* as they were.  (A key that was missing leaves nothing that can be seen.)
SetConfigTooLong(k, v) ==
  /\ Running
  /\ Len(ram) < MaxKeys
  /\ v \in Oversized
  /\ \E i \in DOMAIN ram :
       /\ FindKeyIndex(ram, k, i)
       /\ ram' = [ram EXCEPT ![i] = Entry(Clip[k], @.named, Torn)]
  /\ last' = None
  /\ UNCHANGED needsCommit
  /\ Quiet

\* The names a new slot may get from a key that comes in a message: the key
\* there is not terminated, so bytes of the value may follow it.
Copied(k) == {Clip[n] : n \in {n \in Key : <<k, n>> \in Prefix}}

\* Mutant: a full table is not refused.
SetConfigCborFull(k, v) ==
  /\ Running
  /\ v \notin Oversized
  /\ KeyMissing(ram, k)
  /\ ram' = Append(ram, Entry(Clip[k], k, v))
  /\ needsCommit' = TRUE
  /\ last' = Done("set", k, v)
  /\ Quiet

\* A value that is already encoded, from a remote node or the Spotter.  An
\* existing slot keeps its buffer and is there even when the table is full.
SetConfigCbor(k, v) ==
  /\ Running
  /\ v \notin Oversized
  /\ \/ \E i \in DOMAIN ram :
          /\ FindKeyIndex(ram, k, i)
          /\ ram' = [ram EXCEPT ![i] = Entry(@.name, k, v)]
     \/ /\ KeyMissing(ram, k)
        /\ Len(ram) < MaxKeys
        /\ \E n \in Copied(k) :
             ram' = Append(ram, Entry(n, k, v))
  /\ needsCommit' = TRUE
  /\ last' = Done("set", k, v)
  /\ Quiet

\* Mutant: the last slot does not move up.
WithoutShift(table, i) ==
  [j \in 1..(Len(table) - 1) |->
     IF j < i \/ j = Len(table) - 1 THEN table[j] ELSE table[j + 1]]

\* The slots after the one removed move up.
Without(table, i) ==
  [j \in 1..(Len(table) - 1) |-> IF j < i THEN table[j] ELSE table[j + 1]]

\* Mutant: nothing is marked for commit.
RemoveKeyQuietly(k) ==
  /\ Running
  /\ \E i \in DOMAIN ram :
       /\ FindKeyIndex(ram, k, i)
       /\ ram' = Without(ram, i)
  /\ last' = Done("remove", k, Absent)
  /\ UNCHANGED needsCommit
  /\ Quiet

RemoveKey(k) ==
  /\ Running
  /\ \E i \in DOMAIN ram :
       /\ FindKeyIndex(ram, k, i)
       /\ ram' = Without(ram, i)
  /\ needsCommit' = TRUE
  /\ last' = Done("remove", k, Absent)
  /\ Quiet

(***************************************************************************)
(* Saving and loading                                                      *)
(***************************************************************************)
Erased == [whole |-> FALSE, slots |-> <<>>]

\* saveConfig(restart) computes the CRC and starts to write.
SaveConfig(mode) ==
  /\ Running
  /\ saving = "no"
  /\ saving' = mode
  /\ image' = ram
  /\ flash' = Erased
  /\ UNCHANGED <<power, ram, needsCommit, last>>

PowerOff ==
  /\ power' = "off"
  /\ ram' = <<>>
  /\ needsCommit' = FALSE
  /\ saving' = "no"
  /\ image' = <<>>
  /\ last' = None

\* The write ends.  The table is read while it is written, so a change made
\* in between may be half in it, and the CRC says so at the next boot.
SaveDone ==
  /\ saving # "no"
  /\ \/ flash' = [whole |-> TRUE, slots |-> image]
     \/ ram # image /\ UNCHANGED flash
  /\ \/ saving = "restart" /\ PowerOff
     \/ /\ saving = "stay"
        /\ saving' = "no"
        /\ image' = <<>>
        /\ UNCHANGED <<power, ram, needsCommit, last>>

\* The driver gives up half way: no restart, and nothing usable in flash.  (If
\* it gives up before the first erase, nothing has changed.)
SaveFails ==
  /\ saving # "no"
  /\ saving' = "no"
  /\ image' = <<>>
  /\ UNCHANGED <<power, ram, needsCommit, flash, last>>

\* A reset or a loss of power.
Crash ==
  /\ Running
  /\ PowerOff
  /\ UNCHANGED flash

\* The constructor, with a partition that can be read and has a good CRC.
Load ==
  /\ ~Running
  /\ flash.whole
  /\ power' = "loaded"
  /\ ram' = flash.slots
  /\ UNCHANGED <<needsCommit, flash, saving, image, last>>

\* The constructor, when the read fails or the CRC is wrong.
LoadFails ==
  /\ ~Running
  /\ power' = "blank"
  /\ UNCHANGED <<ram, needsCommit, flash, saving, image, last>>

Init ==
  /\ power = "off"
  /\ ram = <<>>
  /\ needsCommit = FALSE
  /\ flash = Erased
  /\ saving = "no"
  /\ image = <<>>
  /\ last = None

Next ==
  \/ \E k \in Key, v \in Value :
       SetConfig(k, v) \/ SetConfigTooLong(k, v) \/ SetConfigCbor(k, v)
  \/ \E k \in Key : RemoveKey(k)
  \/ \E mode \in {"stay", "restart"} : SaveConfig(mode)
  \/ SaveDone
  \/ SaveFails
  \/ Crash
  \/ Load
  \/ LoadFails

Spec == Init /\ [][Next]_vars

(***************************************************************************)
(* Properties                                                              *)
(***************************************************************************)

\* A key that getStoredKeys lists (and a status response carries to another
\* node) is found in the slot that lists it: no slot hides another, however
\* keys that begin with one another were set, renamed and removed.
ListedKeysFound ==
  \A i \in DOMAIN ram : FindKeyIndex(ram, Listed(ram[i]), i)

\* needsCommit() is false only if there is nothing to commit: a table that
\* was loaded and needs no commit is the one in flash, except for values
\* that a failed setConfig has destroyed.
CleanMeansSaved ==
  power = "loaded" /\ ~needsCommit /\ flash.whole =>
    /\ DOMAIN ram = DOMAIN flash.slots
    /\ \A i \in DOMAIN ram : ram[i].value = Torn \/ ram[i] = flash.slots[i]

\* A value that was just set with success is the one a lookup finds, whatever
\* other keys begin with the key or the key with them.  (It takes that no key
\* fills its buffer: one that does is stored without its last character.)
SetIsFound == last.op = "set" => Lookup(ram, last.key) = last.value

\* A key that was just removed with success is not found any more, as the
\* tests of the store expect.
RemovedIsGone == last.op = "remove" => KeyMissing(ram, last.key)

\* The map of a table of slots.
AsMap(table) == [k \in Key |-> Lookup(table, k)]

Promise == INSTANCE ConfigMap WITH
             on <- Running,
             map <- AsMap(ram),
             saved <- AsMap(flash.slots),
             writing <- saving # "no",
             pending <- AsMap(image)

\* Where no key begins with another, the table of slots behaves as a map:
\* a call changes the key it names, as it reports, and no other, and a boot
\* finds the whole of a map that was saved, or nothing.
MapPromise == Promise!Spec
=============================================================================
