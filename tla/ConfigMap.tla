------------------------------ MODULE ConfigMap -------------------------------
(***************************************************************************)
(* What a configuration partition promises: a map from keys to values, and *)
(* a copy of it in flash that is all of one earlier map or nothing at all. *)
(* ConfigStore implements it if no key begins with another and no key      *)
(* fills its buffer.                                                       *)
(***************************************************************************)
CONSTANTS
  Key,     \* keys
  Value,   \* values
  Torn,    \* the value of a key that a failed change has destroyed
  Absent   \* the value of a key that is not set

VARIABLES
  on,       \* the node runs
  map,      \* the value of each key
  saved,    \* the map that a boot would find
  writing,  \* a save is under way
  pending,  \* the map it saves
  last      \* the last change that was reported as done

vars == <<on, map, saved, writing, pending, last>>

Nothing == [k \in Key |-> Absent]

None == [op |-> "none"]
Done(op, k, v) == [op |-> op, key |-> k, value |-> v]

Change(k, v) ==
  /\ on
  /\ map' = [map EXCEPT ![k] = v]
  /\ UNCHANGED <<on, saved, writing, pending>>

\* The caller is told that a key has a new value.
Set(k, v) ==
  /\ Change(k, v)
  /\ last' = Done("set", k, v)

\* The caller is told that a key has no value any more.
Remove(k) ==
  /\ map[k] # Absent
  /\ Change(k, Absent)
  /\ last' = Done("remove", k, Absent)

\* The caller is told that its change failed, and the value is lost.
Spoil(k) ==
  /\ map[k] # Absent
  /\ Change(k, Torn)
  /\ last' = None

\* The copy is given up as soon as a new one is begun.
BeginSave ==
  /\ on
  /\ ~writing
  /\ writing' = TRUE
  /\ pending' = map
  /\ saved' = Nothing
  /\ UNCHANGED <<on, map, last>>

Stop ==
  /\ on' = FALSE
  /\ map' = Nothing
  /\ last' = None

\* A save ends, well or not, and may restart the node.
EndSave ==
  /\ writing
  /\ writing' = FALSE
  /\ pending' = Nothing
  /\ saved' \in {pending, saved}
  /\ Stop \/ UNCHANGED <<on, map, last>>

Restart ==
  /\ on
  /\ Stop
  /\ writing' = FALSE
  /\ pending' = Nothing
  /\ UNCHANGED saved

Boot ==
  /\ ~on
  /\ on' = TRUE
  /\ map' \in {saved, Nothing}
  /\ UNCHANGED <<saved, writing, pending, last>>

Init ==
  /\ on = FALSE
  /\ map = Nothing
  /\ saved = Nothing
  /\ writing = FALSE
  /\ pending = Nothing
  /\ last = None

Next ==
  \/ \E k \in Key, v \in Value : Set(k, v)
  \/ \E k \in Key : Remove(k) \/ Spoil(k)
  \/ BeginSave
  \/ EndSave
  \/ Restart
  \/ Boot

Spec == Init /\ [][Next]_vars
=============================================================================
