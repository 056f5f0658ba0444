----------------------------- MODULE MCBcmpConfig -----------------------------
(***************************************************************************)
(* Instances of BcmpConfig: two keys that do not begin with one another, a *)
(* value that does not fit, two requests of the node and one of the other. *)
(***************************************************************************)
EXTENDS BcmpConfig

CONSTANTS r, gain, small, long, ask1, ask2, through

Itself == {<<k, k>> : k \in Key}
Fits == [k \in Key |-> k]

For(op, k, v) == [op |-> op, key |-> k, value |-> v]

Asks(first, second, third) ==
  [i \in Request \cup Other |->
     IF i = ask1 THEN first ELSE IF i = ask2 THEN second ELSE third]

\* A set and a delete of one key next to a set of another; a set next to a
\* get and a status; a set that is refused next to one that is not.
Mixed ==
  {Asks(For("set", r, small), For("delete", r, small), For("set", gain, small)),
   Asks(For("set", r, small), For("get", r, small), For("status", r, small)),
   Asks(For("set", r, long), For("set", r, small), For("delete", gain, small))}

\* The other node has counted further than this one ever will.
Apart == [o \in Other |-> 3]
=============================================================================
