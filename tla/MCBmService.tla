----------------------------- MODULE MCBmService -----------------------------
(***************************************************************************)
(* One service, which other nodes have too, two requests of this node and  *)
(* one of another node, whose id is that of the first one of this node.    *)
(***************************************************************************)
EXTENDS BmService

CONSTANTS echo, ask1, ask2, theirs

Echo == [r \in Request \cup Other |-> echo]
Zero == [o \in Other |-> 0]
=============================================================================
