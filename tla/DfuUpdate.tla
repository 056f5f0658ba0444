------------------------------ MODULE DfuUpdate ------------------------------
(***************************************************************************)
(* What a firmware update promises, whatever is lost, repeated or reset    *)
(* on the way: a node tries an image only if an application offered it to  *)
(* that node, it goes back to its previous image unless the new one is     *)
(* confirmed, and an application hears of a success only after that.       *)
(* BmDfu implements this specification.                                    *)
(***************************************************************************)
EXTENDS Naturals, Sequences

CONSTANTS
  Node,        \* node ids
  Image,       \* firmware images
  Factory,     \* the image a node is shipped with
  Offer,       \* records with at least the fields client and img
  MaxAnswers   \* bound: answers counted for one offer

VARIABLES
  asked,      \* the offers made by applications
  answers,    \* what each offer was answered
  boot,       \* the image a node runs, on trial or confirmed
  installed   \* the images a node has confirmed

vars == <<asked, answers, boot, installed>>

Told(o, success) ==
  answers' = [answers EXCEPT ![o] = IF Len(@) < MaxAnswers
                                    THEN Append(@, success) ELSE @]

\* An application offers an image, and may be turned down at once.
Ask(o) ==
  /\ o \notin asked
  /\ asked' = asked \cup {o}
  /\ UNCHANGED answers \/ Told(o, FALSE)
  /\ UNCHANGED <<boot, installed>>

\* A node starts an image that was offered to it.
Try(n, o) ==
  /\ o \in asked
  /\ o.client = n
  /\ boot[n].confirmed
  /\ boot' = [boot EXCEPT ![n] = [running |-> o.img, prev |-> @.running,
                                  confirmed |-> FALSE]]
  /\ UNCHANGED <<asked, answers, installed>>

\* The image a node runs is there to stay.
Keep(n) ==
  /\ boot' = [boot EXCEPT ![n].confirmed = TRUE]
  /\ installed' = [installed EXCEPT ![n] = @ \cup {boot[n].running}]
  /\ UNCHANGED <<asked, answers>>

\* An image that is still on trial is given up.
FallBack(n) ==
  /\ ~boot[n].confirmed
  /\ boot' = [boot EXCEPT ![n] = [running |-> @.prev, prev |-> @.prev,
                                  confirmed |-> TRUE]]
  /\ UNCHANGED <<asked, answers, installed>>

\* The application hears how an update of its ended.
Answer(o, success) ==
  /\ o \in asked
  /\ success => o.img \in installed[o.client]
  /\ Told(o, success)
  /\ UNCHANGED <<asked, boot, installed>>

Init ==
  /\ asked = {}
  /\ answers = [o \in Offer |-> <<>>]
  /\ boot = [n \in Node |-> [running |-> Factory[n], prev |-> Factory[n],
                             confirmed |-> TRUE]]
  /\ installed = [n \in Node |-> {}]

Next ==
  \/ \E o \in Offer : Ask(o)
  \/ \E o \in Offer, success \in BOOLEAN : Answer(o, success)
  \/ \E n \in Node, o \in Offer : Try(n, o)
  \/ \E n \in Node : Keep(n) \/ FallBack(n)

Spec == Init /\ [][Next]_vars
=============================================================================
