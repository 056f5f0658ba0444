------------------------------ MODULE MCBmDfu -------------------------------
(* Instances of BmDfu for TLC: the nodes hostA and mote; the image fw0 that *)
(* they ship with, fw1, and a larger build of fw1's commit, big.            *)
EXTENDS BmDfu, TLC

CONSTANTS hostA, mote, fw0, fw1, big

AllFw0 == [n \in Node |-> fw0]

\* Images differ in their SHA, unless they are builds of one commit.
ShaOfCommit == [img \in Image |-> IF img = fw0 THEN 0 ELSE 1]

Ask(n, m, img) == [host |-> n, client |-> m, img |-> img, force |-> FALSE]

OneOffer  == {Ask(hostA, mote, fw1)}
OneAndBig == {Ask(hostA, mote, fw1), Ask(hostA, mote, big)}

\* A node that only hosts never reads its setting: one value stands for both.
HostConfirms == confirmOn[hostA]
=============================================================================
