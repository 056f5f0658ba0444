---------------------------- MODULE MCConfigStore -----------------------------
(* Instances of ConfigStore for TLC: the keys "r", "rate" and "rates",     *)
(* each of which begins with the one before it, and "gain".                *)
EXTENDS ConfigStore

CONSTANTS r, rate, rates, gain, small, other, long

Itself == {<<k, k>> : k \in Key}

\* Keys of one family, and the others.
Family == Itself \cup ({<<r, rate>>, <<r, rates>>, <<rate, rates>>} \cap (Key \X Key))

\* No key fills its buffer.
Fits == [k \in Key |-> k]
=============================================================================
