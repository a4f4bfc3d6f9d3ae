-------------------------- MODULE MCProxyDispatch --------------------------
(* Instances of ProxyDispatch for TLC.  A replica of tag t1 lets a request *)
(* wait for it, one of tag t2 turns it away.                               *)
EXTENDS ProxyDispatch

CONSTANTS w1, t1, t2

OwnTags == [w \in Workers |-> IF w = w1 THEN t1 ELSE t2]
Ones == [t \in Tags |-> 1]
Twos == [t \in Tags |-> 2]
OneWaits == [t \in Tags |-> IF t = t1 THEN 1 ELSE 0]
=============================================================================
