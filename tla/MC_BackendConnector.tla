------------------------ MODULE MC_BackendConnector -------------------------
(***************************************************************************)
(* Two coroutines, one conversation of user u1 the backend has and one it  *)
(* does not; the reply to one message of the first is posted.              *)
(***************************************************************************)
EXTENDS BackendConnectorProps

CONSTANTS t1, t2, c1, c2, u1, u2, s1, k1

OwnedByU1 == [c \in Known |-> u1]
OneOrderEach == [a \in Actors \cup Staff |-> 1]
KeyInC1 == [k \in Keys |-> c1]
=============================================================================
