----------------------------- MODULE MCNodeSched -----------------------------
EXTENDS NodeSched, TLC
CONSTANTS t1, t2, t3, n1, n2, n3
Together == (n1 :> t1) @@ (n2 :> t1) @@ (n3 :> t2)
Pair == (n1 :> t1) @@ (n2 :> t1)
Crowd == Pair @@ (n3 :> t1)
PriorityOps == {"set_priority", "schedule_next", "remove_priority"}
StaticOps == {"set_static", "set_moving", "set_priority"}
OwnerOps == {"set_owner", "set_moving"}
OwnerOp == {"set_owner"}
StaticOp == {"set_static"}
ForeignPriority == {"set_priority", "schedule_next"}
ForeignRemove == {"remove_priority"}
ForeignMoving == {"set_moving"}
PlaceOps == StaticOps \cup PriorityOps
NoOps == {}
================================================================================
