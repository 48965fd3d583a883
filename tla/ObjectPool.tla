------------------------------ MODULE ObjectPool ------------------------------
(***************************************************************************)
(* What an object pool promises its callers, whatever it is made of.       *)
(* Alloc hands out an object that nobody holds; Free takes back an object  *)
(* its caller holds.  CTlsObjectPool is shown to implement this            *)
(* specification (module TlsObjectPool), and the containers built on a     *)
(* pool are modelled against it, so that any reuse of memory the real pool *)
(* can produce is a behaviour they are checked against.                    *)
(***************************************************************************)

CONSTANT Objects          \* every address the pool may ever hand out

VARIABLE inUse            \* objects handed out and not given back yet

Init == inUse = {}

Alloc(o) ==
    /\ o \in Objects \ inUse
    /\ inUse' = inUse \cup {o}

Free(o) ==
    /\ o \in inUse
    /\ inUse' = inUse \ {o}

Next == \E o \in Objects : Alloc(o) \/ Free(o)

Spec == Init /\ [][Next]_inUse

===============================================================================
