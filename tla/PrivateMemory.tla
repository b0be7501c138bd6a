---------------------------- MODULE PrivateMemory ----------------------------
(***************************************************************************)
(* What fork promises: every environment has a memory of its own.  fork    *)
(* gives the child, in one step, a copy of the whole memory of its parent; *)
(* after that no store of one changes the memory of another.               *)
(***************************************************************************)
CONSTANTS Env, VA, Value, None

VARIABLE mem     \* the memory of each environment, or None

Init == \E first \in Env, m \in [VA -> Value] :
          mem = [e \in Env |-> IF e = first THEN m ELSE None]

Store(e, va, v) ==
  /\ mem[e] # None
  /\ mem' = [mem EXCEPT ![e] = [@ EXCEPT ![va] = v]]

Fork(parent, child) ==
  /\ mem[parent] # None /\ mem[child] = None
  /\ mem' = [mem EXCEPT ![child] = mem[parent]]

Vanish(gone) == mem' = [e \in Env |-> IF e \in gone THEN None ELSE mem[e]]

Next ==
  \/ \E e \in Env, va \in VA, v \in Value : Store(e, va, v)
  \/ \E parent, child \in Env : Fork(parent, child)
  \/ \E gone \in SUBSET Env : Vanish(gone)

Spec == Init /\ [][Next]_mem
=============================================================================
