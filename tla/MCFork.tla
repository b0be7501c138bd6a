------------------------------- MODULE MCFork -------------------------------
(* Instances of Fork. *)
EXTENDS Fork

(***************************************************************************)
(* Pages are interchangeable, what a free page holds is never read, and    *)
(* sys_exofork sets what is left of the slot's last environment: states    *)
(* that differ only in these have the same behaviours.  (TypeOK makes TLC  *)
(* evaluate the functions it has to store.)                                *)
(***************************************************************************)
Places(p) == {x \in Env \X Area : at[x[1]][x[2]] = p}

OfLiving(f) == [e \in Env |-> env_status[e] # "ENV_FREE" /\ f[e]]

UpToRenaming ==
  <<{<<Places(p), content[p]>> : p \in {q \in Page : ~Free(q)}}, writable, env_status,
    OfLiving(env_pgfault_upcall), OfLiving(handler), control, trap, TypeOK>>
=============================================================================
