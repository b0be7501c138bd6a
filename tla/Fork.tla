-------------------------------- MODULE Fork --------------------------------
(***************************************************************************)
(* Copy-on-write fork: fork, duppage and pgfault (lib/riscv/fork.c), the   *)
(* installation of the handler (lib/riscv/pgfault.c), the upcall           *)
(* (kern/riscv/trap.c page_fault_handler, lib/riscv/pfentry.S) and the     *)
(* system calls they make.                                                 *)
(*                                                                         *)
(* Environments run user code in any interleaving; a system call is one    *)
(* step, under the kernel lock (see Kernel).  A page is free when nothing  *)
(* maps it, which is what Pmap's RefCountsExact shows of pp_ref, and every *)
(* CPU uses the current mapping, which is what Pmap's TlbCoherent shows as *)
(* long as only an environment itself, or the parent of one that does not  *)
(* run yet, changes its mappings.                                          *)
(***************************************************************************)
EXTENDS Naturals, FiniteSets

CONSTANTS
  Env,      \* slots of envs[]
  First,    \* the environment the kernel creates at boot
  NPAGE,    \* physical pages
  NIMAGE,   \* pages from UTEXT to end
  Value,    \* what a page may hold
  None

ASSUME ForkAssumption ==
  /\ First \in Env /\ NIMAGE \in Nat \ {0} /\ NPAGE \in Nat /\ NPAGE > NIMAGE
  /\ 0 \in Value /\ None \notin Env /\ None \notin Nat
  /\ None \notin Nat \X Value /\ None \notin [1 .. NIMAGE + 1 -> Value]

Page == 1 .. NPAGE
Stack == NIMAGE + 1          \* USTACKTOP - PGSIZE
VA == 1 .. Stack             \* the pages fork duplicates, in its order
UTEMP == Stack + 1
UXSTACK == Stack + 2         \* UXSTACKTOP - PGSIZE
Area == 1 .. UXSTACK

VARIABLES
  at,         \* the page mapped at each address, or None
  writable,   \* PTE_W of each mapping
  content,    \* what each page holds
  env_status,
  env_pgfault_upcall,  \* is the upcall set?
  handler,    \* is _pgfault_handler set?
  pc,         \* the next step of fork, or "user"
  child, va,  \* envid, and the page the loop of fork is at
  fault,      \* the next step of pgfault, or "none"
  store       \* the store that faulted, to be executed again, or None

mapping == <<at, writable>>
control == <<pc, child, va>>
trap == <<fault, store>>
vars == <<mapping, content, env_status, env_pgfault_upcall, handler, control, trap>>

InFork == {"xstack", "upcall", "handler", "exofork", "dup", "remap", "share",
           "childstack", "status"}
Statuses == {"ENV_FREE", "ENV_NOT_RUNNABLE", "ENV_RUNNABLE"}

-----------------------------------------------------------------------------
(* System calls on pages. *)

Free(p) == \A e \in Env, a \in Area : at[e][a] # p
MemoryLeft == \E p \in Page : Free(p)
FirstFree == CHOOSE p \in Page : Free(p)

Insert(e, a, p, w) ==
  /\ at' = [at EXCEPT ![e][a] = p]
  /\ writable' = [writable EXCEPT ![e][a] = w]

(***************************************************************************)
(* A zeroed page.  What happens without memory is in Pmap.                 *)
(***************************************************************************)
sys_page_alloc(e, a) ==
  /\ MemoryLeft
  /\ Insert(e, a, FirstFree, TRUE)
  /\ content' = [content EXCEPT ![FirstFree] = 0]

sys_page_map(src, a, dst, b, w) ==
  /\ at[src][a] # None /\ (w => writable[src][a])
  /\ Insert(dst, b, at[src][a], w)
  /\ UNCHANGED content

sys_page_unmap(e, a) == Insert(e, a, None, FALSE) /\ UNCHANGED content

-----------------------------------------------------------------------------
(* User code and its page faults. *)

Runs(e) == env_status[e] = "ENV_RUNNABLE" /\ fault[e] = "none"

Goto(e, step) == pc' = [pc EXCEPT ![e] = step]

(***************************************************************************)
(* Nothing of the environment can be reached any more.  That env_free does *)
(* not give the pages of the two stacks back is in Pmap; here they may be  *)
(* used again.                                                             *)
(***************************************************************************)
env_free(e) ==
  /\ at' = [at EXCEPT ![e] = [a \in Area |-> None]]
  /\ writable' = [writable EXCEPT ![e] = [a \in Area |-> FALSE]]
  /\ env_status' = [env_status EXCEPT ![e] = "ENV_FREE"]
  /\ fault' = [fault EXCEPT ![e] = "none"]
  /\ store' = [store EXCEPT ![e] = None]
  /\ Goto(e, "user")
  /\ child' = [child EXCEPT ![e] = None]
  /\ va' = [va EXCEPT ![e] = 1]
  /\ UNCHANGED <<content, env_pgfault_upcall, handler>>

(***************************************************************************)
(* page_fault_handler runs the upcall on the exception stack, or destroys  *)
(* the environment if it has no upcall or no such stack.                   *)
(***************************************************************************)
page_fault_handler(e, a, v) ==
  IF env_pgfault_upcall[e] /\ at[e][UXSTACK] # None
  THEN /\ fault' = [fault EXCEPT ![e] = "alloc"]
       /\ store' = [store EXCEPT ![e] = <<a, v>>]
       /\ UNCHANGED <<mapping, content, env_status, env_pgfault_upcall, handler, control>>
  ELSE env_free(e)

(***************************************************************************)
(* Where user code stores: anywhere in the image and the stack, but while  *)
(* it is in fork only on the stack, for the calls that fork makes.  After  *)
(* a fault the same store is executed again.  A store of the value that is *)
(* there already changes nothing and is left out.                          *)
(***************************************************************************)
StoresAt(e) == IF pc[e] = "user" THEN VA ELSE {Stack}

Store(e, a, v) ==
  /\ Runs(e)
  /\ IF store[e] = None THEN a \in StoresAt(e) /\ v # content[at[e][a]]
     ELSE store[e] = <<a, v>>
  /\ IF writable[e][a]
     THEN /\ content' = [content EXCEPT ![at[e][a]] = v]
          /\ store' = [store EXCEPT ![e] = None]
          /\ UNCHANGED <<mapping, env_status, env_pgfault_upcall, handler, control, fault>>
     ELSE page_fault_handler(e, a, v)

Retry(e) == store[e] # None /\ Store(e, store[e][1], store[e][2])

(***************************************************************************)
(* pgfault, on the exception stack.  It checks neither that the access was *)
(* a write nor that the page is marked copy-on-write.                      *)
(***************************************************************************)
Handles(e, step, next) ==
  /\ fault[e] = step
  /\ fault' = [fault EXCEPT ![e] = next]
  /\ UNCHANGED <<store, control, env_status, env_pgfault_upcall, handler>>

pgfault_alloc(e) == Handles(e, "alloc", "copy") /\ sys_page_alloc(e, UTEMP)

pgfault_copy(e) ==
  /\ Handles(e, "copy", "map")
  /\ content' = [content EXCEPT ![at[e][UTEMP]] = content[at[e][store[e][1]]]]
  /\ UNCHANGED mapping

(* Mutant: the copy is mapped read-only. *)
pgfault_map_ReadOnly(e) ==
  Handles(e, "map", "unmap") /\ sys_page_map(e, UTEMP, e, store[e][1], FALSE)

pgfault_map(e) ==
  Handles(e, "map", "unmap") /\ sys_page_map(e, UTEMP, e, store[e][1], TRUE)

pgfault_unmap(e) == Handles(e, "unmap", "none") /\ sys_page_unmap(e, UTEMP)

pgfault(e) == pgfault_alloc(e) \/ pgfault_copy(e) \/ pgfault_map(e) \/ pgfault_unmap(e)

-----------------------------------------------------------------------------
(* fork. *)

At(e, step) == Runs(e) /\ store[e] = None /\ pc[e] = step

(***************************************************************************)
(* set_pgfault_handler: the first time, an exception stack and the upcall. *)
(***************************************************************************)
CallFork(e) ==
  /\ At(e, "user")
  /\ Goto(e, IF handler[e] THEN "handler" ELSE "xstack")
  /\ UNCHANGED <<mapping, content, env_status, env_pgfault_upcall, handler, child, va, trap>>

ExceptionStack(e) ==
  /\ At(e, "xstack") /\ Goto(e, "upcall")
  /\ sys_page_alloc(e, UXSTACK)
  /\ UNCHANGED <<env_status, env_pgfault_upcall, handler, child, va, trap>>

sys_env_set_pgfault_upcall(e) ==
  /\ At(e, "upcall") /\ Goto(e, "handler")
  /\ env_pgfault_upcall' = [env_pgfault_upcall EXCEPT ![e] = TRUE]
  /\ UNCHANGED <<mapping, content, env_status, handler, child, va, trap>>

(***************************************************************************)
(* _pgfault_handler is in the image (on its last page, say): storing to it *)
(* again, in a later fork, faults where that page is shared.               *)
(***************************************************************************)
SetHandler(e) ==
  /\ At(e, "handler")
  /\ IF writable[e][NIMAGE]
     THEN /\ Goto(e, "exofork")
          /\ handler' = [handler EXCEPT ![e] = TRUE]
          /\ UNCHANGED <<mapping, content, env_status, env_pgfault_upcall, child, va, trap>>
     ELSE page_fault_handler(e, NIMAGE, content[at[e][NIMAGE]])

(***************************************************************************)
(* sys_exofork: an environment with no memory, with the registers and the  *)
(* upcall of its parent, that starts by returning 0 from this call.  Its   *)
(* _pgfault_handler comes with the image.  Kernel has the case that no     *)
(* slot is free.                                                           *)
(***************************************************************************)
sys_exofork(e, c) ==
  /\ At(e, "exofork") /\ env_status[c] = "ENV_FREE"
  /\ env_status' = [env_status EXCEPT ![c] = "ENV_NOT_RUNNABLE"]
  /\ env_pgfault_upcall' = [env_pgfault_upcall EXCEPT ![c] = env_pgfault_upcall[e]]
  /\ handler' = [handler EXCEPT ![c] = handler[e]]
  /\ child' = [child EXCEPT ![e] = c]
  /\ va' = [va EXCEPT ![e] = 1]
  /\ Goto(e, "dup")
  /\ UNCHANGED <<mapping, content, trap>>

(* Mutant: duppage marks the own mapping before it maps the child's. *)
duppage_Reversed(e) ==
  \/ /\ At(e, "dup") /\ Goto(e, "remap")
     /\ sys_page_map(e, va[e], e, va[e], FALSE)
     /\ UNCHANGED <<va, env_status, env_pgfault_upcall, handler, child, trap>>
  \/ /\ At(e, "remap") /\ Goto(e, IF va[e] = Stack THEN "share" ELSE "dup")
     /\ sys_page_map(e, va[e], child[e], va[e], FALSE)
     /\ va' = [va EXCEPT ![e] = IF @ = Stack THEN @ ELSE @ + 1]
     /\ UNCHANGED <<env_status, env_pgfault_upcall, handler, child, trap>>

(* Mutant: the loop of fork runs one page too far. *)
duppage_OneMore(e) ==
  \/ /\ At(e, "dup") /\ Goto(e, "remap")
     /\ sys_page_map(e, va[e], child[e], va[e], FALSE)
     /\ UNCHANGED <<va, env_status, env_pgfault_upcall, handler, child, trap>>
  \/ /\ At(e, "remap") /\ Goto(e, IF va[e] > Stack THEN "share" ELSE "dup")
     /\ sys_page_map(e, va[e], e, va[e], FALSE)
     /\ va' = [va EXCEPT ![e] = IF @ > Stack THEN @ ELSE @ + 1]
     /\ UNCHANGED <<env_status, env_pgfault_upcall, handler, child, trap>>

(***************************************************************************)
(* duppage and the loop around it: the page is mapped copy-on-write into   *)
(* the child, then in the parent, in two system calls; then the next page, *)
(* the stack being the last.                                               *)
(***************************************************************************)
duppage(e) ==
  \/ /\ At(e, "dup") /\ Goto(e, "remap")
     /\ sys_page_map(e, va[e], child[e], va[e], FALSE)
     /\ UNCHANGED <<va, env_status, env_pgfault_upcall, handler, child, trap>>
  \/ /\ At(e, "remap") /\ Goto(e, IF va[e] = Stack THEN "share" ELSE "dup")
     /\ sys_page_map(e, va[e], e, va[e], FALSE)
     /\ va' = [va EXCEPT ![e] = IF @ = Stack THEN @ ELSE @ + 1]
     /\ UNCHANGED <<env_status, env_pgfault_upcall, handler, child, trap>>

(***************************************************************************)
(* The descriptor pages that sys_copy_shared_pages maps are in FileServer. *)
(***************************************************************************)
sys_copy_shared_pages(e) ==
  /\ At(e, "share") /\ Goto(e, "childstack")
  /\ UNCHANGED <<mapping, content, env_status, env_pgfault_upcall, handler, child, va, trap>>

(* Mutant: parent and child share the exception stack. *)
ChildStack_Shared(e) ==
  /\ At(e, "childstack") /\ Goto(e, "status")
  /\ sys_page_map(e, UXSTACK, child[e], UXSTACK, TRUE)
  /\ UNCHANGED <<env_status, env_pgfault_upcall, handler, child, va, trap>>

ChildStack(e) ==
  /\ At(e, "childstack") /\ Goto(e, "status")
  /\ sys_page_alloc(child[e], UXSTACK)
  /\ UNCHANGED <<env_status, env_pgfault_upcall, handler, child, va, trap>>

sys_env_set_status(e) ==
  /\ At(e, "status") /\ Goto(e, "user")
  /\ env_status' = [env_status EXCEPT ![child[e]] = "ENV_RUNNABLE"]
  /\ child' = [child EXCEPT ![e] = None]
  /\ va' = [va EXCEPT ![e] = 1]
  /\ UNCHANGED <<mapping, content, env_pgfault_upcall, handler, trap>>

(***************************************************************************)
(* An environment exits, or its parent destroys it at any moment.          *)
(***************************************************************************)
env_destroy(e) == env_status[e] = "ENV_RUNNABLE" /\ env_free(e)

-----------------------------------------------------------------------------

Init ==
  /\ at = [e \in Env |-> [a \in Area |-> IF e = First /\ a \in VA THEN a ELSE None]]
  /\ writable = [e \in Env |-> [a \in Area |-> e = First /\ a \in VA]]
  /\ content = [p \in Page |-> 0]
  /\ env_status = [e \in Env |-> IF e = First THEN "ENV_RUNNABLE" ELSE "ENV_FREE"]
  /\ env_pgfault_upcall = [e \in Env |-> FALSE]
  /\ handler = [e \in Env |-> FALSE]
  /\ pc = [e \in Env |-> "user"]
  /\ child = [e \in Env |-> None]
  /\ va = [e \in Env |-> 1]
  /\ fault = [e \in Env |-> "none"]
  /\ store = [e \in Env |-> None]

(***************************************************************************)
(* The steps that finish a fork or a fault once begun.                     *)
(***************************************************************************)
Continue(e) ==
  \/ Retry(e) \/ pgfault(e)
  \/ ExceptionStack(e) \/ sys_env_set_pgfault_upcall(e) \/ SetHandler(e)
  \/ \E c \in Env : sys_exofork(e, c)
  \/ duppage(e) \/ sys_copy_shared_pages(e) \/ ChildStack(e) \/ sys_env_set_status(e)

Next == \E e \in Env :
  \/ \E a \in VA, v \in Value : Store(e, a, v)
  \/ CallFork(e) \/ Continue(e) \/ env_destroy(e)

Spec == Init /\ [][Next]_vars

FairSpec == Spec /\ \A e \in Env : WF_vars(Continue(e))

-----------------------------------------------------------------------------
(* Properties. *)

(* Every variable keeps its type, and an address is writable only where    *)
(* something is mapped.                                                    *)
TypeOK ==
  /\ at \in [Env -> [Area -> Page \cup {None}]]
  /\ writable \in [Env -> [Area -> BOOLEAN]]
  /\ \A e \in Env, a \in Area : writable[e][a] => at[e][a] # None
  /\ content \in [Page -> Value]
  /\ env_status \in [Env -> Statuses]
  /\ env_pgfault_upcall \in [Env -> BOOLEAN]
  /\ handler \in [Env -> BOOLEAN]
  /\ pc \in [Env -> InFork \cup {"user"}]
  /\ child \in [Env -> Env \cup {None}]
  /\ va \in [Env -> VA]
  /\ fault \in [Env -> {"none", "alloc", "copy", "map", "unmap"}]
  /\ store \in [Env -> (VA \X Value) \cup {None}]

(***************************************************************************)
(* The child has its memory once nothing the parent does can change it any *)
(* more: when the parent's stack is marked too or, if the stack was copy-  *)
(* on-write already, as soon as the child maps it.                         *)
(***************************************************************************)
HasMemory(e) ==
  \/ env_status[e] = "ENV_RUNNABLE"
  \/ \E p \in Env :
       /\ child[p] = e
       /\ \/ pc[p] \in {"share", "childstack", "status"}
          \/ /\ pc[p] = "remap" /\ va[p] = Stack /\ at[e][Stack] # None
             /\ ~(writable[p][Stack] /\ at[p][Stack] = at[e][Stack])

Memory(e) ==
  IF HasMemory(e) THEN [a \in VA |-> content[at[e][a]]] ELSE None

Private == INSTANCE PrivateMemory WITH mem <- [e \in Env |-> Memory(e)]

(* fork is an atomic copy of the image and the stack, although it marks    *)
(* page after page in two calls each and the parent keeps storing to its   *)
(* stack meanwhile; and no store of one environment is ever seen by        *)
(* another (duppage, pgfault).                                             *)
IsPrivate == Private!Spec

(* Whoever can run into a page that is not writable has the upcall and an  *)
(* exception stack that is writable and not shared, so that no store kills *)
(* its environment: "Neither user exception stack should ever be marked    *)
(* copy-on-write" (fork, set_pgfault_handler).                             *)
FaultsHandled ==
  \A e \in Env : env_status[e] = "ENV_RUNNABLE" /\ (\E a \in VA : ~writable[e][a]) =>
    /\ env_pgfault_upcall[e] /\ writable[e][UXSTACK]
    /\ \A f \in Env, a \in Area :
         at[f][a] = at[e][UXSTACK] => f = e /\ a = UXSTACK

SlotsUsedUp(e) ==
  pc[e] = "exofork" /\ \A c \in Env : env_status[c] # "ENV_FREE"

(* A fork that has begun and a store that has faulted come to an end,      *)
(* however often the stack is stored to and faults meanwhile (fork,        *)
(* pgfault).                                                               *)
Finishes ==
  \A e \in Env : (pc[e] \in InFork \/ store[e] # None) ~>
    ((pc[e] = "user" /\ store[e] = None) \/ SlotsUsedUp(e))
=============================================================================
