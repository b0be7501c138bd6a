-------------------------------- MODULE Pmap --------------------------------
(***************************************************************************)
(* Physical pages and page tables (kern/riscv/pmap.c), the system calls    *)
(* that change mappings, the page half of IPC, and the set-up and tear-    *)
(* down of address spaces (kern/riscv/env.c), with the TLBs of the CPUs.   *)
(*                                                                         *)
(* Every handler runs under the kernel lock (see Kernel) and is one        *)
(* action; user code on the other CPUs keeps using its TLB meanwhile.      *)
(* Which environments are parent and child is Kernel's concern: here any   *)
(* environment may be the target of a call.                                *)
(***************************************************************************)
EXTENDS Integers, Sequences, FiniteSets

CONSTANTS
  NPAGE,          \* physical pages the allocator manages
  Envs,           \* slots of envs[]
  CPUs,
  VAs,            \* user pages, each <<PD0X, PD1X, PD2X, PTX>> of its address
  ImageVA,        \* where load_icode puts the program
  StackVA,        \* USTACKTOP - PGSIZE
  Ops,            \* the operations user programs perform
  RefLimit,       \* 2^w for the width w of pp_ref
  MayEditRunning, \* may a call change the mappings of an environment that
                  \* runs on another CPU?
  NULL

ZeroVA == <<0, 0, 0, 0>>

AllOps == {"alloc", "map", "unmap", "recv", "send", "fork", "exit", "touch"}

ASSUME PmapAssumption ==
  /\ NPAGE \in Nat /\ NPAGE > 8    \* room for what env_create takes
  /\ RefLimit \in Nat \ {0, 1}
  /\ IsFiniteSet(Envs) /\ IsFiniteSet(CPUs) /\ IsFiniteSet(VAs)
  /\ VAs \subseteq Nat \X Nat \X Nat \X Nat
  /\ {ZeroVA, ImageVA, StackVA} \subseteq VAs
  /\ Ops \subseteq AllOps /\ MayEditRunning \in BOOLEAN
  /\ NULL \notin 1 .. NPAGE /\ NULL \notin Envs /\ NULL \notin VAs

Pages == 1 .. NPAGE

(***************************************************************************)
(* The entries of an environment's page tables, named by the indices that  *)
(* lead to them: the four indices of a page name its PTE, a prefix of them *)
(* the directory entry above it, and no index env_pgdir itself.            *)
(***************************************************************************)
Dir0 == << >>
Dir1(va) == <<va[1]>>
Dir2(va) == <<va[1], va[2]>>
Dir3(va) == <<va[1], va[2], va[3]>>
Entries == {Dir0} \cup {Dir1(va) : va \in VAs} \cup {Dir2(va) : va \in VAs}
             \cup {Dir3(va) : va \in VAs} \cup VAs
Places == Envs \X Entries

VARIABLES
  at,              \* the page each entry points to, or NULL
  writable,        \* PTE_W of each PTE
  pp_ref,          \* reference counts
  page_free_list,  \* the free pages (their order makes no difference)
  lost,            \* references left in address spaces that were freed
  env_ipc_recving, env_ipc_dstva,
  curenv,          \* the environment whose user code each CPU runs, or NULL
  tlb,             \* what each CPU has cached: a set of <<va, page, writable>>
  crashed          \* panic, or a null PageInfo used: nothing is claimed after

memVars == <<at, writable, pp_ref, page_free_list, crashed>>
ipcVars == <<env_ipc_recving, env_ipc_dstva>>
vars == <<memVars, lost, ipcVars, curenv, tlb>>

-----------------------------------------------------------------------------
(* The page allocator and the page tables, on a record m of all memory. *)

Memory == [at |-> at, w |-> writable, ref |-> pp_ref, free |-> page_free_list,
           ok |-> TRUE, bad |-> FALSE]

FirstFree(m) == CHOOSE p \in m.free : TRUE

(* Mutant: page_alloc does not advance the free list. *)
page_alloc_Stays(m) == m

page_alloc(m) == [m EXCEPT !.free = @ \ {FirstFree(m)}]

(***************************************************************************)
(* page_free panics for a page that is still counted, or that has a        *)
(* pp_link: one that is on the list already (unless it is the last there). *)
(***************************************************************************)
page_free(m, p) ==
  IF m.ref[p] # 0 \/ p \in m.free THEN [m EXCEPT !.bad = TRUE]
  ELSE [m EXCEPT !.free = @ \cup {p}]

page_decref(m, p) ==
  LET r == (m.ref[p] - 1) % RefLimit
      n == [m EXCEPT !.ref[p] = r]
  IN IF r = 0 THEN page_free(n, p) ELSE n

Attach(m, x, p) == [m EXCEPT !.at[x] = p, !.ref[p] = (@ + 1) % RefLimit]

(***************************************************************************)
(* One level of pgdir_create_page_level: a missing table is allocated and  *)
(* stays linked when a later level fails.                                  *)
(***************************************************************************)
CreateLevel(m, x) ==
  IF ~m.ok \/ m.at[x] # NULL THEN m
  ELSE IF m.free = {} THEN [m EXCEPT !.ok = FALSE]
  ELSE Attach(page_alloc(m), x, FirstFree(m))

pgdir_walk(m, e, va) ==
  CreateLevel(CreateLevel(CreateLevel(m, <<e, Dir1(va)>>),
                          <<e, Dir2(va)>>), <<e, Dir3(va)>>)

(***************************************************************************)
(* page_remove asserts that the count it is about to decrement is not 0.   *)
(***************************************************************************)
page_remove(m, e, va) ==
  LET p == m.at[<<e, va>>]
  IN IF p = NULL THEN m
     ELSE IF m.ref[p] = 0 THEN [m EXCEPT !.bad = TRUE]
     ELSE [page_decref(m, p) EXCEPT !.at[<<e, va>>] = NULL, !.w[<<e, va>>] = FALSE]

(* Mutant: page_insert counts a page again that is already at va. *)
page_insert_Recounts(m, e, va, p, w) ==
  LET t == pgdir_walk(m, e, va)
      n == Attach(IF t.at[<<e, va>>] = p THEN t ELSE page_remove(t, e, va),
                  <<e, va>>, p)
  IN IF t.ok THEN [n EXCEPT !.w[<<e, va>>] = w, !.free = @ \ {p}] ELSE t

(***************************************************************************)
(* page_insert: re-inserting the page already there only changes its       *)
(* permission.                                                             *)
(***************************************************************************)
page_insert(m, e, va, p, w) ==
  LET t == pgdir_walk(m, e, va)
      n == IF t.at[<<e, va>>] = p THEN t
           ELSE Attach(page_remove(t, e, va), <<e, va>>, p)
  IN IF t.ok THEN [n EXCEPT !.w[<<e, va>>] = w, !.free = @ \ {p}] ELSE t

Store(m) ==
  /\ at' = m.at /\ writable' = m.w /\ pp_ref' = m.ref
  /\ page_free_list' = m.free /\ crashed' = m.bad

-----------------------------------------------------------------------------
(* What a system call does around its own work. *)

Live(e) == at[<<e, Dir0>>] # NULL

Calls(c, op) == op \in Ops /\ ~crashed /\ curenv[c] # NULL

Target(c, e) ==
  Live(e) /\ (MayEditRunning \/ \A d \in CPUs \ {c} : curenv[d] # e)

(* Mutant: env_run does not flush the TLB when it returns to the caller. *)
Resume_NoFlush(c) == UNCHANGED <<tlb, curenv>>

(***************************************************************************)
(* Back to the caller through env_run, whose load_satp_asid flushes the    *)
(* whole TLB of this CPU; or away from it, through env_run or sched_halt.  *)
(***************************************************************************)
Resume(c) == tlb' = [tlb EXCEPT ![c] = {}] /\ UNCHANGED curenv

Leave(c) == tlb' = [tlb EXCEPT ![c] = {}] /\ curenv' = [curenv EXCEPT ![c] = NULL]

-----------------------------------------------------------------------------
(* System calls. *)

(***************************************************************************)
(* sys_page_alloc does not look at the result of page_alloc: with no free  *)
(* page it writes to a null PageInfo.                                      *)
(***************************************************************************)
sys_page_alloc(c, e, va, w) ==
  /\ Calls(c, "alloc") /\ Target(c, e)
  /\ LET p == FirstFree(Memory)
         r == page_insert(page_alloc(Memory), e, va, p, w)
         removed == IF at[<<e, Dir3(va)>>] = NULL THEN Memory
                    ELSE page_remove(Memory, e, va)
     IN Store(IF page_free_list = {} THEN [removed EXCEPT !.bad = TRUE]
              ELSE IF r.ok THEN r ELSE page_free(r, p))
  /\ Resume(c)
  /\ UNCHANGED <<lost, ipcVars>>

MayMap(e, va, w) == at[<<e, va>>] # NULL /\ (w => writable[<<e, va>>])

sys_page_map(c, src, srcva, dst, dstva, w) ==
  /\ Calls(c, "map") /\ Target(c, src) /\ Target(c, dst)
  /\ Store(IF MayMap(src, srcva, w)
           THEN page_insert(Memory, dst, dstva, at[<<src, srcva>>], w)
           ELSE Memory)
  /\ Resume(c)
  /\ UNCHANGED <<lost, ipcVars>>

sys_page_unmap(c, e, va) ==
  /\ Calls(c, "unmap") /\ Target(c, e)
  /\ Store(page_remove(Memory, e, va))
  /\ Resume(c)
  /\ UNCHANGED <<lost, ipcVars>>

(* Mutant: sys_ipc_recv records dstva also when it is above UTOP. *)
sys_ipc_recv_StoresAny(c, dstva) ==
  LET e == curenv[c]
  IN /\ Calls(c, "recv")
     /\ env_ipc_recving' = [env_ipc_recving EXCEPT ![e] = TRUE]
     /\ env_ipc_dstva' = [env_ipc_dstva EXCEPT ![e] = dstva]
     /\ Leave(c)
     /\ UNCHANGED <<memVars, lost>>

(***************************************************************************)
(* sys_ipc_recv: dstva = NULL stands for an address above UTOP, which      *)
(* leaves the previous env_ipc_dstva in place.                             *)
(***************************************************************************)
sys_ipc_recv(c, dstva) ==
  LET e == curenv[c]
  IN /\ Calls(c, "recv")
     /\ env_ipc_recving' = [env_ipc_recving EXCEPT ![e] = TRUE]
     /\ env_ipc_dstva' = [env_ipc_dstva EXCEPT ![e] =
                            IF dstva = NULL THEN @ ELSE dstva]
     /\ Leave(c)
     /\ UNCHANGED <<memVars, lost>>

(***************************************************************************)
(* sys_ipc_try_send: srcva = NULL sends no page.                           *)
(***************************************************************************)
sys_ipc_try_send(c, e, srcva, w) ==
  LET me == curenv[c]
      r == IF srcva = NULL THEN Memory
           ELSE IF ~MayMap(me, srcva, w) THEN [Memory EXCEPT !.ok = FALSE]
           ELSE page_insert(Memory, e, env_ipc_dstva[e], at[<<me, srcva>>], w)
  IN /\ Calls(c, "send") /\ Live(e) /\ env_ipc_recving[e]
     /\ Store(r)
     /\ env_ipc_recving' = [env_ipc_recving EXCEPT ![e] = ~r.ok]
     /\ Resume(c)
     /\ UNCHANGED <<lost, env_ipc_dstva>>

(***************************************************************************)
(* sys_exofork: env_setup_vm takes a page for env_pgdir; when there is     *)
(* none the kernel panics.  env_alloc does not touch env_ipc_dstva.        *)
(***************************************************************************)
sys_exofork(c, e) ==
  /\ Calls(c, "fork") /\ ~Live(e)
  /\ Store(IF page_free_list = {} THEN [Memory EXCEPT !.bad = TRUE]
           ELSE Attach(page_alloc(Memory), <<e, Dir0>>, FirstFree(Memory)))
  /\ env_ipc_recving' = [env_ipc_recving EXCEPT ![e] = FALSE]
  /\ Resume(c)
  /\ UNCHANGED <<lost, env_ipc_dstva>>

-----------------------------------------------------------------------------
(***************************************************************************)
(* env_free visits only the entry 0 of the page directory.  Entries below  *)
(* the others (both user stacks) are not visited: the directory goes, what *)
(* they point to stays counted.  An environment that runs on another CPU   *)
(* is freed by that CPU.                                                   *)
(***************************************************************************)
Visited(i) == i = Dir0 \/ i[1] = 0
Dropped(e, p) == {i \in Entries : Visited(i) /\ at[<<e, i>>] = p}
Skipped(e, p) == {i \in Entries : ~Visited(i) /\ at[<<e, i>>] = p}

env_free(c, e) ==
  LET ref == [p \in Pages |-> pp_ref[p] - Cardinality(Dropped(e, p))]
  IN /\ Calls(c, "exit") /\ Live(e) /\ \A d \in CPUs \ {c} : curenv[d] # e
     /\ at' = [x \in Places |-> IF x[1] = e THEN NULL ELSE at[x]]
     /\ writable' = [x \in Envs \X VAs |-> x[1] # e /\ writable[x]]
     /\ pp_ref' = ref
     /\ page_free_list' = page_free_list \cup
          {p \in Pages : Dropped(e, p) # {} /\ ref[p] = 0}
     /\ crashed' = \E p \in Pages : ref[p] < 0
     /\ lost' = [p \in Pages |-> lost[p] + Cardinality(Skipped(e, p))]
     /\ IF e = curenv[c] THEN Leave(c) ELSE Resume(c)
     /\ UNCHANGED ipcVars

(***************************************************************************)
(* ENV_CREATE in riscv_init, before any environment runs: the address      *)
(* space, one page of the program and the stack.  region_alloc panics when *)
(* there is no page or no table for the program.  (It also copies the      *)
(* directory entry into kern_pgdir, uncounted: the kernel's own mappings   *)
(* are not modelled.)                                                      *)
(***************************************************************************)
LoadPage(m, e, va) ==
  LET r == page_insert(page_alloc(m), e, va, FirstFree(m), TRUE)
  IN IF m.free = {} \/ m.bad THEN [m EXCEPT !.bad = TRUE]
     ELSE [r EXCEPT !.bad = ~r.ok]

(***************************************************************************)
(* The stack of load_icode: what page_alloc and page_insert return is not  *)
(* looked at.  Without a page page_insert writes to a null PageInfo, if it *)
(* finds the tables it needs.                                              *)
(***************************************************************************)
LoadStack(m, e) ==
  IF m.bad THEN m
  ELSE IF m.free = {} THEN [m EXCEPT !.bad = pgdir_walk(m, e, StackVA).ok]
  ELSE page_insert(page_alloc(m), e, StackVA, FirstFree(m), TRUE)

env_create(e) ==
  /\ \A f \in Envs : ~Live(f)
  /\ ~crashed /\ page_free_list = Pages
  /\ LET root == Attach(page_alloc(Memory), <<e, Dir0>>, FirstFree(Memory))
     IN Store(LoadStack(LoadPage(root, e, ImageVA), e))
  /\ UNCHANGED <<lost, ipcVars, curenv, tlb>>

-----------------------------------------------------------------------------
(* The CPUs. *)

(***************************************************************************)
(* env_run gives a free CPU to an environment that neither runs nor waits  *)
(* in sys_ipc_recv.                                                        *)
(***************************************************************************)
env_run(c, e) ==
  /\ ~crashed /\ curenv[c] = NULL
  /\ Live(e) /\ ~env_ipc_recving[e] /\ \A d \in CPUs : curenv[d] # e
  /\ curenv' = [curenv EXCEPT ![c] = e]
  /\ tlb' = [tlb EXCEPT ![c] = {}]
  /\ UNCHANGED <<memVars, lost, ipcVars>>

(***************************************************************************)
(* User code touches a page that is not in the TLB: the hardware walks the *)
(* page tables and caches what it finds.                                   *)
(***************************************************************************)
Touch(c, va) ==
  LET e == curenv[c]
  IN /\ Calls(c, "touch") /\ at[<<e, va>>] # NULL
     /\ \A t \in tlb[c] : t[1] # va
     /\ tlb' = [tlb EXCEPT ![c] = @ \cup
                  {<<va, at[<<e, va>>], writable[<<e, va>>]>>}]
     /\ UNCHANGED <<memVars, lost, ipcVars, curenv>>

Init ==
  /\ at = [x \in Places |-> NULL]
  /\ writable = [x \in Envs \X VAs |-> FALSE]
  /\ pp_ref = [p \in Pages |-> 0]
  /\ page_free_list = Pages
  /\ lost = [p \in Pages |-> 0]
  /\ env_ipc_recving = [e \in Envs |-> FALSE]
  /\ env_ipc_dstva = [e \in Envs |-> ZeroVA]
  /\ curenv = [c \in CPUs |-> NULL]
  /\ tlb = [c \in CPUs |-> {}]
  /\ crashed = FALSE

Next ==
  \/ \E e \in Envs : env_create(e)
  \/ \E c \in CPUs, e \in Envs, va \in VAs, w \in BOOLEAN :
       \/ sys_page_alloc(c, e, va, w)
       \/ \E f \in Envs, fva \in VAs : sys_page_map(c, e, va, f, fva, w)
  \/ \E c \in CPUs, e \in Envs, va \in VAs : sys_page_unmap(c, e, va)
  \/ \E c \in CPUs, va \in VAs \cup {NULL} : sys_ipc_recv(c, va)
  \/ \E c \in CPUs, e \in Envs, va \in VAs \cup {NULL}, w \in BOOLEAN :
       sys_ipc_try_send(c, e, va, w)
  \/ \E c \in CPUs, e \in Envs :
       sys_exofork(c, e) \/ env_free(c, e) \/ env_run(c, e)
  \/ \E c \in CPUs, va \in VAs : Touch(c, va)

Spec == Init /\ [][Next]_vars

-----------------------------------------------------------------------------
(* Properties. *)

(* Every variable keeps its type; in particular no count leaves the range  *)
(* of pp_ref.                                                              *)
TypeOK ==
  /\ at \in [Places -> Pages \cup {NULL}]
  /\ writable \in [Envs \X VAs -> BOOLEAN]
  /\ pp_ref \in [Pages -> 0 .. RefLimit - 1]
  /\ page_free_list \subseteq Pages
  /\ lost \in [Pages -> Nat]
  /\ env_ipc_recving \in [Envs -> BOOLEAN]
  /\ env_ipc_dstva \in [Envs -> VAs]
  /\ curenv \in [CPUs -> Envs \cup {NULL}]
  /\ tlb \in [CPUs -> SUBSET (VAs \X Pages \X BOOLEAN)]
  /\ crashed \in BOOLEAN

References(p) == {x \in Places : at[x] = p}

(* The count of a page is the number of entries that point to it, plus the *)
(* references env_free left behind below the directory entries it does not *)
(* visit, whatever calls succeeded, failed half-way or were repeated, and  *)
(* a page is on the free list exactly when the count is 0: no page is      *)
(* freed while mapped or freed twice, and none but those env_free skips is *)
(* lost (page_insert, page_remove, page_decref).                           *)
RefCountsExact ==
  ~crashed => \A p \in Pages :
    /\ pp_ref[p] = Cardinality(References(p)) + lost[p]
    /\ p \in page_free_list <=> pp_ref[p] = 0

(* A page used as a page table is pointed to by nothing else: no mapping   *)
(* call, page transfer or failed walk can put a table in user space or in  *)
(* two address spaces.                                                     *)
TablesPrivate ==
  ~crashed => \A x \in Places : at[x] # NULL /\ x[2] \notin VAs =>
    References(at[x]) = {x}

(* What a CPU has cached agrees with the page tables of the environment it *)
(* runs, although tables are changed by calls on other CPUs and only the   *)
(* local TLB is ever flushed.                                              *)
TlbCoherent ==
  ~crashed => \A c \in CPUs : curenv[c] # NULL =>
    \A t \in tlb[c] : /\ at[<<curenv[c], t[1]>>] = t[2]
                      /\ writable[<<curenv[c], t[1]>>] = t[3]

(* env_free "Frees env e and all memory it uses", its comment says: no     *)
(* reference stays counted after the address space it belonged to is gone. *)
NothingLost == \A p \in Pages : lost[p] = 0
=============================================================================
