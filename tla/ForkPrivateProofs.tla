------------------------- MODULE ForkPrivateProofs --------------------------
(***************************************************************************)
(* Copy-on-write fork gives every environment a memory of its own, for any *)
(* number of environments, pages and image pages: Fork implements          *)
(* PrivateMemory.                                                          *)
(***************************************************************************)
EXTENDS ForkProofs

(* A leaf is for Zenon, unless it names the SMT solver. *)
USE ZenonT(60)

(* The parent p has given its child all of its memory. *)
Given(p) ==
  \/ pc[p] \in AfterCopy
  \/ /\ pc[p] = "remap" /\ va[p] = Stack /\ at[child[p]][Stack] # None
     /\ ~(writable[p][Stack] /\ at[p][Stack] = at[child[p]][Stack])

(* HasMemory in these terms. *)
LEMMA HasMemoryGiven ==
  ASSUME NEW x \in Env
  PROVE  HasMemory(x) <=> \/ env_status[x] = "ENV_RUNNABLE"
                          \/ \E p \in Env : child[p] = x /\ Given(p)
  BY DEF HasMemory, Given, AfterCopy

(* The same of the next state. *)
LEMMA HasMemoryGivenNext ==
  ASSUME NEW x \in Env
  PROVE  HasMemory(x)' <=> \/ env_status'[x] = "ENV_RUNNABLE"
                           \/ \E p \in Env : child'[p] = x /\ Given(p)'
  BY DEF HasMemory, Given, AfterCopy

(* Who has memory has all of its pages, and its memory is a function.      *)
LEMMA MemoryIs ==
  ASSUME IInv, NEW x \in Env, HasMemory(x)
  PROVE  /\ \A a \in VA : at[x][a] \in Page
         /\ Memory(x) = [a \in VA |-> content[at[x][a]]]
         /\ Memory(x) # None
<1>1. \A a \in VA : at[x][a] # None
  <2>1. CASE env_status[x] = "ENV_RUNNABLE"
    BY <2>1 DEF IInv, MappedInv
  <2>2. CASE \E p \in Env : child[p] = x /\ Given(p)
    <3>1. PICK p \in Env : child[p] = x /\ Given(p)
      BY <2>2
    <3>2. pc[p] \in Copying /\ va[p] = Stack /\ pc[p] # "dup"
      BY <3>1 DEF Given, IInv, ControlInv, Copying, AfterCopy
    <3>3. ASSUME NEW a \in VA PROVE Passed(p, a)
      <4>1. a \in Nat /\ Stack \in Nat /\ a <= Stack
        BY Addresses, NextPage
      <4>2. a < Stack \/ a = Stack
        BY SMTT(60), <4>1
      <4> QED
        BY <3>2, <4>2 DEF Passed
    <3> QED
      BY <3>1, <3>2, <3>3 DEF IInv, CopiedInv
  <2> QED
    BY <2>1, <2>2, HasMemoryGiven
<1>2. \A a \in VA : at[x][a] \in Page
  BY SMTT(60), <1>1, Addresses DEF IInv, TypeOK
<1>3. Memory(x) = [a \in VA |-> content[at[x][a]]]
  BY DEF Memory
<1>4. Memory(x) \in [VA -> Value]
  BY SMTT(60), <1>2, <1>3 DEF IInv, TypeOK
<1>5. None \notin [VA -> Value]
  BY ForkAssumption DEF VA, Stack
<1> QED
  BY <1>2, <1>3, <1>4, <1>5

(* What an environment's memory is after a step, *)
LEMMA MemoryNext ==
  ASSUME NEW x \in Env
  PROVE  /\ HasMemory(x)' => Memory(x)' = [a \in VA |-> content'[at'[x][a]]]
         /\ ~HasMemory(x)' => Memory(x)' = None
         /\ ~HasMemory(x) => Memory(x) = None
         /\ HasMemory(x) => Memory(x) = [a \in VA |-> content[at[x][a]]]
  BY DEF Memory

(* and when it stays the same. *)
LEMMA MemoryKeeps ==
  ASSUME NEW x \in Env, HasMemory(x)' <=> HasMemory(x),
         HasMemory(x) => \A a \in VA : content'[at'[x][a]] = content[at[x][a]]
  PROVE  Memory(x)' = Memory(x)
  BY SMTT(60), MemoryNext

(* The parts of a state that decide who has memory. *)
LEMMA HasMemoryKeeps ==
  ASSUME env_status' = env_status, child' = child,
         \A p \in Env : child[p] \in Env => (Given(p)' <=> Given(p))
  PROVE  \A x \in Env : HasMemory(x)' <=> HasMemory(x)
  BY HasMemoryGiven, HasMemoryGivenNext

(* Steps that change no memory stutter, *)
LEMMA Stutters ==
  ASSUME \A x \in Env : Memory(x)' = Memory(x)
  PROVE  UNCHANGED [e \in Env |-> Memory(e)]
  OBVIOUS

(* the step that completes a copy is the abstract fork, *)
LEMMA IsFork ==
  ASSUME NEW p \in Env, NEW c \in Env, Memory(p) # None, Memory(c) = None,
         Memory(c)' = Memory(p), \A x \in Env : x # c => Memory(x)' = Memory(x)
  PROVE  Private!Next
<1>1. Private!Fork(p, c)
  BY DEF Private!Fork
<1> QED
  BY <1>1 DEF Private!Next

(* a store that does not fault is the abstract store, *)
LEMMA IsStore ==
  ASSUME NEW e \in Env, NEW a \in VA, NEW v \in Value, Memory(e) # None,
         Memory(e)' = [Memory(e) EXCEPT ![a] = v],
         \A x \in Env : x # e => Memory(x)' = Memory(x)
  PROVE  Private!Next
<1>1. Private!Store(e, a, v)
  BY DEF Private!Store
<1> QED
  BY <1>1 DEF Private!Next

(* and the end of an environment takes its memory, and that of the child   *)
(* it was forking.                                                         *)
LEMMA IsVanish ==
  ASSUME \A x \in Env : Memory(x)' = Memory(x) \/ Memory(x)' = None
  PROVE  Private!Next
<1> DEFINE gone == {x \in Env : Memory(x)' = None}
<1>1. Private!Vanish(gone)
  BY DEF Private!Vanish
<1>2. gone \in SUBSET Env
  OBVIOUS
<1> QED
  BY <1>1, <1>2 DEF Private!Next

(* Init. *)
LEMMA InitRefines == Init => Private!Init
<1> SUFFICES ASSUME Init PROVE Private!Init
  OBVIOUS
<1>1. \A x \in Env : child[x] = None /\ (env_status[x] = "ENV_RUNNABLE" <=> x = First)
  BY DEF Init
<1>2. \A x \in Env : HasMemory(x) <=> x = First
  BY <1>1, ForkAssumption, HasMemoryGiven
<1> DEFINE m == [a \in VA |-> 0]
<1>3. \A a \in VA : content[at[First][a]] = 0
  <2>1. VA \subseteq Page /\ VA \subseteq Area
    BY SMTT(60), ForkAssumption DEF VA, Stack, Page, Area, UXSTACK
  <2> QED
    BY <2>1, ForkAssumption DEF Init
<1>4. Memory(First) = m
  BY <1>2, <1>3, ForkAssumption DEF Memory
<1>5. \A x \in Env : x # First => Memory(x) = None
  BY <1>2 DEF Memory
<1>6. m \in [VA -> Value]
  BY ForkAssumption
<1> HIDE DEF m
<1>7. [e \in Env |-> Memory(e)] = [e \in Env |-> IF e = First THEN m ELSE None]
  BY <1>4, <1>5
<1> QED
  BY <1>6, <1>7, ForkAssumption DEF Private!Init

(* Steps of fork, faults and calls that change neither the mappings fork   *)
(* copies nor what is on them.                                             *)
LEMMA QuietRefines ==
  ASSUME IInv, UNCHANGED <<env_status, child, va>>,
         \A x \in Env, y \in VA :
           at'[x][y] = at[x][y] /\ (writable'[x][y] <=> writable[x][y]),
         \A x \in Env, y \in VA : at[x][y] \in Page => content'[at[x][y]] = content[at[x][y]],
         \A x \in Env : child[x] \in Env =>
           /\ pc'[x] \in AfterCopy <=> pc[x] \in AfterCopy
           /\ pc'[x] = "remap" <=> pc[x] = "remap"
  PROVE  UNCHANGED [e \in Env |-> Memory(e)]
<1>1. \A p \in Env : child[p] \in Env => (Given(p)' <=> Given(p))
  BY Addresses DEF Given
<1>2. \A x \in Env : HasMemory(x)' <=> HasMemory(x)
  BY <1>1, HasMemoryKeeps
<1>3. ASSUME NEW x \in Env PROVE Memory(x)' = Memory(x)
  <2>1. HasMemory(x) => \A a \in VA : content'[at'[x][a]] = content[at[x][a]]
    BY SMTT(60), MemoryIs
  <2> QED
    BY <1>2, <2>1, MemoryKeeps
<1> QED
  BY <1>3, Stutters

(* A new page at UTEMP or for an exception stack is in nobody's memory.    *)
LEMMA AllocQuiet ==
  ASSUME IInv, NEW e \in Env, NEW b \in {UTEMP, UXSTACK}, sys_page_alloc(e, b)
  PROVE  /\ \A x \in Env, y \in VA :
              at'[x][y] = at[x][y] /\ (writable'[x][y] <=> writable[x][y])
         /\ \A x \in Env, y \in VA :
              at[x][y] \in Page => content'[at[x][y]] = content[at[x][y]]
<1> DEFINE p == FirstFree
<1>1. p \in Page /\ \A x \in Env, y \in Area : at[x][y] # p
  BY FreePage DEF sys_page_alloc
<1>2. Insert(e, b, p, TRUE) /\ content' = [content EXCEPT ![p] = 0]
  BY DEF sys_page_alloc
<1> HIDE DEF p
<1>3. \A x \in Env, y \in Area : ~(x = e /\ y = b) =>
        at'[x][y] = at[x][y] /\ (writable'[x][y] <=> writable[x][y])
  <2>1. b \in Area /\ TypeOK
    BY Addresses DEF IInv
  <2> QED
    BY <1>1, <1>2, <2>1, InsertedWritable
<1> QED
  BY SMTT(60), <1>1, <1>2, <1>3, Addresses DEF IInv, TypeOK

(* What env_free takes is the memory of the environment and of the child   *)
(* of its unfinished fork.                                                 *)
LEMMA FreeRefines ==
  ASSUME IInv, NEW e \in Env, env_status[e] = "ENV_RUNNABLE", env_free(e)
  PROVE  Private!Next
<1>1. /\ env_status'[e] = "ENV_FREE" /\ child'[e] = None /\ content' = content
      /\ \A x \in Env : x # e =>
           /\ env_status'[x] = env_status[x] /\ pc'[x] = pc[x] /\ child'[x] = child[x]
           /\ va'[x] = va[x] /\ at'[x] = at[x] /\ writable'[x] = writable[x]
  BY DEF env_free, Goto, IInv, TypeOK
<1>2. None \notin Env
  BY ForkAssumption
<1>3. \A x \in Env : child[x] # e
  BY <1>2 DEF IInv, ControlInv
<1>4. \A p \in Env : p # e /\ child[p] \in Env => (Given(p)' <=> Given(p))
  BY SMTT(60), <1>1, <1>3 DEF Given
<1>5. ASSUME NEW x \in Env PROVE Memory(x)' = Memory(x) \/ Memory(x)' = None
  <2>1. CASE ~HasMemory(x)'
    BY <2>1, MemoryNext
  <2>2. CASE HasMemory(x)'
    <3>1. x # e
      BY SMTT(60), <1>1, <1>2, <1>3, <2>2, HasMemoryGivenNext
    <3>2. HasMemory(x)
      BY SMTT(60), <1>1, <1>2, <1>4, <2>2, <3>1, HasMemoryGiven, HasMemoryGivenNext
    <3> QED
      BY <1>1, <2>2, <3>1, <3>2, MemoryKeeps
  <2> QED
    BY <2>1, <2>2
<1> QED
  BY <1>5, IsVanish

(* A fault changes no memory, or ends the environment. *)
LEMMA FaultRefines ==
  ASSUME IInv, NEW e \in Env, Runs(e), NEW a, NEW v, page_fault_handler(e, a, v)
  PROVE  Private!Next \/ UNCHANGED [x \in Env |-> Memory(x)]
<1>1. CASE ~(env_pgfault_upcall[e] /\ at[e][UXSTACK] # None)
  BY <1>1, FreeRefines DEF page_fault_handler, Runs
<1>2. CASE env_pgfault_upcall[e] /\ at[e][UXSTACK] # None
  <2>1. UNCHANGED <<at, writable, content, env_status, pc, child, va>>
    BY <1>2 DEF page_fault_handler, mapping, control
  <2> QED
    BY <2>1, QuietRefines
<1> QED
  BY <1>1, <1>2

(* A store that does not fault is seen by nobody else: the only other      *)
(* mapping there can be of its page is the stack of a child that does not  *)
(* have its memory yet.                                                    *)
LEMMA WriteRefines ==
  ASSUME IInv, NEW e \in Env, Runs(e), NEW a \in VA, NEW v \in Value, writable[e][a],
         pc[e] \in Copying => a = Stack,
         content' = [content EXCEPT ![at[e][a]] = v],
         UNCHANGED <<mapping, env_status, control>>
  PROVE  Private!Next
<1> USE Addresses
<1>1. UNCHANGED <<at, writable, env_status, pc, child, va>>
  BY DEF mapping, control
<1>2. \A x \in Env : HasMemory(x)' <=> HasMemory(x)
  BY <1>1, HasMemoryKeeps DEF Given
<1>3. HasMemory(e) /\ \A x \in Env : child[x] # e
  <2>1. None \notin Env
    BY ForkAssumption
  <2> QED
    BY <2>1, HasMemoryGiven DEF Runs, IInv, ControlInv
<1>4. ASSUME NEW x \in Env, HasMemory(x), NEW b \in VA, at[x][b] = at[e][a], ~(x = e /\ b = a)
      PROVE  FALSE
  <2>1. BetweenCalls(e, a, x, b)
    BY <1>4 DEF IInv, ExclusiveInv
  <2>2. pc[e] = "remap" /\ x = child[e] /\ a = va[e] /\ b = a
    BY <2>1 DEF BetweenCalls, Runs
  <2>3. a = Stack /\ ~Given(e)
    BY <1>4, <2>2 DEF Given, Copying, AfterCopy
  <2>4. env_status[x] = "ENV_NOT_RUNNABLE" /\ \A p \in Env : child[p] = x => p = e
    <3>1. None \notin Env
      BY ForkAssumption
    <3> QED
      BY <2>2, <3>1 DEF IInv, ControlInv, Copying
  <2> QED
    BY <1>4, <2>3, <2>4, HasMemoryGiven
<1>5. ASSUME NEW x \in Env, x # e PROVE Memory(x)' = Memory(x)
  <2>1. ASSUME HasMemory(x), NEW b \in VA PROVE content'[at'[x][b]] = content[at[x][b]]
    <3>1. at[x][b] \in Page /\ at[x][b] # at[e][a]
      BY <1>4, <1>5, <2>1, MemoryIs
    <3> QED
      BY <1>1, <3>1 DEF IInv, TypeOK
  <2> QED
    BY <1>2, <2>1, MemoryKeeps
<1>6. Memory(e)' = [Memory(e) EXCEPT ![a] = v]
  <2>1. \A b \in VA : at[e][b] \in Page
    BY <1>3, MemoryIs
  <2>2. \A b \in VA : content'[at'[e][b]] = IF b = a THEN v ELSE content[at[e][b]]
    BY <1>1, <1>3, <1>4, <2>1 DEF IInv, TypeOK
  <2> QED
    BY SMTT(60), <1>2, <1>3, <2>2, MemoryNext
<1> QED
  BY <1>3, <1>5, <1>6, MemoryIs, IsStore

(* pgfault replaces a shared page by an equal one: no memory changes. *)
LEMMA PgfaultRefines ==
  ASSUME IInv, NEW e \in Env, pgfault(e)
  PROVE  UNCHANGED [x \in Env |-> Memory(x)]
<1> USE Addresses
<1>1. CASE pgfault_alloc(e)
  <2>1. UNCHANGED <<env_status, pc, child, va>> /\ sys_page_alloc(e, UTEMP)
    BY <1>1 DEF pgfault_alloc, Handles, control
  <2> QED
    BY <2>1, AllocQuiet, QuietRefines
<1>2. CASE pgfault_copy(e)
  <2>1. /\ UNCHANGED <<at, writable, env_status, pc, child, va>> /\ fault[e] = "copy"
        /\ content' = [content EXCEPT ![at[e][UTEMP]] = content[at[e][store[e][1]]]]
    BY <1>2 DEF pgfault_copy, Handles, control, mapping
  <2>2. \A x \in Env, y \in VA : at[x][y] # at[e][UTEMP]
    BY <2>1, TempPrivate
  <2>3. \A x \in Env, y \in VA : at[x][y] \in Page => content'[at[x][y]] = content[at[x][y]]
    BY <2>1, <2>2 DEF IInv, TypeOK
  <2> QED
    BY <2>1, <2>3, QuietRefines
<1>3. CASE pgfault_map(e)
  <2> DEFINE t == at[e][UTEMP]
             s == store[e][1]
  <2>1. /\ UNCHANGED <<content, env_status, pc, child, va>> /\ fault[e] = "map"
        /\ Insert(e, s, t, TRUE)
    BY <1>3 DEF pgfault_map, Handles, control, sys_page_map
  <2>2. /\ t \in Page /\ \A x \in Env, y \in Area : at[x][y] = t => x = e /\ y = UTEMP
        /\ s \in VA /\ env_status[e] = "ENV_RUNNABLE" /\ \A x \in Env : child[x] # e
    BY <2>1, TempPrivate, Faulting
  <2>3. content[t] = content[at[e][s]] /\ ~writable[e][s]
    BY <2>1 DEF IInv, CopyInv, CopyOk
  <2> HIDE DEF t, s
  <2>4. /\ at'[e][s] = t /\ writable'[e][s]
        /\ \A x \in Env, y \in Area : ~(x = e /\ y = s) =>
             at'[x][y] = at[x][y] /\ (writable'[x][y] <=> writable[x][y])
    <3>1. s \in Area /\ t \in Page /\ TypeOK /\ Insert(e, s, t, TRUE)
      BY <2>1, <2>2 DEF IInv
    <3> HIDE Addresses
    <3> QED
      BY <3>1, InsertedWritable
  <2>5. ASSUME NEW p \in Env, child[p] \in Env PROVE Given(p)' <=> Given(p)
    <3>1. child[p] # e /\ at'[child[p]][Stack] = at[child[p]][Stack]
      BY <2>2, <2>4, <2>5
    <3>2. CASE ~(p = e /\ s = Stack)
      <4>1. at'[p][Stack] = at[p][Stack] /\ (writable'[p][Stack] <=> writable[p][Stack])
        BY <2>4, <3>2
      <4> QED
        BY <2>1, <3>1, <4>1 DEF Given
    <3>3. CASE p = e /\ s = Stack
      <4>1. at[child[p]][Stack] # t
        BY <2>2, <2>5, <3>1
      <4> QED
        BY <2>1, <2>3, <2>4, <3>1, <3>3, <4>1 DEF Given
    <3> QED
      BY <3>2, <3>3
  <2>6. \A x \in Env : HasMemory(x)' <=> HasMemory(x)
    BY <2>1, <2>5, HasMemoryKeeps
  <2>7. \A x \in Env, y \in VA : content'[at'[x][y]] = content[at[x][y]]
    BY <2>1, <2>3, <2>4
  <2>8. \A x \in Env : Memory(x)' = Memory(x)
    BY <2>6, <2>7, MemoryKeeps
  <2> QED
    BY <2>8, Stutters
<1>4. CASE pgfault_unmap(e)
  <2>1. /\ UNCHANGED <<content, env_status, pc, child, va>>
        /\ Insert(e, UTEMP, None, FALSE)
    BY <1>4 DEF pgfault_unmap, Handles, control, sys_page_unmap
  <2>2. \A x \in Env, y \in Area : ~(x = e /\ y = UTEMP) =>
          at'[x][y] = at[x][y] /\ (writable'[x][y] <=> writable[x][y])
    BY <2>1, InsertedReadOnly DEF IInv
  <2> QED
    BY <2>1, <2>2, QuietRefines
<1> QED
  BY <1>1, <1>2, <1>3, <1>4 DEF pgfault

(* Before and after the copy, fork changes no memory. *)
LEMMA CallsRefine ==
  ASSUME IInv, NEW e \in Env,
         \/ CallFork(e) \/ ExceptionStack(e) \/ sys_env_set_pgfault_upcall(e)
         \/ sys_copy_shared_pages(e) \/ ChildStack(e)
  PROVE  UNCHANGED [x \in Env |-> Memory(x)]
<1> USE Addresses
<1>1. ASSUME NEW step, NEW next, At(e, step), Goto(e, next),
             step \notin {"dup", "remap"}, next # "remap",
             step \in AfterCopy <=> next \in AfterCopy
      PROVE  \A x \in Env : /\ pc'[x] \in AfterCopy <=> pc[x] \in AfterCopy
                            /\ pc'[x] = "remap" <=> pc[x] = "remap"
  BY <1>1 DEF At, Goto, IInv, TypeOK
<1>2. CASE CallFork(e)
  <2>1. \A x \in Env : /\ pc'[x] \in AfterCopy <=> pc[x] \in AfterCopy
                       /\ pc'[x] = "remap" <=> pc[x] = "remap"
    BY <1>1, <1>2 DEF CallFork, AfterCopy
  <2>2. UNCHANGED <<at, writable, content, env_status, child, va>>
    BY <1>2 DEF CallFork, mapping
  <2> QED
    BY <2>1, <2>2, QuietRefines
<1>3. CASE ExceptionStack(e)
  <2>1. \A x \in Env : /\ pc'[x] \in AfterCopy <=> pc[x] \in AfterCopy
                       /\ pc'[x] = "remap" <=> pc[x] = "remap"
    BY <1>1, <1>3 DEF ExceptionStack, AfterCopy
  <2>2. UNCHANGED <<env_status, child, va>> /\ sys_page_alloc(e, UXSTACK)
    BY <1>3 DEF ExceptionStack
  <2> QED
    BY <2>1, <2>2, AllocQuiet, QuietRefines
<1>4. CASE sys_env_set_pgfault_upcall(e)
  <2>1. \A x \in Env : /\ pc'[x] \in AfterCopy <=> pc[x] \in AfterCopy
                       /\ pc'[x] = "remap" <=> pc[x] = "remap"
    BY <1>1, <1>4 DEF sys_env_set_pgfault_upcall, AfterCopy
  <2>2. UNCHANGED <<at, writable, content, env_status, child, va>>
    BY <1>4 DEF sys_env_set_pgfault_upcall, mapping
  <2> QED
    BY <2>1, <2>2, QuietRefines
<1>5. CASE sys_copy_shared_pages(e)
  <2>1. \A x \in Env : /\ pc'[x] \in AfterCopy <=> pc[x] \in AfterCopy
                       /\ pc'[x] = "remap" <=> pc[x] = "remap"
    BY <1>1, <1>5 DEF sys_copy_shared_pages, AfterCopy
  <2>2. UNCHANGED <<at, writable, content, env_status, child, va>>
    BY <1>5 DEF sys_copy_shared_pages, mapping
  <2> QED
    BY <2>1, <2>2, QuietRefines
<1>6. CASE ChildStack(e)
  <2>1. \A x \in Env : /\ pc'[x] \in AfterCopy <=> pc[x] \in AfterCopy
                       /\ pc'[x] = "remap" <=> pc[x] = "remap"
    BY <1>1, <1>6 DEF ChildStack, AfterCopy
  <2>2. UNCHANGED <<env_status, child, va>> /\ sys_page_alloc(child[e], UXSTACK)
    BY <1>6 DEF ChildStack
  <2>3. child[e] \in Env
    BY <1>6, Copies DEF ChildStack, Copying
  <2> QED
    BY <2>1, <2>2, <2>3, AllocQuiet, QuietRefines
<1> QED
  BY <1>2, <1>3, <1>4, <1>5, <1>6

(* The store of _pgfault_handler. *)
LEMMA SetHandlerRefines ==
  ASSUME IInv, NEW e \in Env, SetHandler(e)
  PROVE  Private!Next \/ UNCHANGED [x \in Env |-> Memory(x)]
<1>1. CASE ~writable[e][NIMAGE]
  BY <1>1, FaultRefines DEF SetHandler, At
<1>2. CASE writable[e][NIMAGE]
  <2>1. UNCHANGED <<at, writable, content, env_status, child, va>>
    BY <1>2 DEF SetHandler, mapping
  <2>2. \A x \in Env : /\ pc'[x] \in AfterCopy <=> pc[x] \in AfterCopy
                       /\ pc'[x] = "remap" <=> pc[x] = "remap"
    BY <1>2 DEF SetHandler, At, Goto, AfterCopy, IInv, TypeOK
  <2> QED
    BY <2>1, <2>2, QuietRefines
<1> QED
  BY <1>1, <1>2

(* A new child has no memory yet, *)
LEMMA ExoforkRefines ==
  ASSUME IInv, NEW e \in Env, NEW c \in Env, sys_exofork(e, c)
  PROVE  UNCHANGED [x \in Env |-> Memory(x)]
<1>1. /\ At(e, "exofork") /\ env_status[c] = "ENV_FREE"
      /\ UNCHANGED <<at, writable, content>>
  BY DEF sys_exofork, mapping
<1>2. pc[e] = "exofork" /\ env_status[e] = "ENV_RUNNABLE" /\ None \notin Env
  BY <1>1, Forking, ForkAssumption
<1>3. /\ env_status'[c] = "ENV_NOT_RUNNABLE" /\ pc'[e] = "dup" /\ child'[e] = c
      /\ \A x \in Env : x # c => env_status'[x] = env_status[x]
      /\ \A x \in Env : x # e => pc'[x] = pc[x] /\ child'[x] = child[x] /\ va'[x] = va[x]
  BY DEF sys_exofork, Goto, IInv, TypeOK
<1>4. child[e] = None /\ \A x \in Env : child[x] # c
  BY <1>1, <1>2 DEF IInv, ControlInv, Copying
<1>5. ~Given(e)' /\ \A p \in Env : p # e => (Given(p)' <=> Given(p))
  BY <1>1, <1>3 DEF Given, AfterCopy
<1>6. ASSUME NEW x \in Env PROVE HasMemory(x)' <=> HasMemory(x)
  <2>1. (env_status'[x] = "ENV_RUNNABLE") <=> (env_status[x] = "ENV_RUNNABLE")
    BY <1>1, <1>3
  <2>2. (\E p \in Env : child'[p] = x /\ Given(p)') <=> (\E p \in Env : child[p] = x /\ Given(p))
    BY <1>2, <1>3, <1>4, <1>5
  <2> QED
    BY <2>1, <2>2, HasMemoryGiven, HasMemoryGivenNext
<1>7. \A x \in Env : Memory(x)' = Memory(x)
  BY <1>1, <1>6, MemoryKeeps
<1> QED
  BY <1>7, Stutters

(* and it has it already when it becomes runnable. *)
LEMMA SetStatusRefines ==
  ASSUME IInv, NEW e \in Env, sys_env_set_status(e)
  PROVE  UNCHANGED [x \in Env |-> Memory(x)]
<1> DEFINE c == child[e]
<1>1. At(e, "status") /\ UNCHANGED <<at, writable, content>>
  BY DEF sys_env_set_status, mapping
<1>2. pc[e] = "status" /\ c \in Env /\ c # e /\ None \notin Env
      /\ \A x \in Env : x # e => child[x] # c
  BY SMTT(60), <1>1, Forking, Copies, ForkAssumption DEF Copying
<1>3. /\ env_status'[c] = "ENV_RUNNABLE" /\ child'[e] = None
      /\ \A x \in Env : x # c => env_status'[x] = env_status[x]
      /\ \A x \in Env : x # e => pc'[x] = pc[x] /\ child'[x] = child[x] /\ va'[x] = va[x]
  BY <1>2 DEF sys_env_set_status, Goto, IInv, TypeOK
<1>4. child[e] = c
  OBVIOUS
<1> HIDE DEF c
<1>5. Given(e) /\ \A p \in Env : p # e => (Given(p)' <=> Given(p))
  BY <1>1, <1>2, <1>3 DEF Given, AfterCopy
<1>6. ASSUME NEW x \in Env PROVE HasMemory(x)' <=> HasMemory(x)
  <2>1. CASE x = c
    BY <1>3, <1>4, <1>5, <2>1, HasMemoryGiven, HasMemoryGivenNext
  <2>2. CASE x # c
    <3>1. (\E p \in Env : child'[p] = x /\ Given(p)') <=> (\E p \in Env : child[p] = x /\ Given(p))
      BY <1>2, <1>3, <1>4, <1>5, <2>2
    <3> QED
      BY <1>3, <2>2, <3>1, HasMemoryGiven, HasMemoryGivenNext
  <2> QED
    BY <2>1, <2>2
<1>7. \A x \in Env : Memory(x)' = Memory(x)
  BY <1>1, <1>6, MemoryKeeps
<1> QED
  BY <1>7, Stutters

(* duppage's first call gives the child the last page, and with it its     *)
(* memory, if the parent's stack is copy-on-write already.                 *)
LEMMA DupRefines ==
  ASSUME IInv, IInv', NEW e \in Env, At(e, "dup"), Goto(e, "remap"),
         sys_page_map(e, va[e], child[e], va[e], FALSE),
         UNCHANGED <<va, env_status, env_pgfault_upcall, handler, child, trap>>
  PROVE  Private!Next \/ UNCHANGED [x \in Env |-> Memory(x)]
<1> USE Addresses
<1>0. PICK c \in Env : c = child[e]
  BY Copies DEF Copying
<1> DEFINE a == va[e]
           p == at[e][va[e]]
<1>1. pc[e] = "dup" /\ env_status[e] = "ENV_RUNNABLE" /\ None \notin Env
  BY Forking, ForkAssumption
<1>2. /\ c \in Env /\ c # e /\ env_status[c] = "ENV_NOT_RUNNABLE"
      /\ (\A x \in Env : x # e => child[x] # c)
      /\ a \in VA /\ p \in Page /\ child[c] \notin Env
  <2>1. /\ c \in Env /\ c # e /\ env_status[c] = "ENV_NOT_RUNNABLE" /\ pc[c] = "user"
        /\ (\A x \in Env : x # e => child[x] # c) /\ a \in VA /\ p \in Page
    BY <1>0, Copies DEF Copying
  <2>2. child[c] = None
    BY <2>1 DEF IInv, ControlInv, Copying
  <2> QED
    BY <1>1, <2>1, <2>2
<1>3. Insert(c, a, p, FALSE) /\ content' = content
  BY <1>0 DEF sys_page_map
<1>4. pc'[e] = "remap" /\ \A x \in Env : x # e => pc'[x] = pc[x]
  BY SMTT(60) DEF Goto, IInv, TypeOK
<1>5. child[e] = c /\ va[e] = a /\ at[e][a] = p
  BY <1>0
<1> HIDE DEF a, p
<1>6. /\ at'[c][a] = p
      /\ \A x \in Env, y \in Area : ~(x = c /\ y = a) =>
           at'[x][y] = at[x][y] /\ (writable'[x][y] <=> writable[x][y])
  <2>1. a \in Area /\ TypeOK
    BY <1>2 DEF IInv
  <2> QED
    BY <1>2, <1>3, <2>1, InsertedReadOnly
<1>7. ~Given(e) /\ (Given(e)' <=> a = Stack /\ ~writable[e][Stack])
  <2>1. ~Given(e)
    BY <1>1 DEF Given, AfterCopy
  <2>2. CASE a # Stack
    BY <1>4, <1>5, <2>1, <2>2 DEF Given, AfterCopy
  <2>3. CASE a = Stack
    <3>1. /\ at'[c][Stack] = p /\ at'[e][Stack] = p
          /\ (writable'[e][Stack] <=> writable[e][Stack]) /\ p # None
      BY <1>2, <1>5, <1>6, <2>3
    <3> QED
      BY <1>4, <1>5, <2>1, <2>3, <3>1 DEF Given, AfterCopy
  <2> QED
    BY <2>1, <2>2, <2>3
<1>8. \A x \in Env : x # e /\ child[x] \in Env => (Given(x)' <=> Given(x))
  <2> SUFFICES ASSUME NEW x \in Env, x # e, child[x] \in Env PROVE Given(x)' <=> Given(x)
    OBVIOUS
  <2>1. x # c /\ child[x] # c
    BY <1>2
  <2>2. /\ at'[x][Stack] = at[x][Stack] /\ (writable'[x][Stack] <=> writable[x][Stack])
        /\ at'[child[x]][Stack] = at[child[x]][Stack]
    BY <1>6, <2>1
  <2> QED
    BY <1>4, <2>2 DEF Given
<1>9. ~HasMemory(c)
  BY <1>2, <1>7, HasMemoryGiven
<1>10. ASSUME NEW x \in Env, x # c PROVE Memory(x)' = Memory(x)
  <2>1. HasMemory(x)' <=> HasMemory(x)
    <3>1. HasMemory(x) <=> \/ env_status[x] = "ENV_RUNNABLE"
                           \/ \E f \in Env : child[f] = x /\ Given(f)
      BY HasMemoryGiven
    <3>2. HasMemory(x)' <=> \/ env_status[x] = "ENV_RUNNABLE"
                            \/ \E f \in Env : child[f] = x /\ Given(f)'
      <4>1. env_status' = env_status /\ child' = child
        OBVIOUS
      <4>2. HasMemory(x)' <=> \/ env_status'[x] = "ENV_RUNNABLE"
                              \/ \E f \in Env : child'[f] = x /\ Given(f)'
        BY HasMemoryGivenNext
      <4> QED
        BY <4>1, <4>2
    <3>3. \A f \in Env : child[f] = x => (Given(f)' <=> Given(f))
      BY <1>5, <1>8, <1>10
    <3> QED
      BY <3>1, <3>2, <3>3
  <2>2. \A y \in VA : content'[at'[x][y]] = content[at[x][y]]
    BY <1>3, <1>6, <1>10
  <2> QED
    BY <2>1, <2>2, MemoryKeeps
<1>11. CASE ~Given(e)'
  <2>1. ~HasMemory(c)'
    BY <1>2, <1>11, HasMemoryGivenNext
  <2>2. Memory(c)' = Memory(c)
    BY <1>2, <1>9, <2>1, MemoryNext
  <2> QED
    BY <1>10, <2>2, Stutters
<1>12. CASE Given(e)'
  <2>1. HasMemory(c)' /\ HasMemory(e)
    BY <1>1, <1>2, <1>5, <1>12, HasMemoryGiven, HasMemoryGivenNext
  <2>2. ASSUME NEW y \in VA PROVE at'[c][y] = at[e][y]
    <3>1. CASE y = Stack
      BY <1>5, <1>6, <1>7, <1>12, <3>1
    <3>2. CASE y # Stack
      <4>1. y \in Nat /\ Stack \in Nat /\ y <= Stack
        BY NextPage
      <4>2. Passed(e, y)'
        BY SMTT(60), <1>5, <1>7, <1>12, <3>2, <4>1 DEF Passed
      <4>3. at'[c][y] = at'[e][y]
        <5>1. CopiedInv'
          BY DEF IInv
        <5>2. pc'[e] \in Copying /\ child'[e] = c
          BY <1>4, <1>5 DEF Copying
        <5>3. \A z \in VA \ {Stack} : Passed(e, z)' => at'[child'[e]][z] = at'[e][z]
          BY <5>1, <5>2 DEF CopiedInv
        <5> QED
          BY <3>2, <4>2, <5>2, <5>3
      <4> QED
        BY <1>2, <1>6, <4>3
    <3> QED
      BY <3>1, <3>2
  <2>3. Memory(c)' = Memory(e)
    <3>1. Memory(c)' = [y \in VA |-> content'[at'[c][y]]]
      BY <1>2, <2>1, MemoryNext
    <3>2. Memory(e) = [y \in VA |-> content[at[e][y]]]
      BY <2>1, MemoryNext
    <3> QED
      BY <1>3, <2>2, <3>1, <3>2
  <2>4. Memory(e) # None /\ Memory(c) = None
    BY <1>2, <1>9, <2>1, MemoryIs, MemoryNext
  <2> QED
    BY <1>2, <1>10, <2>3, <2>4, IsFork
<1> QED
  BY <1>11, <1>12

(* duppage's second call, for the stack, does so otherwise. *)
LEMMA RemapRefines ==
  ASSUME IInv, NEW e \in Env, At(e, "remap"),
         Goto(e, IF va[e] = Stack THEN "share" ELSE "dup"),
         sys_page_map(e, va[e], e, va[e], FALSE),
         va' = [va EXCEPT ![e] = IF @ = Stack THEN @ ELSE @ + 1],
         UNCHANGED <<env_status, env_pgfault_upcall, handler, child, trap>>
  PROVE  Private!Next \/ UNCHANGED [x \in Env |-> Memory(x)]
<1> USE Addresses
<1>0. PICK c \in Env : c = child[e]
  BY Copies DEF Copying
<1> DEFINE a == va[e]
           p == at[e][va[e]]
<1>1. pc[e] = "remap" /\ env_status[e] = "ENV_RUNNABLE"
  BY Forking
<1>2. /\ c \in Env /\ c # e /\ env_status[c] = "ENV_NOT_RUNNABLE"
      /\ (\A x \in Env : x # e => child[x] # c) /\ a \in VA /\ p \in Page
  BY <1>0, Copies DEF Copying
<1>3. Insert(e, a, p, FALSE) /\ content' = content
  BY <1>0 DEF sys_page_map
<1>4. /\ pc'[e] = IF a = Stack THEN "share" ELSE "dup"
      /\ \A x \in Env : x # e => pc'[x] = pc[x] /\ va'[x] = va[x]
  BY DEF Goto, IInv, TypeOK
<1>5. child[e] = c /\ va[e] = a /\ at[e][a] = p
  BY <1>0
<1> HIDE DEF a, p
<1>6. /\ \A x \in Env, y \in Area : at'[x][y] = at[x][y]
      /\ \A x \in Env, y \in Area : x # e => (writable'[x][y] <=> writable[x][y])
  <2>1. a \in Area /\ TypeOK
    BY <1>2 DEF IInv
  <2>2. /\ at'[e][a] = p
        /\ \A x \in Env, y \in Area : ~(x = e /\ y = a) =>
             at'[x][y] = at[x][y] /\ (writable'[x][y] <=> writable[x][y])
    BY <1>2, <1>3, <2>1, InsertedReadOnly
  <2> QED
    BY <1>5, <2>2
<1>7. \A x \in Env : x # e /\ child[x] \in Env => (Given(x)' <=> Given(x))
  BY SMTT(60), <1>4, <1>6 DEF Given
<1>8. Given(e)' <=> a = Stack
  BY <1>4 DEF Given, AfterCopy
<1>9. ASSUME NEW x \in Env, x # c PROVE Memory(x)' = Memory(x)
  <2>1. HasMemory(x)' <=> HasMemory(x)
    BY <1>5, <1>7, <1>9, HasMemoryGiven, HasMemoryGivenNext
  <2>2. \A y \in VA : content'[at'[x][y]] = content[at[x][y]]
    BY <1>3, <1>6
  <2> QED
    BY <2>1, <2>2, MemoryKeeps
<1>10. CASE Given(e)' <=> Given(e)
  <2>1. HasMemory(c)' <=> HasMemory(c)
    BY <1>2, <1>5, <1>10, HasMemoryGiven, HasMemoryGivenNext
  <2>2. Memory(c)' = Memory(c)
    BY <1>2, <1>3, <1>6, <2>1, MemoryKeeps
  <2> QED
    BY <1>9, <2>2, Stutters
<1>11. CASE ~(Given(e)' <=> Given(e))
  <2>1. a = Stack /\ ~Given(e)
    BY <1>1, <1>5, <1>8, <1>11 DEF Given, AfterCopy
  <2>2. ASSUME NEW y \in VA PROVE at[c][y] # None /\ (y # Stack => at[c][y] = at[e][y])
    <3>1. y \in Nat /\ Stack \in Nat /\ y <= Stack
      BY NextPage
    <3>2. y < Stack \/ y = Stack
      BY SMTT(60), <3>1
    <3>3. Passed(e, y)
      BY <1>1, <1>5, <2>1, <3>2 DEF Passed
    <3> QED
      BY <1>1, <1>5, <3>3 DEF IInv, CopiedInv, Copying
  <2>3. at[c][Stack] = at[e][Stack]
    BY <1>1, <1>5, <2>1, <2>2 DEF Given
  <2>4. \A y \in VA : at'[c][y] = at[e][y]
    BY SMTT(60), <1>2, <1>6, <2>2, <2>3
  <2>5. HasMemory(c)' /\ ~HasMemory(c) /\ HasMemory(e)
    BY <1>1, <1>2, <1>5, <1>8, <2>1, HasMemoryGiven, HasMemoryGivenNext
  <2>6. Memory(c)' = Memory(e)
    BY SMTT(60), <1>2, <1>3, <2>4, <2>5, MemoryNext
  <2>7. Memory(e) # None /\ Memory(c) = None
    BY <1>2, <2>5, MemoryIs, MemoryNext
  <2> QED
    BY <1>2, <1>9, <2>6, <2>7, IsFork
<1> QED
  BY <1>10, <1>11

(* A store of user code, new or again after its fault. *)
LEMMA StoreRefines ==
  ASSUME IInv, NEW e \in Env, NEW a \in VA, NEW v \in Value, Store(e, a, v)
  PROVE  Private!Next \/ UNCHANGED [x \in Env |-> Memory(x)]
<1>1. pc[e] \in Copying => a = Stack
  <2>1. CASE store[e] = None
    BY <2>1 DEF Store, StoresAt, Copying
  <2>2. CASE store[e] # None
    <3>1. store[e][1] = a
      BY SMTT(60), <2>2 DEF Store
    <3> QED
      BY <2>2, <3>1 DEF IInv, ControlInv
  <2> QED
    BY <2>1, <2>2
<1>2. CASE writable[e][a]
  BY <1>1, <1>2, WriteRefines DEF Store
<1>3. CASE ~writable[e][a]
  BY <1>3, FaultRefines DEF Store
<1> QED
  BY <1>2, <1>3

(* Every step is a step of PrivateMemory or changes no memory. *)
LEMMA StepRefines ==
  ASSUME IInv, IInv', [Next]_vars
  PROVE  [Private!Next]_[e \in Env |-> Memory(e)]
<1> DEFINE Goal == Private!Next \/ UNCHANGED [x \in Env |-> Memory(x)]
<1>1. ASSUME NEW e \in Env, NEW a \in VA, NEW v \in Value, Store(e, a, v) PROVE Goal
  BY <1>1, StoreRefines
<1>2. ASSUME NEW e \in Env, Retry(e) PROVE Goal
  <2>1. store[e] \in VA \X Value
    BY <1>2 DEF Retry, IInv, TypeOK
  <2>2. store[e][1] \in VA /\ store[e][2] \in Value
    BY <2>1
  <2> QED
    BY <1>2, <2>2, StoreRefines DEF Retry
<1>3. ASSUME NEW e \in Env, pgfault(e) PROVE Goal
  BY <1>3, PgfaultRefines
<1>4. ASSUME NEW e \in Env,
             \/ CallFork(e) \/ ExceptionStack(e) \/ sys_env_set_pgfault_upcall(e)
             \/ sys_copy_shared_pages(e) \/ ChildStack(e)
      PROVE  Goal
  BY <1>4, CallsRefine
<1>5. ASSUME NEW e \in Env, SetHandler(e) PROVE Goal
  BY <1>5, SetHandlerRefines
<1>6. ASSUME NEW e \in Env, NEW c \in Env, sys_exofork(e, c) PROVE Goal
  BY <1>6, ExoforkRefines
<1>7. ASSUME NEW e \in Env, duppage(e) PROVE Goal
  BY <1>7, DupRefines, RemapRefines DEF duppage
<1>8. ASSUME NEW e \in Env, sys_env_set_status(e) PROVE Goal
  BY <1>8, SetStatusRefines
<1>9. ASSUME NEW e \in Env, env_destroy(e) PROVE Goal
  BY <1>9, FreeRefines DEF env_destroy
<1>10. CASE UNCHANGED vars
  <2>1. UNCHANGED <<at, writable, content, env_status, pc, child, va>>
    BY <1>10 DEF vars, mapping, control
  <2> QED
    BY <2>1, QuietRefines
<1>11. Goal
  BY <1>1, <1>2, <1>3, <1>4, <1>5, <1>6, <1>7, <1>8, <1>9, <1>10 DEF Next, Continue
<1> QED
  BY <1>11

(* Copy-on-write fork implements PrivateMemory: the child's memory is the  *)
(* parent's at one moment, and from then on no store of one is ever seen   *)
(* by another, for any number of environments, pages and image pages       *)
(* (fork, duppage, pgfault).                                               *)
THEOREM ForkIsPrivate == Spec => IsPrivate
<1>1. IInv /\ IInv' /\ [Next]_vars => [Private!Next]_[e \in Env |-> Memory(e)]
  BY StepRefines
<1> QED
  BY <1>1, InitRefines, InvariantHolds, PTL DEF Spec, IsPrivate, Private!Spec
=============================================================================
