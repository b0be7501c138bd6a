----------------------------- MODULE ForkProofs -----------------------------
(***************************************************************************)
(* Proofs about Fork, for any number of environments, pages and image      *)
(* pages: stores, faults, the steps of fork and the end of an environment  *)
(* keep the invariant; so whoever shares a page can handle the fault of a  *)
(* store to it.                                                            *)
(***************************************************************************)
EXTENDS Fork, TLAPS

(* A leaf is for Zenon, unless it names the SMT solver. *)
USE ZenonT(60)

Copying == {"dup", "remap", "share", "childstack", "status"}
AfterCopy == {"share", "childstack", "status"}

(***************************************************************************)
(* Who is where: only a runnable environment is in fork or in pgfault; the *)
(* child of a fork under way has one parent and does not run.              *)
(***************************************************************************)
ControlInv ==
  /\ \A e \in Env : env_status[e] # "ENV_RUNNABLE" =>
       pc[e] = "user" /\ fault[e] = "none" /\ store[e] = None
  /\ \A e \in Env : IF pc[e] \in Copying
       THEN child[e] \in Env /\ env_status[child[e]] = "ENV_NOT_RUNNABLE"
       ELSE child[e] = None
  /\ \A e, f \in Env : child[e] = child[f] /\ child[e] # None => e = f
  /\ \A e \in Env : pc[e] \in AfterCopy => va[e] = Stack
  /\ \A e \in Env : fault[e] # "none" => store[e] # None
  /\ \A e \in Env : pc[e] \in Copying /\ store[e] # None => store[e][1] = Stack

(***************************************************************************)
(* What is mapped: all of a runnable environment, of a child what the loop *)
(* of fork has passed, and UTEMP only inside pgfault.                      *)
(***************************************************************************)
MappedInv ==
  /\ \A e \in Env : env_status[e] = "ENV_RUNNABLE" => \A a \in VA : at[e][a] # None
  /\ \A e \in Env : env_status[e] = "ENV_FREE" => \A a \in Area : at[e][a] = None
  /\ \A e \in Env : env_status[e] = "ENV_NOT_RUNNABLE" => \A a \in VA : ~writable[e][a]
  /\ \A e \in Env : IF fault[e] \in {"copy", "map", "unmap"}
       THEN at[e][UTEMP] # None /\ writable[e][UTEMP]
       ELSE at[e][UTEMP] = None

(***************************************************************************)
(* The image pages the loop has passed are the same in parent and child,   *)
(* and so is the page it is at; the stack may have been copied since.      *)
(***************************************************************************)
Passed(e, a) ==
  \/ a < va[e]
  \/ (a = va[e] /\ pc[e] # "dup")

CopiedInv ==
  \A e \in Env : pc[e] \in Copying =>
    /\ \A a \in VA : Passed(e, a) => at[child[e]][a] # None
    /\ \A a \in VA \ {Stack} : Passed(e, a) => at[child[e]][a] = at[e][a]

(***************************************************************************)
(* A writable page is mapped once, except while duppage is between its two *)
(* calls or pgfault between its last two.                                  *)
(***************************************************************************)
BetweenCalls(e, a, f, b) ==
  \/ pc[e] = "remap" /\ f = child[e] /\ a = va[e] /\ b = a
  \/ /\ f = e /\ fault[e] = "unmap"
     /\ {a, b} = {UTEMP, store[e][1]}

ExclusiveInv ==
  \A e, f \in Env, a, b \in Area :
    writable[e][a] /\ at[f][b] = at[e][a] =>
      (e = f /\ a = b) \/ BetweenCalls(e, a, f, b)

(***************************************************************************)
(* pgfault works on a page that stays read-only, so its copy stays equal.  *)
(***************************************************************************)
CopyOk(e) ==
  /\ fault[e] \in {"alloc", "copy", "map"} => ~writable[e][store[e][1]]
  /\ fault[e] = "map" => content[at[e][UTEMP]] = content[at[e][store[e][1]]]
  /\ fault[e] = "unmap" => at[e][store[e][1]] = at[e][UTEMP]

CopyInv == \A e \in Env : fault[e] # "none" => CopyOk(e)

(***************************************************************************)
(* Only an environment whose handler is installed shares pages.            *)
(***************************************************************************)
Ready(e) == env_pgfault_upcall[e] /\ writable[e][UXSTACK]

HandlerOk(e) ==
  /\ env_status[e] = "ENV_RUNNABLE" =>
       /\ handler[e] => Ready(e)
       /\ (\E a \in VA : ~writable[e][a]) => handler[e]
       /\ pc[e] = "upcall" => writable[e][UXSTACK]
       /\ pc[e] = "handler" => Ready(e)
       /\ pc[e] \in Copying \cup {"exofork"} => handler[e]
  /\ pc[e] \in Copying => handler[child[e]] /\ env_pgfault_upcall[child[e]]
  /\ pc[e] = "status" => writable[child[e]][UXSTACK]

HandlerInv == \A e \in Env : HandlerOk(e)

IInv ==
  /\ TypeOK /\ ControlInv /\ MappedInv /\ CopiedInv
  /\ ExclusiveInv /\ CopyInv /\ HandlerInv

-----------------------------------------------------------------------------
(* The layout of the address space, and what a change of one mapping does. *)

(* The pages fork copies, UTEMP and the exception stack are different      *)
(* addresses (inc/riscv/memlayout.h).                                      *)
LEMMA Addresses ==
  /\ VA \subseteq Area
  /\ \A a \in VA : a \in Area /\ a # UTEMP /\ a # UXSTACK
  /\ Stack \in VA /\ NIMAGE \in VA /\ NIMAGE # Stack
  /\ UTEMP \in Area /\ UXSTACK \in Area /\ UTEMP # UXSTACK
  /\ None \notin Page /\ 1 \in VA
  BY SMTT(60), ForkAssumption DEF Stack, VA, UTEMP, UXSTACK, Area, Page

(* The loop of fork visits the image pages in order and the stack last.    *)
LEMMA NextPage ==
  ASSUME NEW a \in VA
  PROVE  a \in Nat /\ a <= Stack /\ (a # Stack => a + 1 \in VA)
  BY SMTT(60), ForkAssumption DEF Stack, VA

(* page_insert changes one mapping and no other: with PTE_W, *)
LEMMA InsertedWritable ==
  ASSUME TypeOK, NEW e \in Env, NEW a \in Area, NEW p \in Page, Insert(e, a, p, TRUE)
  PROVE  /\ at' \in [Env -> [Area -> Page \cup {None}]]
         /\ writable' \in [Env -> [Area -> BOOLEAN]]
         /\ \A x \in Env, y \in Area : writable'[x][y] => at'[x][y] # None
         /\ at'[e][a] = p /\ writable'[e][a]
         /\ \A x \in Env, y \in Area : ~(x = e /\ y = a) =>
              at'[x][y] = at[x][y] /\ (writable'[x][y] <=> writable[x][y])
  BY Addresses DEF TypeOK, Insert

(* and without it. *)
LEMMA InsertedReadOnly ==
  ASSUME TypeOK, NEW e \in Env, NEW a \in Area, NEW p \in Page \cup {None},
         Insert(e, a, p, FALSE)
  PROVE  /\ at' \in [Env -> [Area -> Page \cup {None}]]
         /\ writable' \in [Env -> [Area -> BOOLEAN]]
         /\ \A x \in Env, y \in Area : writable'[x][y] => at'[x][y] # None
         /\ at'[e][a] = p /\ ~writable'[e][a]
         /\ \A x \in Env, y \in Area : ~(x = e /\ y = a) =>
              at'[x][y] = at[x][y] /\ (writable'[x][y] <=> writable[x][y])
  BY Addresses DEF TypeOK, Insert

(* page_alloc returns a page that nothing maps. *)
LEMMA FreePage ==
  ASSUME MemoryLeft
  PROVE  /\ FirstFree \in Page
         /\ \A x \in Env, y \in Area : at[x][y] # FirstFree
<1>1. \E p \in Page : Free(p)
  BY DEF MemoryLeft
<1>2. FirstFree \in Page /\ Free(FirstFree)
  BY <1>1 DEF FirstFree
<1> QED
  BY <1>2 DEF Free

(* fork's copy so far is not disturbed by steps outside it that leave the  *)
(* image and the stack mapped as they are (duppage).                       *)
LEMMA CopiedKeeps ==
  ASSUME ControlInv, CopiedInv, UNCHANGED <<pc, child, va>>,
         \A x \in Env, y \in VA : at'[x][y] = at[x][y]
  PROVE  CopiedInv'
<1> SUFFICES ASSUME NEW x \in Env, pc[x] \in Copying, NEW y \in VA, Passed(x, y)
             PROVE  /\ at'[child[x]][y] # None
                    /\ y # Stack => at'[child[x]][y] = at'[x][y]
  BY DEF CopiedInv, Passed
<1>1. child[x] \in Env
  BY DEF ControlInv
<1> QED
  BY SMTT(60), <1>1 DEF CopiedInv

(* The handler stays installed when no page loses PTE_W (set_pgfault_handler). *)
LEMMA HandlerKeeps ==
  ASSUME ControlInv, HandlerInv,
         UNCHANGED <<pc, child, env_status, env_pgfault_upcall, handler>>,
         \A x \in Env : /\ \A y \in VA : writable[x][y] => writable'[x][y]
                        /\ writable[x][UXSTACK] => writable'[x][UXSTACK]
  PROVE  HandlerInv'
<1> SUFFICES ASSUME NEW x \in Env PROVE HandlerOk(x)'
  BY DEF HandlerInv
<1>1. HandlerOk(x) /\ (pc[x] \in Copying => child[x] \in Env)
  BY DEF HandlerInv, ControlInv
<1>2. (\E a \in VA : ~writable'[x][a]) => \E a \in VA : ~writable[x][a]
  OBVIOUS
<1> QED
  BY <1>1, <1>2 DEF HandlerOk, Ready, Copying

(* A pgfault under way is not disturbed by steps that leave its pages and  *)
(* what they hold alone.                                                   *)
LEMMA CopyKeeps ==
  ASSUME NEW x \in Env, CopyOk(x), fault'[x] = fault[x], store'[x] = store[x],
         at'[x][UTEMP] = at[x][UTEMP],
         at'[x][store[x][1]] = at[x][store[x][1]],
         writable'[x][store[x][1]] <=> writable[x][store[x][1]],
         content'[at[x][store[x][1]]] = content[at[x][store[x][1]]],
         fault[x] = "map" => content'[at[x][UTEMP]] = content[at[x][UTEMP]]
  PROVE  CopyOk(x)'
  BY DEF CopyOk

-----------------------------------------------------------------------------
(* The invariant holds. *)

(* The boot environment alone, with its own pages (env_create). *)
LEMMA InitInv == Init => IInv
<1> SUFFICES ASSUME Init PROVE IInv
  OBVIOUS
<1> USE Addresses
<1>1. VA \subseteq Page /\ VA \subseteq Nat
  BY SMTT(60), ForkAssumption DEF VA, Stack, Page
<1>2. TypeOK
  BY <1>1, ForkAssumption DEF Init, TypeOK, Statuses
<1>3. ControlInv
  BY DEF Init, ControlInv, Copying, AfterCopy
<1>4. MappedInv
  BY <1>1, ForkAssumption DEF Init, MappedInv
<1>5. CopiedInv
  BY DEF Init, CopiedInv, Copying
<1>6. ExclusiveInv
  <2> SUFFICES ASSUME NEW e \in Env, NEW f \in Env, NEW a \in Area, NEW b \in Area,
                      writable[e][a], at[f][b] = at[e][a]
               PROVE  e = f /\ a = b
    BY DEF ExclusiveInv
  <2>1. e = First /\ a \in VA /\ at[e][a] = a /\ a # None
    BY <1>1, ForkAssumption DEF Init
  <2> QED
    BY <2>1 DEF Init
<1>7. CopyInv
  BY DEF Init, CopyInv
<1>8. HandlerInv
  BY DEF Init, HandlerInv, HandlerOk, Copying
<1> QED
  BY <1>2, <1>3, <1>4, <1>5, <1>6, <1>7, <1>8 DEF IInv

(* An environment that is freed maps nothing and is nowhere (env_free). *)
LEMMA FreeInv ==
  ASSUME IInv, NEW e \in Env, env_status[e] = "ENV_RUNNABLE", env_free(e)
  PROVE  IInv'
<1> USE Addresses DEF IInv
<1>1. /\ \A x \in Env, y \in Area :
           /\ x = e => at'[x][y] = None /\ ~writable'[x][y]
           /\ x # e => at'[x][y] = at[x][y] /\ (writable'[x][y] <=> writable[x][y])
      /\ at' \in [Env -> [Area -> Page \cup {None}]]
      /\ writable' \in [Env -> [Area -> BOOLEAN]]
  BY DEF env_free, TypeOK
<1>2. /\ \A x \in Env : x # e =>
           /\ env_status'[x] = env_status[x] /\ pc'[x] = pc[x] /\ fault'[x] = fault[x]
           /\ store'[x] = store[x] /\ child'[x] = child[x] /\ va'[x] = va[x]
      /\ env_status'[e] = "ENV_FREE" /\ pc'[e] = "user" /\ fault'[e] = "none"
      /\ store'[e] = None /\ child'[e] = None
      /\ content' = content /\ env_pgfault_upcall' = env_pgfault_upcall /\ handler' = handler
  BY DEF env_free, TypeOK, Goto
<1>3. TypeOK'
  <2>1. /\ env_status' \in [Env -> Statuses] /\ pc' \in [Env -> InFork \cup {"user"}]
        /\ child' \in [Env -> Env \cup {None}] /\ va' \in [Env -> VA]
        /\ fault' \in [Env -> {"none", "alloc", "copy", "map", "unmap"}]
        /\ store' \in [Env -> (VA \X Value) \cup {None}]
    BY DEF env_free, TypeOK, Goto, Statuses
  <2> QED
    BY SMTT(60), <1>1, <1>2, <2>1 DEF TypeOK
<1>4. \A x \in Env : child[x] # e
  BY ForkAssumption DEF ControlInv, TypeOK
<1>5. ControlInv'
  BY SMTT(60), <1>2, <1>4 DEF ControlInv, Copying, AfterCopy
<1>6. MappedInv'
  <2>1. \A x \in Env : env_status'[x] = "ENV_RUNNABLE" => \A a \in VA : at'[x][a] # None
    BY SMTT(60), <1>1, <1>2 DEF MappedInv
  <2>2. \A x \in Env : env_status'[x] = "ENV_FREE" => \A a \in Area : at'[x][a] = None
    BY SMTT(60), <1>1, <1>2 DEF MappedInv
  <2>3. \A x \in Env : env_status'[x] = "ENV_NOT_RUNNABLE" => \A a \in VA : ~writable'[x][a]
    BY <1>1, <1>2 DEF MappedInv
  <2>4. \A x \in Env : IF fault'[x] \in {"copy", "map", "unmap"}
       THEN at'[x][UTEMP] # None /\ writable'[x][UTEMP]
       ELSE at'[x][UTEMP] = None
    BY <1>1, <1>2 DEF MappedInv
  <2> QED
    BY <2>1, <2>2, <2>3, <2>4 DEF MappedInv
<1>7. CopiedInv'
  <2> SUFFICES ASSUME NEW x \in Env, (pc[x] \in Copying)', NEW y \in VA, Passed(x, y)'
               PROVE  /\ at'[child'[x]][y] # None
                      /\ y # Stack => at'[child'[x]][y] = at'[x][y]
    BY DEF CopiedInv
  <2>1. x # e /\ pc[x] \in Copying /\ child'[x] = child[x] /\ child[x] \in Env /\ Passed(x, y)
    BY <1>2 DEF Copying, Passed, ControlInv
  <2>2. at'[child[x]][y] = at[child[x]][y] /\ at'[x][y] = at[x][y]
    BY <1>1, <1>4, <2>1
  <2> QED
    BY <2>1, <2>2 DEF CopiedInv
<1>8. ExclusiveInv'
  <2> SUFFICES ASSUME NEW x \in Env, NEW f \in Env, NEW a \in Area, NEW b \in Area,
                      writable'[x][a], at'[f][b] = at'[x][a], ~(x = f /\ a = b)
               PROVE  BetweenCalls(x, a, f, b)'
    BY DEF ExclusiveInv
  <2>1. x # e /\ f # e
    BY <1>1, <1>3 DEF TypeOK
  <2>2. BetweenCalls(x, a, f, b)
    BY <1>1, <2>1 DEF ExclusiveInv
  <2> QED
    BY <1>2, <2>1, <2>2 DEF BetweenCalls
<1>9. CopyInv'
  <2> SUFFICES ASSUME NEW x \in Env, fault'[x] # "none" PROVE CopyOk(x)'
    BY DEF CopyInv
  <2>1. x # e /\ store[x][1] \in VA
    BY SMTT(60), <1>2 DEF TypeOK, ControlInv
  <2>2. at'[x] = at[x] /\ writable'[x] = writable[x]
    BY <2>1 DEF env_free, TypeOK
  <2> QED
    BY <1>2, <2>1, <2>2 DEF CopyInv, CopyOk
<1>10. HandlerInv'
  <2> SUFFICES ASSUME NEW x \in Env PROVE HandlerOk(x)'
    BY DEF HandlerInv
  <2>1. CASE x = e
    BY <1>2, <2>1 DEF HandlerOk, Copying
  <2>2. CASE x # e
    <3>1. HandlerOk(x) /\ (pc[x] \in Copying => child[x] \in Env /\ child[x] # e)
      BY <1>4 DEF HandlerInv, ControlInv
    <3>2. \A y \in Area : writable'[x][y] <=> writable[x][y]
      BY <1>1, <2>2
    <3>3. pc[x] \in Copying => (writable'[child[x]][UXSTACK] <=> writable[child[x]][UXSTACK])
      BY <1>1, <3>1
    <3> QED
      BY <1>2, <2>2, <3>1, <3>2, <3>3 DEF HandlerOk, Ready, Copying
  <2> QED
    BY <2>1, <2>2
<1> QED
  BY <1>3, <1>5, <1>6, <1>7, <1>8, <1>9, <1>10

(* A fault stops the environment in front of its store (page_fault_handler). *)
LEMMA FaultInv ==
  ASSUME IInv, NEW e \in Env, Runs(e), NEW a \in VA, NEW v \in Value,
         pc[e] \in Copying => a = Stack,
         ~writable[e][a], page_fault_handler(e, a, v)
  PROVE  IInv'
<1> USE Addresses DEF IInv
<1>1. CASE ~(env_pgfault_upcall[e] /\ at[e][UXSTACK] # None)
  BY <1>1, FreeInv DEF page_fault_handler, Runs
<1>2. CASE env_pgfault_upcall[e] /\ at[e][UXSTACK] # None
  <2>1. /\ fault' = [fault EXCEPT ![e] = "alloc"] /\ store' = [store EXCEPT ![e] = <<a, v>>]
        /\ UNCHANGED <<at, writable, content, env_status, env_pgfault_upcall, handler, pc,
                       child, va>>
    BY <1>2 DEF page_fault_handler, mapping, control
  <2>2. TypeOK'
    BY <2>1 DEF TypeOK
  <2>3. ControlInv'
    <3>1. <<a, v>> # None /\ store'[e] = <<a, v>> /\ env_status[e] = "ENV_RUNNABLE"
          /\ \A x \in Env : x # e => fault'[x] = fault[x] /\ store'[x] = store[x]
      BY SMTT(60), <2>1, ForkAssumption DEF Runs, TypeOK, VA
    <3> QED
      BY SMTT(60), <2>1, <3>1 DEF ControlInv
  <2>4. MappedInv'
    BY <2>1 DEF MappedInv, Runs, TypeOK
  <2>5. CopiedInv'
    BY <2>1 DEF CopiedInv, Passed
  <2>6. ExclusiveInv'
    <3>1. \A x, f \in Env, y, b \in Area :
            BetweenCalls(x, y, f, b) => BetweenCalls(x, y, f, b)'
      BY <2>1 DEF BetweenCalls, Runs, TypeOK
    <3> QED
      BY <2>1, <3>1 DEF ExclusiveInv
  <2>7. CopyInv'
    BY <2>1 DEF CopyInv, CopyOk, TypeOK
  <2>8. HandlerInv'
    BY <2>1 DEF HandlerInv, HandlerOk, Ready
  <2> QED
    BY <2>2, <2>3, <2>4, <2>5, <2>6, <2>7, <2>8
<1> QED
  BY <1>1, <1>2

(* A store reaches one page, which no other environment can be copying.    *)
LEMMA WriteInv ==
  ASSUME IInv, NEW e \in Env, Runs(e), NEW a \in VA, NEW v \in Value, writable[e][a],
         content' = [content EXCEPT ![at[e][a]] = v],
         store' = [store EXCEPT ![e] = None],
         UNCHANGED <<mapping, env_status, env_pgfault_upcall, handler, control, fault>>
  PROVE  IInv'
<1> USE Addresses DEF IInv, mapping, control
<1>1. TypeOK'
  BY DEF TypeOK
<1>2. ControlInv'
  BY SMTT(60) DEF ControlInv, Runs, TypeOK
<1>3. MappedInv'
  BY DEF MappedInv
<1>4. CopiedInv'
  BY DEF CopiedInv, Passed
<1>5. ExclusiveInv'
  <2>1. \A x, f \in Env, y, b \in Area :
          BetweenCalls(x, y, f, b) => BetweenCalls(x, y, f, b)'
    BY DEF BetweenCalls, Runs, TypeOK
  <2> QED
    BY <2>1 DEF ExclusiveInv
<1>6. CopyInv'
  <2> SUFFICES ASSUME NEW x \in Env, fault[x] # "none" PROVE CopyOk(x)'
    BY DEF CopyInv
  <2>1. x # e /\ store'[x] = store[x] /\ store[x][1] \in VA
        /\ env_status[x] = "ENV_RUNNABLE"
    BY SMTT(60) DEF TypeOK, ControlInv, Runs
  <2>2. \A b \in VA \cup {UTEMP} : at[x][b] # at[e][a]
    <3> SUFFICES ASSUME NEW b \in VA \cup {UTEMP}, at[x][b] = at[e][a] PROVE FALSE
      OBVIOUS
    <3>1. BetweenCalls(e, a, x, b)
      BY <2>1 DEF ExclusiveInv
    <3>2. pc[e] = "remap" /\ x = child[e]
      BY <3>1, <2>1 DEF BetweenCalls
    <3> QED
      BY <3>2, <2>1 DEF ControlInv, Copying
  <2>3. \A b \in VA \cup {UTEMP} : at[x][b] # None =>
           content'[at[x][b]] = content[at[x][b]]
    BY SMTT(60), <2>2 DEF TypeOK
  <2>4. at[x][store[x][1]] # None /\ (fault[x] = "map" => at[x][UTEMP] # None)
    BY <2>1 DEF MappedInv
  <2>5. CopyOk(x)
    BY DEF CopyInv
  <2> QED
    BY <2>1, <2>3, <2>4, <2>5 DEF CopyOk
<1>7. HandlerInv'
  BY DEF HandlerInv, HandlerOk, Ready
<1> QED
  BY <1>1, <1>2, <1>3, <1>4, <1>5, <1>6, <1>7

-----------------------------------------------------------------------------
(* pgfault. *)

(* What pgfault works on: a runnable environment, with a store to one of   *)
(* its pages, that is no child of a fork.                                  *)
LEMMA Faulting ==
  ASSUME IInv, NEW e \in Env, fault[e] # "none"
  PROVE  /\ env_status[e] = "ENV_RUNNABLE" /\ store[e] \in VA \X Value
         /\ store[e][1] \in VA /\ at[e][store[e][1]] \in Page
         /\ \A x \in Env : child[x] # e
         /\ pc[e] \in Copying => store[e][1] = Stack
<1>1. env_status[e] = "ENV_RUNNABLE" /\ store[e] \in VA \X Value
  BY DEF IInv, ControlInv, TypeOK
<1>2. \A x \in Env : child[x] # e
  <2>1. None \notin Env
    BY ForkAssumption
  <2> QED
    BY <1>1, <2>1 DEF IInv, ControlInv
<1>3. store[e][1] \in VA
  BY <1>1
<1>4. at[e][store[e][1]] \in Page
  BY SMTT(60), <1>1, <1>3, Addresses DEF IInv, MappedInv, TypeOK
<1>5. pc[e] \in Copying => store[e][1] = Stack
  BY <1>1, ForkAssumption, Addresses DEF IInv, ControlInv
<1> QED
  BY <1>1, <1>2, <1>3, <1>4, <1>5

(* The invariant after a step of pgfault but its last: control stays.      *)
LEMMA PgfaultControl ==
  ASSUME IInv, NEW e \in Env, NEW step, NEW next \in {"copy", "map", "unmap"},
         step # "none", Handles(e, step, next)
  PROVE  /\ ControlInv'
         /\ fault' \in [Env -> {"none", "alloc", "copy", "map", "unmap"}]
<1>1. fault' \in [Env -> {"none", "alloc", "copy", "map", "unmap"}]
  BY DEF IInv, TypeOK, Handles
<1>2. \A x \in Env : fault'[x] # "none" <=> fault[x] # "none"
  BY DEF IInv, TypeOK, Handles
<1> QED
  BY SMTT(60), <1>1, <1>2 DEF IInv, ControlInv, Handles, control

(* A zeroed page at UTEMP, mapped nowhere else. *)
LEMMA PgfaultAllocInv ==
  ASSUME IInv, NEW e \in Env, pgfault_alloc(e)
  PROVE  IInv'
<1> USE Addresses DEF IInv
<1> DEFINE p == FirstFree
<1>1. /\ fault[e] = "alloc" /\ fault' = [fault EXCEPT ![e] = "copy"]
      /\ Handles(e, "alloc", "copy") /\ MemoryLeft /\ Insert(e, UTEMP, p, TRUE)
      /\ content' = [content EXCEPT ![p] = 0]
      /\ UNCHANGED <<store, pc, child, va, env_status, env_pgfault_upcall, handler>>
  BY DEF pgfault_alloc, Handles, sys_page_alloc, control
<1>2. p \in Page /\ \A x \in Env, y \in Area : at[x][y] # p
  BY <1>1, FreePage
<1> HIDE DEF p
<1>3. /\ at' \in [Env -> [Area -> Page \cup {None}]]
      /\ writable' \in [Env -> [Area -> BOOLEAN]]
      /\ \A x \in Env, y \in Area : writable'[x][y] => at'[x][y] # None
      /\ at'[e][UTEMP] = p /\ writable'[e][UTEMP]
      /\ \A x \in Env, y \in Area : ~(x = e /\ y = UTEMP) =>
           at'[x][y] = at[x][y] /\ (writable'[x][y] <=> writable[x][y])
  BY <1>1, <1>2, InsertedWritable
<1>4. ControlInv' /\ fault' \in [Env -> {"none", "alloc", "copy", "map", "unmap"}]
  BY <1>1, PgfaultControl
<1>5. TypeOK'
  BY <1>1, <1>2, <1>3, <1>4, ForkAssumption DEF TypeOK
<1>6. MappedInv'
  <2>1. \A x \in Env, y \in VA : at'[x][y] = at[x][y] /\ (writable'[x][y] <=> writable[x][y])
    BY <1>3
  <2>2. env_status[e] = "ENV_RUNNABLE"
    BY <1>1, Faulting
  <2>3. \A x \in Env : env_status'[x] = "ENV_FREE" => \A y \in Area : at'[x][y] = None
    BY SMTT(60), <1>1, <1>3, <2>2 DEF MappedInv
  <2>4. \A x \in Env : IF fault'[x] \in {"copy", "map", "unmap"}
          THEN at'[x][UTEMP] # None /\ writable'[x][UTEMP] ELSE at'[x][UTEMP] = None
    BY SMTT(60), <1>1, <1>2, <1>3 DEF MappedInv, TypeOK
  <2> QED
    BY SMTT(60), <1>1, <2>1, <2>3, <2>4 DEF MappedInv
<1>7. CopiedInv'
  BY <1>1, <1>3, CopiedKeeps
<1>8. ExclusiveInv'
  <2> SUFFICES ASSUME NEW x \in Env, NEW f \in Env, NEW y \in Area, NEW b \in Area,
                      writable'[x][y], at'[f][b] = at'[x][y], ~(x = f /\ y = b)
               PROVE  BetweenCalls(x, y, f, b)'
    BY DEF ExclusiveInv
  <2>1. ~(x = e /\ y = UTEMP) /\ ~(f = e /\ b = UTEMP)
    BY SMTT(60), <1>2, <1>3
  <2>2. BetweenCalls(x, y, f, b)
    BY <1>3, <2>1 DEF ExclusiveInv
  <2> QED
    BY <1>1, <2>2 DEF BetweenCalls, TypeOK
<1>9. CopyInv'
  <2> SUFFICES ASSUME NEW x \in Env, fault'[x] # "none" PROVE CopyOk(x)'
    BY DEF CopyInv
  <2>1. fault[x] # "none"
    BY <1>1 DEF TypeOK
  <2>2. store'[x][1] = store[x][1] /\ store[x][1] \in VA /\ CopyOk(x)
    BY <1>1, <2>1, Faulting DEF CopyInv
  <2>3. at'[x][store[x][1]] = at[x][store[x][1]]
        /\ (writable'[x][store[x][1]] <=> writable[x][store[x][1]])
        /\ at[x][store[x][1]] \in Page
    BY SMTT(60), <1>3, <2>1, <2>2, Faulting
  <2>4. CASE x = e
    BY <1>1, <2>2, <2>3, <2>4 DEF CopyOk, TypeOK
  <2>5. CASE x # e
    <3>1. at'[x][UTEMP] = at[x][UTEMP] /\ fault'[x] = fault[x]
      BY <1>1, <1>3, <2>5 DEF TypeOK
    <3>2. at[x][UTEMP] # None => content'[at[x][UTEMP]] = content[at[x][UTEMP]]
      BY SMTT(60), <1>1, <1>2 DEF TypeOK
    <3>3. content'[at[x][store[x][1]]] = content[at[x][store[x][1]]]
      BY <1>1, <1>2, <2>2, <2>3 DEF TypeOK
    <3>4. fault[x] = "map" => at[x][UTEMP] # None
      BY DEF MappedInv
    <3> QED
      BY <1>1, <2>2, <2>3, <3>1, <3>2, <3>3, <3>4, CopyKeeps
  <2> QED
    BY <2>4, <2>5
<1>10. HandlerInv'
  <2>1. \A x \in Env : /\ \A y \in VA : writable'[x][y] <=> writable[x][y]
                       /\ writable'[x][UXSTACK] <=> writable[x][UXSTACK]
    BY <1>3
  <2> QED
    BY <1>1, <2>1, HandlerKeeps
<1> QED
  BY <1>4, <1>5, <1>6, <1>7, <1>8, <1>9, <1>10

(* UTEMP belongs to pgfault alone until it is mapped at the faulting page. *)
LEMMA TempPrivate ==
  ASSUME IInv, NEW e \in Env, fault[e] \in {"copy", "map"}
  PROVE  /\ at[e][UTEMP] \in Page /\ writable[e][UTEMP]
         /\ \A x \in Env, y \in Area :
              at[x][y] = at[e][UTEMP] => x = e /\ y = UTEMP
<1>1. at[e][UTEMP] \in Page /\ writable[e][UTEMP]
  BY SMTT(60), Addresses DEF IInv, MappedInv, TypeOK
<1>2. ASSUME NEW x \in Env, NEW y \in Area, at[x][y] = at[e][UTEMP],
             ~(e = x /\ UTEMP = y)
      PROVE  FALSE
  <2>1. BetweenCalls(e, UTEMP, x, y)
    BY <1>1, <1>2, Addresses DEF IInv, ExclusiveInv
  <2>2. va[e] \in VA
    BY DEF IInv, TypeOK
  <2> QED
    BY <2>1, <2>2, Addresses DEF BetweenCalls
<1> QED
  BY <1>1, <1>2

(* memmove: the faulting page's contents reach UTEMP and nothing else.     *)
LEMMA PgfaultCopyInv ==
  ASSUME IInv, NEW e \in Env, pgfault_copy(e)
  PROVE  IInv'
<1> USE Addresses DEF IInv
<1> DEFINE t == at[e][UTEMP]
           s == at[e][store[e][1]]
<1>1. /\ fault[e] = "copy" /\ fault' = [fault EXCEPT ![e] = "map"]
      /\ Handles(e, "copy", "map") /\ content' = [content EXCEPT ![t] = content[s]]
      /\ UNCHANGED <<at, writable, store, pc, child, va, env_status,
                     env_pgfault_upcall, handler>>
  BY DEF pgfault_copy, Handles, control, mapping
<1>2. t \in Page /\ \A x \in Env, y \in Area : at[x][y] = t => x = e /\ y = UTEMP
  BY <1>1, TempPrivate
<1>3. s \in Page /\ s # t
  BY <1>1, <1>2, Faulting
<1> HIDE DEF t, s
<1>4. ControlInv' /\ fault' \in [Env -> {"none", "alloc", "copy", "map", "unmap"}]
  BY <1>1, PgfaultControl
<1>5. TypeOK'
  BY <1>1, <1>2, <1>3, <1>4 DEF TypeOK
<1>6. MappedInv'
  BY <1>1 DEF MappedInv, TypeOK
<1>7. CopiedInv'
  BY <1>1, CopiedKeeps
<1>8. ExclusiveInv'
  <2>1. \A x, f \in Env, y, b \in Area :
          BetweenCalls(x, y, f, b) => BetweenCalls(x, y, f, b)'
    BY <1>1 DEF BetweenCalls, TypeOK
  <2> QED
    BY <1>1, <2>1 DEF ExclusiveInv
<1>9. CopyInv'
  <2> SUFFICES ASSUME NEW x \in Env, fault'[x] # "none" PROVE CopyOk(x)'
    BY DEF CopyInv
  <2>1. fault[x] # "none"
    BY <1>1 DEF TypeOK
  <2>2. CopyOk(x) /\ store[x][1] \in VA /\ at[x][store[x][1]] \in Page
    BY <2>1, Faulting DEF CopyInv
  <2>3. content'[at[x][store[x][1]]] = content[at[x][store[x][1]]]
    BY <1>1, <1>2, <2>2 DEF TypeOK
  <2>4. CASE x = e
    BY <1>1, <1>2, <1>3, <2>2, <2>4 DEF CopyOk, TypeOK, t, s
  <2>5. CASE x # e
    <3>1. fault'[x] = fault[x]
      BY <1>1, <2>5 DEF TypeOK
    <3>2. fault[x] = "map" => content'[at[x][UTEMP]] = content[at[x][UTEMP]]
      BY SMTT(60), <1>1, <1>2, <2>5 DEF MappedInv, TypeOK
    <3> QED
      BY <1>1, <2>2, <2>3, <3>1, <3>2, CopyKeeps
  <2> QED
    BY <2>4, <2>5
<1>10. HandlerInv'
  BY <1>1, HandlerKeeps
<1> QED
  BY <1>4, <1>5, <1>6, <1>7, <1>8, <1>9, <1>10

(* The copy takes the place of the shared page, writable.                  *)
LEMMA PgfaultMapInv ==
  ASSUME IInv, NEW e \in Env, pgfault_map(e)
  PROVE  IInv'
<1> USE Addresses DEF IInv
<1> DEFINE t == at[e][UTEMP]
           s == store[e][1]
<1>1. /\ fault[e] = "map" /\ fault' = [fault EXCEPT ![e] = "unmap"]
      /\ Handles(e, "map", "unmap") /\ Insert(e, s, t, TRUE)
      /\ UNCHANGED <<content, store, pc, child, va, env_status,
                     env_pgfault_upcall, handler>>
  BY DEF pgfault_map, Handles, control, sys_page_map
<1>2. /\ t \in Page /\ writable[e][UTEMP]
      /\ \A x \in Env, y \in Area : at[x][y] = t => x = e /\ y = UTEMP
  BY <1>1, TempPrivate
<1>3. /\ s \in VA /\ env_status[e] = "ENV_RUNNABLE" /\ \A x \in Env : child[x] # e
      /\ pc[e] \in Copying => s = Stack
  BY <1>1, Faulting
<1>4. /\ at' \in [Env -> [Area -> Page \cup {None}]]
      /\ writable' \in [Env -> [Area -> BOOLEAN]]
      /\ \A x \in Env, y \in Area : writable'[x][y] => at'[x][y] # None
      /\ at'[e][s] = t /\ writable'[e][s]
      /\ \A x \in Env, y \in Area : ~(x = e /\ y = s) =>
           at'[x][y] = at[x][y] /\ (writable'[x][y] <=> writable[x][y])
  <2> HIDE DEF t, s
  <2> QED
    BY <1>1, <1>2, <1>3, InsertedWritable
<1>5. at[e][UTEMP] = t /\ store[e][1] = s
  OBVIOUS
<1> HIDE DEF t, s
<1>6. ControlInv' /\ fault' \in [Env -> {"none", "alloc", "copy", "map", "unmap"}]
  BY <1>1, PgfaultControl
<1>7. TypeOK'
  BY <1>1, <1>4, <1>6 DEF TypeOK
<1>8. MappedInv'
  <2>1. \A x \in Env : env_status'[x] = "ENV_RUNNABLE" => \A y \in VA : at'[x][y] # None
    BY SMTT(60), <1>1, <1>2, <1>4 DEF MappedInv
  <2>2. \A x \in Env : env_status'[x] = "ENV_FREE" => \A y \in Area : at'[x][y] = None
    BY SMTT(60), <1>1, <1>3, <1>4 DEF MappedInv
  <2>3. \A x \in Env : env_status'[x] = "ENV_NOT_RUNNABLE" => \A y \in VA : ~writable'[x][y]
    BY <1>1, <1>3, <1>4 DEF MappedInv
  <2>4. \A x \in Env : at'[x][UTEMP] = at[x][UTEMP] /\ (writable'[x][UTEMP] <=> writable[x][UTEMP])
    BY <1>3, <1>4
  <2>5. \A x \in Env : fault'[x] \in {"copy", "map", "unmap"}
                         <=> fault[x] \in {"copy", "map", "unmap"}
    BY <1>1 DEF TypeOK
  <2> QED
    BY <2>1, <2>2, <2>3, <2>4, <2>5 DEF MappedInv
<1>9. CopiedInv'
  <2> SUFFICES ASSUME NEW x \in Env, pc[x] \in Copying, NEW y \in VA, Passed(x, y)
               PROVE  /\ at'[child[x]][y] # None
                      /\ y # Stack => at'[child[x]][y] = at'[x][y]
    BY <1>1 DEF CopiedInv, Passed
  <2>1. child[x] \in Env /\ child[x] # e
    BY <1>3 DEF ControlInv
  <2>2. at'[child[x]][y] = at[child[x]][y] /\ (y # Stack => at'[x][y] = at[x][y])
    BY <1>3, <1>4, <2>1
  <2> QED
    BY <2>1, <2>2 DEF CopiedInv
<1>10. ExclusiveInv'
  <2> SUFFICES ASSUME NEW x \in Env, NEW f \in Env, NEW y \in Area, NEW b \in Area,
                      writable'[x][y], at'[f][b] = at'[x][y], ~(x = f /\ y = b)
               PROVE  BetweenCalls(x, y, f, b)'
    BY DEF ExclusiveInv
  <2>1. CASE at'[x][y] = t
    <3>1. x = e /\ y \in {UTEMP, s} /\ f = e /\ b \in {UTEMP, s}
      BY SMTT(60), <1>2, <1>4, <2>1
    <3> QED
      BY SMTT(60), <1>1, <1>5, <3>1 DEF BetweenCalls, TypeOK
  <2>2. CASE at'[x][y] # t
    <3>1. ~(x = e /\ y = s) /\ ~(f = e /\ b = s)
      BY <1>4, <2>2
    <3>2. BetweenCalls(x, y, f, b)
      BY <1>4, <3>1 DEF ExclusiveInv
    <3> QED
      BY <1>1, <3>2 DEF BetweenCalls, TypeOK
  <2> QED
    BY <2>1, <2>2
<1>11. CopyInv'
  <2> SUFFICES ASSUME NEW x \in Env, fault'[x] # "none" PROVE CopyOk(x)'
    BY DEF CopyInv
  <2>1. fault[x] # "none"
    BY <1>1 DEF TypeOK
  <2>2. CopyOk(x) /\ store[x][1] \in VA
    BY <2>1, Faulting DEF CopyInv
  <2>3. CASE x = e
    <3>1. fault'[e] = "unmap" /\ store'[e][1] = s /\ at'[e][UTEMP] = t
      BY SMTT(60), <1>1, <1>3, <1>4, <1>5 DEF TypeOK
    <3> QED
      BY <1>4, <2>3, <3>1 DEF CopyOk
  <2>4. CASE x # e
    <3>1. fault'[x] = fault[x]
      BY <1>1, <2>4 DEF TypeOK
    <3>2. at'[x][UTEMP] = at[x][UTEMP] /\ at'[x][store[x][1]] = at[x][store[x][1]]
          /\ (writable'[x][store[x][1]] <=> writable[x][store[x][1]])
      BY SMTT(60), <1>4, <2>2, <2>4
    <3> QED
      BY <1>1, <2>2, <3>1, <3>2, CopyKeeps
  <2> QED
    BY <2>3, <2>4
<1>12. HandlerInv'
  BY <1>1, <1>3, <1>4, HandlerKeeps
<1> QED
  BY <1>6, <1>7, <1>8, <1>9, <1>10, <1>11, <1>12

(* UTEMP goes, and with it the second mapping of the copy.                 *)
LEMMA PgfaultUnmapInv ==
  ASSUME IInv, NEW e \in Env, pgfault_unmap(e)
  PROVE  IInv'
<1> USE Addresses DEF IInv
<1>1. /\ fault[e] = "unmap" /\ fault' = [fault EXCEPT ![e] = "none"]
      /\ Insert(e, UTEMP, None, FALSE)
      /\ UNCHANGED <<content, store, pc, child, va, env_status,
                     env_pgfault_upcall, handler>>
  BY DEF pgfault_unmap, Handles, control, sys_page_unmap
<1>2. env_status[e] = "ENV_RUNNABLE"
  BY <1>1, Faulting
<1>3. /\ at' \in [Env -> [Area -> Page \cup {None}]]
      /\ writable' \in [Env -> [Area -> BOOLEAN]]
      /\ \A x \in Env, y \in Area : writable'[x][y] => at'[x][y] # None
      /\ at'[e][UTEMP] = None /\ ~writable'[e][UTEMP]
      /\ \A x \in Env, y \in Area : ~(x = e /\ y = UTEMP) =>
           at'[x][y] = at[x][y] /\ (writable'[x][y] <=> writable[x][y])
  <2>1. None \in Page \cup {None}
    OBVIOUS
  <2> QED
    BY <1>1, <2>1, InsertedReadOnly
<1>4. TypeOK'
  BY <1>1, <1>3 DEF TypeOK
<1>5. ControlInv'
  BY <1>1, <1>2 DEF ControlInv, TypeOK
<1>6. MappedInv'
  <2>1. env_status' = env_status
    BY <1>1
  <2>2. ASSUME NEW x \in Env, env_status'[x] = "ENV_RUNNABLE", NEW y \in VA
        PROVE  at'[x][y] # None
    <3>1. at[x][y] # None
      BY <2>1, <2>2 DEF MappedInv
    <3> QED
      BY <1>3, <3>1
  <2>3. ASSUME NEW x \in Env, env_status'[x] = "ENV_FREE", NEW y \in Area
        PROVE  at'[x][y] = None
    <3>1. at[x][y] = None /\ x # e
      BY <1>2, <2>1, <2>3 DEF MappedInv
    <3> QED
      BY <1>3, <3>1
  <2>4. ASSUME NEW x \in Env, env_status'[x] = "ENV_NOT_RUNNABLE", NEW y \in VA
        PROVE  ~writable'[x][y]
    <3>1. ~writable[x][y]
      BY <2>1, <2>4 DEF MappedInv
    <3> QED
      BY <1>3, <3>1
  <2>5. ASSUME NEW x \in Env
        PROVE  IF fault'[x] \in {"copy", "map", "unmap"}
               THEN at'[x][UTEMP] # None /\ writable'[x][UTEMP]
               ELSE at'[x][UTEMP] = None
    <3>1. CASE x = e
      BY SMTT(60), <1>1, <1>3, <3>1 DEF TypeOK
    <3>2. CASE x # e
      <4>1. fault'[x] = fault[x]
        BY <1>1, <3>2 DEF TypeOK
      <4>2. at'[x][UTEMP] = at[x][UTEMP] /\ (writable'[x][UTEMP] <=> writable[x][UTEMP])
        BY <1>3, <3>2
      <4> QED
        BY <4>1, <4>2 DEF MappedInv
    <3> QED
      BY <3>1, <3>2
  <2> QED
    BY <2>2, <2>3, <2>4, <2>5 DEF MappedInv
<1>7. CopiedInv'
  BY <1>1, <1>3, CopiedKeeps
<1>8. ExclusiveInv'
  <2> SUFFICES ASSUME NEW x \in Env, NEW f \in Env, NEW y \in Area, NEW b \in Area,
                      writable'[x][y], at'[f][b] = at'[x][y], ~(x = f /\ y = b)
               PROVE  BetweenCalls(x, y, f, b)'
    BY DEF ExclusiveInv
  <2>1. ~(x = e /\ y = UTEMP) /\ ~(f = e /\ b = UTEMP)
    BY SMTT(60), <1>3
  <2>2. BetweenCalls(x, y, f, b)
    BY <1>3, <2>1 DEF ExclusiveInv
  <2> QED
    BY <1>1, <2>1, <2>2 DEF BetweenCalls, TypeOK
<1>9. CopyInv'
  <2> SUFFICES ASSUME NEW x \in Env, fault'[x] # "none" PROVE CopyOk(x)'
    BY DEF CopyInv
  <2>1. x # e /\ fault'[x] = fault[x]
    BY <1>1 DEF TypeOK
  <2>2. CopyOk(x) /\ store[x][1] \in VA
    BY <2>1, Faulting DEF CopyInv
  <2>3. at'[x][UTEMP] = at[x][UTEMP] /\ at'[x][store[x][1]] = at[x][store[x][1]]
        /\ (writable'[x][store[x][1]] <=> writable[x][store[x][1]])
    BY <1>3, <2>1, <2>2
  <2> QED
    BY <1>1, <2>1, <2>2, <2>3, CopyKeeps
<1>10. HandlerInv'
  BY <1>1, <1>3, HandlerKeeps
<1> QED
  BY <1>4, <1>5, <1>6, <1>7, <1>8, <1>9, <1>10

-----------------------------------------------------------------------------
(* Who is in fork runs, and is not the child of a fork itself. *)
LEMMA Forking ==
  ASSUME IInv, NEW e \in Env, NEW step, At(e, step)
  PROVE  /\ pc[e] = step /\ fault[e] = "none" /\ store[e] = None
         /\ env_status[e] = "ENV_RUNNABLE" /\ \A x \in Env : child[x] # e
  BY ForkAssumption DEF At, Runs, IInv, ControlInv, TypeOK

(* A step of fork that changes no mapping and no status and stays on its   *)
(* side of the copy.                                                       *)
LEMMA StepInv ==
  ASSUME IInv, NEW e \in Env, NEW step, NEW next \in InFork, At(e, step), Goto(e, next),
         step \notin {"dup", "remap"}, next \notin {"dup", "remap"},
         step \in AfterCopy <=> next \in AfterCopy,
         UNCHANGED <<mapping, content, env_status, child, va, trap>>
  PROVE  /\ pc' \in [Env -> InFork \cup {"user"}]
         /\ ControlInv' /\ MappedInv' /\ CopiedInv' /\ ExclusiveInv' /\ CopyInv'
<1> USE Addresses DEF IInv
<1>1. /\ pc[e] = step /\ env_status[e] = "ENV_RUNNABLE" /\ pc' = [pc EXCEPT ![e] = next]
      /\ UNCHANGED <<at, writable, content, env_status, child, va, fault, store>>
  BY Forking DEF Goto, mapping, trap
<1>2. pc' \in [Env -> InFork \cup {"user"}]
  BY <1>1 DEF TypeOK
<1>3. \A x \in Env : /\ pc'[x] \in Copying <=> pc[x] \in Copying
                     /\ pc'[x] \in AfterCopy <=> pc[x] \in AfterCopy
                     /\ pc'[x] = "remap" <=> pc[x] = "remap"
                     /\ pc'[x] = "dup" <=> pc[x] = "dup"
                     /\ x # e => pc'[x] = pc[x]
  BY <1>1 DEF TypeOK, Copying, AfterCopy
<1>4. ControlInv'
  BY SMTT(60), <1>1, <1>3 DEF ControlInv
<1>5. MappedInv'
  BY <1>1 DEF MappedInv
<1>6. CopiedInv'
  BY SMTT(60), <1>1, <1>3 DEF CopiedInv, Passed
<1>7. ExclusiveInv'
  <2>1. \A x, f \in Env, y, b \in Area :
          BetweenCalls(x, y, f, b) => BetweenCalls(x, y, f, b)'
    BY <1>1, <1>3 DEF BetweenCalls
  <2> QED
    BY <1>1, <2>1 DEF ExclusiveInv
<1>8. CopyInv'
  BY <1>1 DEF CopyInv, CopyOk
<1> QED
  BY <1>2, <1>4, <1>5, <1>6, <1>7, <1>8

(* The call of fork. *)
LEMMA CallForkInv ==
  ASSUME IInv, NEW e \in Env, CallFork(e)
  PROVE  IInv'
<1> DEFINE next == IF handler[e] THEN "handler" ELSE "xstack"
<1>1. /\ At(e, "user") /\ Goto(e, next) /\ next \in InFork
      /\ next \notin {"dup", "remap"} /\ next \notin AfterCopy
      /\ UNCHANGED <<mapping, content, env_status, child, va, trap>>
      /\ UNCHANGED <<at, writable, content, env_status, env_pgfault_upcall, handler, child, va,
                     fault, store>>
  BY DEF CallFork, InFork, AfterCopy, mapping, trap
<1> HIDE DEF next
<1>2. /\ pc' \in [Env -> InFork \cup {"user"}]
      /\ ControlInv' /\ MappedInv' /\ CopiedInv' /\ ExclusiveInv' /\ CopyInv'
  BY <1>1, StepInv DEF AfterCopy
<1>3. TypeOK'
  BY <1>1, <1>2 DEF IInv, TypeOK
<1>4. HandlerInv'
  <2> SUFFICES ASSUME NEW x \in Env PROVE HandlerOk(x)'
    BY DEF HandlerInv
  <2>1. HandlerOk(x)
    BY DEF IInv, HandlerInv
  <2>2. CASE x = e
    BY <1>1, <2>1, <2>2 DEF HandlerOk, Ready, Copying, Goto, IInv, TypeOK, next
  <2>3. CASE x # e
    <3>1. pc'[x] = pc[x]
      BY <1>1, <2>3 DEF Goto, IInv, TypeOK
    <3> QED
      BY <1>1, <2>1, <3>1 DEF HandlerOk, Ready
  <2> QED
    BY <2>2, <2>3
<1> QED
  BY <1>2, <1>3, <1>4 DEF IInv

(* The kernel learns the upcall. *)
LEMMA UpcallInv ==
  ASSUME IInv, NEW e \in Env, sys_env_set_pgfault_upcall(e)
  PROVE  IInv'
<1>1. /\ At(e, "upcall") /\ Goto(e, "handler")
      /\ env_pgfault_upcall' = [env_pgfault_upcall EXCEPT ![e] = TRUE]
      /\ UNCHANGED <<mapping, content, env_status, child, va, trap>>
      /\ UNCHANGED <<at, writable, content, env_status, handler, child, va, fault, store>>
  BY DEF sys_env_set_pgfault_upcall, mapping, trap
<1>2. /\ pc' \in [Env -> InFork \cup {"user"}]
      /\ ControlInv' /\ MappedInv' /\ CopiedInv' /\ ExclusiveInv' /\ CopyInv'
  BY <1>1, StepInv DEF AfterCopy, InFork
<1>3. TypeOK'
  BY <1>1, <1>2 DEF IInv, TypeOK
<1>4. HandlerInv'
  <2> SUFFICES ASSUME NEW x \in Env PROVE HandlerOk(x)'
    BY DEF HandlerInv
  <2>1. HandlerOk(x) /\ pc[e] = "upcall" /\ child[x] # e
        /\ env_pgfault_upcall'[e]
        /\ \A z \in Env : z # e => env_pgfault_upcall'[z] = env_pgfault_upcall[z]
        /\ (pc[x] \in Copying => child[x] \in Env)
    BY SMTT(60), <1>1, Forking DEF IInv, HandlerInv, TypeOK, ControlInv
  <2>2. CASE x = e
    BY <1>1, <2>1, <2>2 DEF HandlerOk, Ready, Copying, Goto, IInv, TypeOK
  <2>3. CASE x # e
    <3>1. pc'[x] = pc[x]
      BY <1>1, <2>3 DEF Goto, IInv, TypeOK
    <3> QED
      BY <1>1, <2>1, <2>3, <3>1 DEF HandlerOk, Ready
  <2> QED
    BY <2>2, <2>3
<1> QED
  BY <1>2, <1>3, <1>4 DEF IInv

(* _pgfault_handler is stored; the store may fault first. *)
LEMMA SetHandlerInv ==
  ASSUME IInv, NEW e \in Env, SetHandler(e)
  PROVE  IInv'
<1>1. CASE ~writable[e][NIMAGE]
  <2>1. /\ At(e, "handler") /\ Runs(e) /\ pc[e] \notin Copying
        /\ page_fault_handler(e, NIMAGE, content[at[e][NIMAGE]])
    BY <1>1 DEF SetHandler, At, Copying
  <2>2. content[at[e][NIMAGE]] \in Value
    BY SMTT(60), <2>1, Forking, Addresses DEF IInv, MappedInv, TypeOK
  <2> QED
    BY <1>1, <2>1, <2>2, FaultInv, Addresses
<1>2. CASE writable[e][NIMAGE]
  <2>1. /\ At(e, "handler") /\ Goto(e, "exofork")
        /\ handler' = [handler EXCEPT ![e] = TRUE]
        /\ UNCHANGED <<mapping, content, env_status, child, va, trap>>
        /\ UNCHANGED <<at, writable, content, env_status, env_pgfault_upcall, child, va,
                       fault, store>>
    BY <1>2 DEF SetHandler, mapping, trap
  <2>2. /\ pc' \in [Env -> InFork \cup {"user"}]
        /\ ControlInv' /\ MappedInv' /\ CopiedInv' /\ ExclusiveInv' /\ CopyInv'
    BY <2>1, StepInv DEF AfterCopy, InFork
  <2>3. TypeOK'
    BY <2>1, <2>2 DEF IInv, TypeOK
  <2>4. HandlerInv'
    <3> SUFFICES ASSUME NEW x \in Env PROVE HandlerOk(x)'
      BY DEF HandlerInv
    <3>1. HandlerOk(x) /\ pc[e] = "handler" /\ child[x] # e
          /\ handler'[e] /\ \A z \in Env : z # e => handler'[z] = handler[z]
          /\ (pc[x] \in Copying => child[x] \in Env)
      BY SMTT(60), <2>1, Forking DEF IInv, HandlerInv, TypeOK, ControlInv
    <3>2. CASE x = e
      BY SMTT(60), <2>1, <3>1, <3>2, Forking DEF HandlerOk, Ready, Copying, Goto, IInv, TypeOK
    <3>3. CASE x # e
      <4>1. pc'[x] = pc[x]
        BY <2>1, <3>3 DEF Goto, IInv, TypeOK
      <4> QED
        BY <2>1, <3>1, <3>3, <4>1 DEF HandlerOk, Ready
    <3> QED
      BY <3>2, <3>3
  <2> QED
    BY <2>2, <2>3, <2>4 DEF IInv
<1> QED
  BY <1>1, <1>2

(* The descriptor pages are shared; nothing of the copy changes.           *)
LEMMA ShareInv ==
  ASSUME IInv, NEW e \in Env, sys_copy_shared_pages(e)
  PROVE  IInv'
<1>1. /\ At(e, "share") /\ Goto(e, "childstack")
      /\ UNCHANGED <<mapping, content, env_status, child, va, trap>>
      /\ UNCHANGED <<at, writable, content, env_status, env_pgfault_upcall, handler, child, va,
                     fault, store>>
  BY DEF sys_copy_shared_pages, mapping, trap
<1>2. /\ pc' \in [Env -> InFork \cup {"user"}]
      /\ ControlInv' /\ MappedInv' /\ CopiedInv' /\ ExclusiveInv' /\ CopyInv'
  BY <1>1, StepInv DEF AfterCopy, InFork
<1>3. TypeOK'
  BY <1>1, <1>2 DEF IInv, TypeOK
<1>4. HandlerInv'
  <2> SUFFICES ASSUME NEW x \in Env PROVE HandlerOk(x)'
    BY DEF HandlerInv
  <2>1. HandlerOk(x) /\ pc[e] = "share"
    BY <1>1, Forking DEF IInv, HandlerInv
  <2>2. CASE x = e
    BY <1>1, <2>1, <2>2 DEF HandlerOk, Ready, Copying, Goto, IInv, TypeOK
  <2>3. CASE x # e
    <3>1. pc'[x] = pc[x]
      BY <1>1, <2>3 DEF Goto, IInv, TypeOK
    <3> QED
      BY <1>1, <2>1, <3>1 DEF HandlerOk, Ready
  <2> QED
    BY <2>2, <2>3
<1> QED
  BY <1>2, <1>3, <1>4 DEF IInv

(* A new page for an exception stack, of the caller or of its child, is    *)
(* mapped nowhere else (sys_page_alloc).                                   *)
LEMMA StackAllocInv ==
  ASSUME IInv, NEW e \in Env, NEW x \in Env, NEW step, NEW next \in InFork,
         At(e, step), Goto(e, next), env_status[x] # "ENV_FREE",
         step \notin {"dup", "remap"}, next \notin {"dup", "remap"},
         step \in AfterCopy <=> next \in AfterCopy,
         sys_page_alloc(x, UXSTACK),
         UNCHANGED <<env_status, env_pgfault_upcall, handler, child, va, trap>>
  PROVE  /\ TypeOK' /\ ControlInv' /\ MappedInv' /\ CopiedInv' /\ ExclusiveInv' /\ CopyInv'
         /\ writable'[x][UXSTACK]
         /\ \A z \in Env, y \in Area : ~(z = x /\ y = UXSTACK) =>
              (writable'[z][y] <=> writable[z][y])
<1> USE Addresses DEF IInv
<1> DEFINE p == FirstFree
<1>1. /\ pc[e] = step /\ env_status[e] = "ENV_RUNNABLE" /\ pc' = [pc EXCEPT ![e] = next]
      /\ MemoryLeft /\ Insert(x, UXSTACK, p, TRUE)
      /\ content' = [content EXCEPT ![p] = 0]
      /\ UNCHANGED <<env_status, env_pgfault_upcall, handler, child, va, fault, store>>
  BY Forking DEF Goto, sys_page_alloc, trap
<1>2. p \in Page /\ \A z \in Env, y \in Area : at[z][y] # p
  BY <1>1, FreePage
<1> HIDE DEF p
<1>3. /\ at' \in [Env -> [Area -> Page \cup {None}]]
      /\ writable' \in [Env -> [Area -> BOOLEAN]]
      /\ \A z \in Env, y \in Area : writable'[z][y] => at'[z][y] # None
      /\ at'[x][UXSTACK] = p /\ writable'[x][UXSTACK]
      /\ \A z \in Env, y \in Area : ~(z = x /\ y = UXSTACK) =>
           at'[z][y] = at[z][y] /\ (writable'[z][y] <=> writable[z][y])
  BY <1>1, <1>2, InsertedWritable
<1>4. \A z \in Env : /\ pc'[z] \in Copying <=> pc[z] \in Copying
                     /\ pc'[z] \in AfterCopy <=> pc[z] \in AfterCopy
                     /\ pc'[z] = "remap" <=> pc[z] = "remap"
                     /\ pc'[z] = "dup" <=> pc[z] = "dup"
                     /\ z # e => pc'[z] = pc[z]
  BY <1>1 DEF TypeOK, Copying, AfterCopy
<1>5. TypeOK'
  <2>1. pc' \in [Env -> InFork \cup {"user"}]
    BY <1>1 DEF TypeOK
  <2>2. content' \in [Page -> Value]
    BY <1>1, <1>2, ForkAssumption DEF TypeOK
  <2> QED
    BY <1>1, <1>3, <2>1, <2>2 DEF TypeOK
<1>6. ControlInv'
  <2>1. ControlInv
    OBVIOUS
  <2>2. \A z \in Env : env_status'[z] # "ENV_RUNNABLE" => z # e /\ pc'[z] = pc[z]
    BY <1>1, <1>4
  <2>3. \A z \in Env : env_status'[z] # "ENV_RUNNABLE" =>
          pc'[z] = "user" /\ fault'[z] = "none" /\ store'[z] = None
    BY <1>1, <2>1, <2>2 DEF ControlInv
  <2> HIDE DEF IInv
  <2>4. UNCHANGED <<env_status, child, va, fault, store>>
    BY <1>1
  <2>5. ASSUME NEW z \in Env
        PROVE  IF pc'[z] \in Copying
               THEN child'[z] \in Env /\ env_status'[child'[z]] = "ENV_NOT_RUNNABLE"
               ELSE child'[z] = None
    <3>1. pc'[z] \in Copying <=> pc[z] \in Copying
      BY <1>4
    <3>2. IF pc[z] \in Copying
          THEN child[z] \in Env /\ env_status[child[z]] = "ENV_NOT_RUNNABLE"
          ELSE child[z] = None
      BY <2>1 DEF ControlInv
    <3> QED
      BY <2>4, <3>1, <3>2
  <2>6. ASSUME NEW z \in Env
        PROVE  /\ pc'[z] \in AfterCopy => va'[z] = Stack
               /\ pc'[z] \in Copying /\ store'[z] # None => store'[z][1] = Stack
    <3>1. /\ pc'[z] \in Copying <=> pc[z] \in Copying
          /\ pc'[z] \in AfterCopy <=> pc[z] \in AfterCopy
      BY <1>4
    <3>2. /\ pc[z] \in AfterCopy => va[z] = Stack
          /\ pc[z] \in Copying /\ store[z] # None => store[z][1] = Stack
      BY <2>1 DEF ControlInv
    <3> QED
      BY <2>4, <3>1, <3>2
  <2>7. /\ \A z, y \in Env : child'[z] = child'[y] /\ child'[z] # None => z = y
        /\ \A z \in Env : fault'[z] # "none" => store'[z] # None
    BY SMTT(60), <2>1, <2>4 DEF ControlInv
  <2> QED
    BY <2>3, <2>5, <2>6, <2>7 DEF ControlInv
<1>7. \A z \in Env, y \in VA \cup {UTEMP} :
        at'[z][y] = at[z][y] /\ (writable'[z][y] <=> writable[z][y])
  BY SMTT(60), <1>3
<1>8. MappedInv'
  <2>1. \A z \in Env : env_status'[z] = "ENV_FREE" => \A y \in Area : at'[z][y] = None
    BY SMTT(60), <1>1, <1>3 DEF MappedInv
  <2> QED
    BY SMTT(60), <1>1, <1>7, <2>1 DEF MappedInv
<1>9. CopiedInv'
  <2> SUFFICES ASSUME NEW z \in Env, pc[z] \in Copying, NEW y \in VA, Passed(z, y)
               PROVE  /\ at'[child[z]][y] # None
                      /\ y # Stack => at'[child[z]][y] = at'[z][y]
    BY SMTT(60), <1>1, <1>4 DEF CopiedInv, Passed
  <2>1. child[z] \in Env
    BY DEF ControlInv
  <2> QED
    BY SMTT(60), <1>7, <2>1 DEF CopiedInv
<1>10. ExclusiveInv'
  <2> SUFFICES ASSUME NEW z \in Env, NEW f \in Env, NEW y \in Area, NEW b \in Area,
                      writable'[z][y], at'[f][b] = at'[z][y], ~(z = f /\ y = b)
               PROVE  BetweenCalls(z, y, f, b)'
    BY DEF ExclusiveInv
  <2>1. ~(z = x /\ y = UXSTACK) /\ ~(f = x /\ b = UXSTACK)
    BY SMTT(60), <1>2, <1>3
  <2>2. BetweenCalls(z, y, f, b)
    BY <1>3, <2>1 DEF ExclusiveInv
  <2> QED
    BY <1>1, <1>4, <2>2 DEF BetweenCalls
<1>11. CopyInv'
  <2> SUFFICES ASSUME NEW z \in Env, fault[z] # "none" PROVE CopyOk(z)'
    BY <1>1 DEF CopyInv
  <2>1. CopyOk(z) /\ store[z][1] \in VA /\ at[z][store[z][1]] \in Page
    BY Faulting DEF CopyInv
  <2>2. content'[at[z][store[z][1]]] = content[at[z][store[z][1]]]
    BY <1>1, <1>2, <2>1 DEF TypeOK
  <2>3. fault[z] = "map" => content'[at[z][UTEMP]] = content[at[z][UTEMP]]
    BY SMTT(60), <1>1, <1>2 DEF MappedInv, TypeOK
  <2>4. /\ at'[z][UTEMP] = at[z][UTEMP] /\ at'[z][store[z][1]] = at[z][store[z][1]]
        /\ writable'[z][store[z][1]] <=> writable[z][store[z][1]]
    BY <1>7, <2>1
  <2> QED
    BY <1>1, <2>1, <2>2, <2>3, <2>4, CopyKeeps
<1> QED
  BY <1>3, <1>5, <1>6, <1>8, <1>9, <1>10, <1>11

(* The caller's exception stack. *)
LEMMA ExceptionStackInv ==
  ASSUME IInv, NEW e \in Env, ExceptionStack(e)
  PROVE  IInv'
<1>1. /\ At(e, "xstack") /\ Goto(e, "upcall") /\ sys_page_alloc(e, UXSTACK)
      /\ UNCHANGED <<env_status, env_pgfault_upcall, handler, child, va, trap>>
  BY DEF ExceptionStack
<1>2. pc[e] = "xstack" /\ env_status[e] = "ENV_RUNNABLE" /\ \A x \in Env : child[x] # e
  BY <1>1, Forking
<1>3. /\ TypeOK' /\ ControlInv' /\ MappedInv' /\ CopiedInv' /\ ExclusiveInv' /\ CopyInv'
      /\ writable'[e][UXSTACK]
      /\ \A z \in Env, y \in Area : ~(z = e /\ y = UXSTACK) =>
           (writable'[z][y] <=> writable[z][y])
  BY <1>1, <1>2, StackAllocInv DEF AfterCopy, InFork
<1>4. HandlerInv'
  <2> SUFFICES ASSUME NEW x \in Env PROVE HandlerOk(x)'
    BY DEF HandlerInv
  <2>1. HandlerOk(x) /\ (pc[x] \in Copying => child[x] \in Env /\ child[x] # e)
    BY <1>2 DEF IInv, HandlerInv, ControlInv
  <2>2. \A y \in VA : writable'[x][y] <=> writable[x][y]
    BY <1>3, Addresses
  <2>3. CASE x = e
    <3>1. pc'[e] = "upcall" /\ (handler'[e] <=> handler[e])
          /\ (env_pgfault_upcall'[e] <=> env_pgfault_upcall[e]) /\ env_status'[e] = env_status[e]
      BY <1>1 DEF Goto, IInv, TypeOK
    <3> QED
      BY <1>3, <2>1, <2>2, <2>3, <3>1 DEF HandlerOk, Ready, Copying
  <2>4. CASE x # e
    <3>1. pc'[x] = pc[x] /\ (writable'[x][UXSTACK] <=> writable[x][UXSTACK])
          /\ (pc[x] \in Copying =>
               (writable'[child[x]][UXSTACK] <=> writable[child[x]][UXSTACK]))
      BY <1>1, <1>3, <2>1, <2>4, Addresses DEF Goto, IInv, TypeOK
    <3> QED
      BY <1>1, <2>1, <2>2, <3>1 DEF HandlerOk, Ready, Copying
  <2> QED
    BY <2>3, <2>4
<1> QED
  BY <1>3, <1>4 DEF IInv

(* The child's exception stack. *)
LEMMA ChildStackInv ==
  ASSUME IInv, NEW e \in Env, ChildStack(e)
  PROVE  IInv'
<1> DEFINE c == child[e]
<1>1. /\ At(e, "childstack") /\ Goto(e, "status") /\ sys_page_alloc(c, UXSTACK)
      /\ UNCHANGED <<env_status, env_pgfault_upcall, handler, child, va, trap>>
  BY DEF ChildStack
<1>2. /\ pc[e] = "childstack" /\ env_status[e] = "ENV_RUNNABLE"
      /\ c \in Env /\ env_status[c] = "ENV_NOT_RUNNABLE" /\ c # e
  BY <1>1, Forking DEF IInv, ControlInv, Copying
<1> HIDE DEF c
<1>3. /\ TypeOK' /\ ControlInv' /\ MappedInv' /\ CopiedInv' /\ ExclusiveInv' /\ CopyInv'
      /\ writable'[c][UXSTACK]
      /\ \A z \in Env, y \in Area : ~(z = c /\ y = UXSTACK) =>
           (writable'[z][y] <=> writable[z][y])
  BY <1>1, <1>2, StackAllocInv DEF AfterCopy, InFork
<1>4. HandlerInv'
  <2> SUFFICES ASSUME NEW x \in Env PROVE HandlerOk(x)'
    BY DEF HandlerInv
  <2>1. HandlerOk(x) /\ (pc[x] \in Copying => child[x] \in Env)
    BY DEF IInv, HandlerInv, ControlInv
  <2>2. \A y \in VA : writable'[x][y] <=> writable[x][y]
    BY <1>3, Addresses
  <2>3. writable[x][UXSTACK] => writable'[x][UXSTACK]
    BY <1>3, Addresses
  <2>4. CASE x = e
    <3>1. pc'[e] = "status" /\ child'[e] = c /\ child[e] = c
      BY <1>1 DEF Goto, IInv, TypeOK, c
    <3> QED
      BY <1>1, <1>2, <1>3, <2>1, <2>2, <2>3, <2>4, <3>1 DEF HandlerOk, Ready, Copying
  <2>5. CASE x # e
    <3>1. pc'[x] = pc[x]
          /\ (pc[x] \in Copying =>
               (writable[child[x]][UXSTACK] => writable'[child[x]][UXSTACK]))
      BY SMTT(60), <1>1, <1>3, <2>1, <2>5, Addresses DEF Goto, IInv, TypeOK
    <3> QED
      BY <1>1, <2>1, <2>2, <2>3, <3>1 DEF HandlerOk, Ready, Copying
  <2> QED
    BY <2>4, <2>5
<1> QED
  BY <1>3, <1>4 DEF IInv

(* The new child maps nothing and runs nothing (sys_exofork). *)
LEMMA ExoforkInv ==
  ASSUME IInv, NEW e \in Env, NEW c \in Env, sys_exofork(e, c)
  PROVE  IInv'
<1> USE Addresses DEF IInv
<1>1. /\ At(e, "exofork") /\ env_status[c] = "ENV_FREE"
      /\ UNCHANGED <<at, writable, content, fault, store>>
  BY DEF sys_exofork, mapping, trap
<1>2. pc[e] = "exofork" /\ env_status[e] = "ENV_RUNNABLE" /\ \A x \in Env : child[x] # e
  BY <1>1, Forking
<1>3. /\ env_status'[c] = "ENV_NOT_RUNNABLE" /\ pc'[e] = "dup" /\ child'[e] = c /\ va'[e] = 1
      /\ (env_pgfault_upcall'[c] <=> env_pgfault_upcall[e]) /\ (handler'[c] <=> handler[e])
      /\ \A x \in Env : x # c => env_status'[x] = env_status[x]
                          /\ (env_pgfault_upcall'[x] <=> env_pgfault_upcall[x])
                          /\ (handler'[x] <=> handler[x])
      /\ \A x \in Env : x # e => pc'[x] = pc[x] /\ child'[x] = child[x] /\ va'[x] = va[x]
  BY DEF sys_exofork, Goto, TypeOK
<1>4. c # e /\ child[e] = None /\ \A x \in Env : child[x] # c
  BY <1>1, <1>2, ForkAssumption DEF ControlInv, Copying, TypeOK
<1>5. TypeOK'
  <2>1. /\ env_status' \in [Env -> Statuses] /\ pc' \in [Env -> InFork \cup {"user"}]
        /\ child' \in [Env -> Env \cup {None}] /\ va' \in [Env -> VA]
    BY DEF sys_exofork, Goto, TypeOK, Statuses, InFork
  <2>2. env_pgfault_upcall' \in [Env -> BOOLEAN] /\ handler' \in [Env -> BOOLEAN]
    BY DEF sys_exofork, TypeOK
  <2> QED
    BY <1>1, <2>1, <2>2 DEF TypeOK
<1>6. ControlInv'
  <2>1. \A x \in Env : env_status'[x] # "ENV_RUNNABLE" =>
          pc'[x] = "user" /\ fault'[x] = "none" /\ store'[x] = None
    <3> HIDE DEF IInv
    <3>1. \A x \in Env : env_status[x] # "ENV_RUNNABLE" =>
            pc[x] = "user" /\ fault[x] = "none" /\ store[x] = None
      BY DEF IInv, ControlInv
    <3>2. \A x \in Env : x # c /\ env_status'[x] # "ENV_RUNNABLE" => x # e
      BY <1>2, <1>3
    <3>3. \A x \in Env : env_status'[x] # "ENV_RUNNABLE" =>
            env_status[x] # "ENV_RUNNABLE" /\ x # e
      <4> TAKE x \in Env
      <4>1. CASE x = c
        BY <4>1, <1>1, <1>4
      <4>2. CASE x # c
        BY <4>2, <1>3, <3>2
      <4> QED
        BY <4>1, <4>2
    <3>4. \A x \in Env : x # e => pc'[x] = pc[x]
      BY <1>3
    <3>5. fault' = fault /\ store' = store
      BY <1>1
    <3> QED
      BY <3>1, <3>3, <3>4, <3>5
  <2>2. \A x \in Env : IF pc'[x] \in Copying
          THEN child'[x] \in Env /\ env_status'[child'[x]] = "ENV_NOT_RUNNABLE"
          ELSE child'[x] = None
    <3> HIDE DEF IInv
    <3>1. \A x \in Env : IF pc[x] \in Copying
            THEN child[x] \in Env /\ env_status[child[x]] = "ENV_NOT_RUNNABLE"
            ELSE child[x] = None
      BY DEF IInv, ControlInv
    <3>2. pc'[e] \in Copying
      BY <1>3 DEF Copying
    <3>3. CASE pc'[e] \in Copying
      BY SMTT(60), <1>3, <1>4, <3>1, <3>3
    <3> QED
      BY <3>2, <3>3
  <2>3. \A x, f \in Env : child'[x] = child'[f] /\ child'[x] # None => x = f
    <3> HIDE DEF IInv
    <3>1. \A x, f \in Env : child[x] = child[f] /\ child[x] # None => x = f
      BY DEF IInv, ControlInv
    <3> QED
      BY SMTT(60), <1>3, <1>4, <3>1
  <2>4. \A x \in Env : pc'[x] \in AfterCopy => va'[x] = Stack
    <3> HIDE DEF IInv
    <3>1. \A x \in Env : pc[x] \in AfterCopy => va[x] = Stack
      BY DEF IInv, ControlInv
    <3>2. pc'[e] \notin AfterCopy
      BY <1>3 DEF AfterCopy
    <3> QED
      BY <1>3, <3>1, <3>2
  <2>5. \A x \in Env : pc'[x] \in Copying /\ store'[x] # None => store'[x][1] = Stack
    BY <1>1, <1>3 DEF ControlInv, At
  <2>6. \A x \in Env : fault'[x] # "none" => store'[x] # None
    BY <1>1 DEF ControlInv
  <2> QED
    BY <2>1, <2>2, <2>3, <2>4, <2>5, <2>6 DEF ControlInv
<1>7. MappedInv'
  <2>1. \A y \in Area : at[c][y] = None /\ ~writable[c][y]
    BY <1>1 DEF MappedInv, TypeOK
  <2> QED
    BY SMTT(60), <1>1, <1>3, <2>1 DEF MappedInv
<1>8. CopiedInv'
  <2> SUFFICES ASSUME NEW x \in Env, (pc[x] \in Copying)', NEW y \in VA, Passed(x, y)'
               PROVE  /\ at'[child'[x]][y] # None
                      /\ y # Stack => at'[child'[x]][y] = at'[x][y]
    BY DEF CopiedInv
  <2>1. ~(y < 1)
    BY SMTT(60) DEF VA
  <2>2. x # e
    BY <1>3, <2>1 DEF Passed
  <2> QED
    BY SMTT(60), <1>1, <1>3, <2>2 DEF CopiedInv, Passed
<1>9. ExclusiveInv'
  <2>1. \A x, f \in Env, y, b \in Area :
          BetweenCalls(x, y, f, b) => BetweenCalls(x, y, f, b)'
    BY <1>1, <1>2, <1>3 DEF BetweenCalls
  <2> QED
    BY <1>1, <2>1 DEF ExclusiveInv
<1>10. CopyInv'
  BY <1>1 DEF CopyInv, CopyOk
<1>11. HandlerInv'
  <2> SUFFICES ASSUME NEW x \in Env PROVE HandlerOk(x)'
    BY DEF HandlerInv
  <2>1. HandlerOk(x) /\ HandlerOk(e) /\ (pc[x] \in Copying => child[x] \in Env /\ child[x] # c)
    BY <1>4 DEF HandlerInv, ControlInv
  <2>2. CASE x = e
    BY <1>1, <1>2, <1>3, <1>4, <2>1, <2>2 DEF HandlerOk, Ready, Copying
  <2>3. CASE x = c
    <3>1. pc'[c] = "user" /\ env_status'[c] = "ENV_NOT_RUNNABLE"
      BY SMTT(60), <1>1, <1>3, <1>4 DEF ControlInv
    <3> QED
      BY <2>3, <3>1 DEF HandlerOk, Copying
  <2>4. CASE x # e /\ x # c
    BY <1>1, <1>3, <2>1, <2>4 DEF HandlerOk, Ready, Copying
  <2> QED
    BY <2>2, <2>3, <2>4
<1> QED
  BY <1>5, <1>6, <1>7, <1>8, <1>9, <1>10, <1>11

(* The child of the environment in fork, and the page duppage is at. *)
LEMMA Copies ==
  ASSUME IInv, NEW e \in Env, NEW step \in Copying, At(e, step)
  PROVE  /\ child[e] \in Env /\ child[e] # e
         /\ env_status[child[e]] = "ENV_NOT_RUNNABLE"
         /\ pc[child[e]] = "user" /\ fault[child[e]] = "none"
         /\ \A x \in Env : x # e => child[x] # child[e]
         /\ va[e] \in VA /\ at[e][va[e]] \in Page
<1>1. pc[e] = step /\ env_status[e] = "ENV_RUNNABLE"
  BY Forking
<1>2. child[e] \in Env /\ env_status[child[e]] = "ENV_NOT_RUNNABLE"
  BY <1>1 DEF IInv, ControlInv
<1>3. child[e] # e /\ pc[child[e]] = "user" /\ fault[child[e]] = "none"
  BY <1>1, <1>2 DEF IInv, ControlInv
<1>4. \A x \in Env : x # e => child[x] # child[e]
  BY <1>2, ForkAssumption DEF IInv, ControlInv
<1>5. va[e] \in VA /\ at[e][va[e]] \in Page
  BY SMTT(60), <1>1, Addresses DEF IInv, MappedInv, TypeOK
<1> QED
  BY <1>1, <1>2, <1>3, <1>4, <1>5

(* duppage's first call: the child maps the page read-only. *)
LEMMA DupInv ==
  ASSUME IInv, NEW e \in Env, At(e, "dup"), Goto(e, "remap"),
         sys_page_map(e, va[e], child[e], va[e], FALSE),
         UNCHANGED <<va, env_status, env_pgfault_upcall, handler, child, trap>>
  PROVE  IInv'
<1> USE Addresses DEF IInv
<1> DEFINE c == child[e]
           a == va[e]
           p == at[e][va[e]]
<1>1. /\ pc[e] = "dup" /\ env_status[e] = "ENV_RUNNABLE" /\ fault[e] = "none"
      /\ store[e] = None /\ \A x \in Env : child[x] # e
  BY Forking
<1>2. /\ c \in Env /\ c # e /\ env_status[c] = "ENV_NOT_RUNNABLE" /\ pc[c] = "user"
      /\ fault[c] = "none" /\ (\A x \in Env : x # e => child[x] # c)
      /\ a \in VA /\ p \in Page
  BY Copies DEF Copying
<1>3. Insert(c, a, p, FALSE) /\ UNCHANGED <<content, fault, store>>
  BY DEF sys_page_map, trap
<1>4. /\ pc'[e] = "remap" /\ \A x \in Env : x # e => pc'[x] = pc[x]
      /\ pc' \in [Env -> InFork \cup {"user"}]
  BY DEF Goto, TypeOK, InFork
<1>5. child[e] = c /\ va[e] = a /\ at[e][a] = p
  OBVIOUS
<1> HIDE DEF c, a, p
<1>6. /\ at' \in [Env -> [Area -> Page \cup {None}]]
      /\ writable' \in [Env -> [Area -> BOOLEAN]]
      /\ \A x \in Env, y \in Area : writable'[x][y] => at'[x][y] # None
      /\ at'[c][a] = p /\ ~writable'[c][a]
      /\ \A x \in Env, y \in Area : ~(x = c /\ y = a) =>
           at'[x][y] = at[x][y] /\ (writable'[x][y] <=> writable[x][y])
  BY <1>2, <1>3, InsertedReadOnly
<1>7. TypeOK'
  BY <1>3, <1>4, <1>6 DEF TypeOK
<1>8. ControlInv'
  BY <1>1, <1>3, <1>4 DEF ControlInv, Copying, AfterCopy
<1>9. MappedInv'
  <2>1. \A x \in Env : env_status'[x] = "ENV_RUNNABLE" => \A y \in VA : at'[x][y] # None
    BY SMTT(60), <1>2, <1>6 DEF MappedInv
  <2>2. \A x \in Env : env_status'[x] = "ENV_FREE" => \A y \in Area : at'[x][y] = None
    BY SMTT(60), <1>2, <1>6 DEF MappedInv
  <2>3. \A x \in Env : env_status'[x] = "ENV_NOT_RUNNABLE" => \A y \in VA : ~writable'[x][y]
    BY SMTT(60), <1>2, <1>6 DEF MappedInv
  <2>4. \A x \in Env : at'[x][UTEMP] = at[x][UTEMP]
                       /\ (writable'[x][UTEMP] <=> writable[x][UTEMP])
    BY <1>2, <1>6
  <2> QED
    BY <1>3, <2>1, <2>2, <2>3, <2>4 DEF MappedInv
<1>10. CopiedInv'
  <2> SUFFICES ASSUME NEW x \in Env, (pc[x] \in Copying)', NEW y \in VA, Passed(x, y)'
               PROVE  /\ at'[child[x]][y] # None
                      /\ y # Stack => at'[child[x]][y] = at'[x][y]
    BY DEF CopiedInv
  <2>1. x # c
    BY <1>2, <1>4 DEF Copying
  <2>2. at'[x][y] = at[x][y]
    BY <1>6, <2>1
  <2>3. CASE x = e
    <3>1. y = a \/ Passed(e, y)
      BY <1>4, <1>5, <2>3 DEF Passed
    <3>2. CASE y = a
      BY <1>2, <1>5, <1>6, <2>2, <2>3, <3>2
    <3>3. CASE y # a /\ Passed(e, y)
      <4>1. at'[c][y] = at[c][y]
        BY <1>2, <1>6, <3>3
      <4> QED
        BY <1>1, <1>5, <2>2, <2>3, <3>3, <4>1 DEF CopiedInv, Copying
    <3> QED
      BY <3>1, <3>2, <3>3
  <2>4. CASE x # e
    <3>1. pc[x] \in Copying /\ Passed(x, y) /\ child[x] \in Env /\ child[x] # c
      <4>1. pc'[x] = pc[x] /\ va' = va
        BY <1>4, <2>4
      <4>2. pc[x] \in Copying
        BY <4>1
      <4>3. Passed(x, y)
        BY <4>1 DEF Passed
      <4>4. child[x] \in Env /\ child[x] # c
        BY <1>2, <2>4, <4>2 DEF ControlInv
      <4> QED
        BY <4>2, <4>3, <4>4
    <3>2. at'[child[x]][y] = at[child[x]][y]
      BY <1>6, <3>1
    <3> QED
      BY <2>2, <3>1, <3>2 DEF CopiedInv
  <2> QED
    BY <2>3, <2>4
<1>11. ExclusiveInv'
  <2> SUFFICES ASSUME NEW x \in Env, NEW f \in Env, NEW y \in Area, NEW b \in Area,
                      writable'[x][y], at'[f][b] = at'[x][y], ~(x = f /\ y = b)
               PROVE  BetweenCalls(x, y, f, b)'
    BY DEF ExclusiveInv
  <2>1. ~(x = c /\ y = a) /\ at'[x][y] = at[x][y] /\ writable[x][y]
    BY <1>6
  <2>2. CASE f = c /\ b = a
    <3>1. at[x][y] = at[e][a]
      BY <1>5, <1>6, <2>1, <2>2
    <3>2. (x = e /\ y = a) \/ BetweenCalls(x, y, e, a)
      BY <1>2, <2>1, <3>1 DEF ExclusiveInv
    <3>3. ~BetweenCalls(x, y, e, a)
      BY <1>1 DEF BetweenCalls
    <3> QED
      BY <1>4, <1>5, <2>2, <3>2, <3>3 DEF BetweenCalls
  <2>3. CASE ~(f = c /\ b = a)
    <3>1. at'[f][b] = at[f][b]
      BY <1>6, <2>3
    <3>2. BetweenCalls(x, y, f, b)
      BY <2>1, <3>1 DEF ExclusiveInv
    <3> QED
      BY <1>1, <1>3, <1>4, <3>2 DEF BetweenCalls
  <2> QED
    BY <2>2, <2>3
<1>12. CopyInv'
  <2> SUFFICES ASSUME NEW x \in Env, fault[x] # "none" PROVE CopyOk(x)'
    BY <1>3 DEF CopyInv
  <2>1. CopyOk(x) /\ store[x][1] \in VA /\ x # c
    BY <1>2, Faulting DEF CopyInv
  <2>2. /\ at'[x][UTEMP] = at[x][UTEMP] /\ at'[x][store[x][1]] = at[x][store[x][1]]
        /\ writable'[x][store[x][1]] <=> writable[x][store[x][1]]
    BY SMTT(60), <1>6, <2>1
  <2> QED
    BY <1>3, <2>1, <2>2, CopyKeeps
<1>13. HandlerInv'
  <2> SUFFICES ASSUME NEW x \in Env PROVE HandlerOk(x)'
    BY DEF HandlerInv
  <2>1. HandlerOk(x) /\ (pc[x] \in Copying => child[x] \in Env)
    BY DEF HandlerInv, ControlInv
  <2>2. /\ writable'[x][UXSTACK] <=> writable[x][UXSTACK]
        /\ pc[x] \in Copying =>
             (writable'[child[x]][UXSTACK] <=> writable[child[x]][UXSTACK])
    BY <1>2, <1>6, <2>1
  <2>3. env_status[x] = "ENV_RUNNABLE" => \A y \in VA : writable'[x][y] <=> writable[x][y]
    BY <1>2, <1>6
  <2>4. CASE x = e
    BY <1>1, <1>4, <2>1, <2>2, <2>3, <2>4 DEF HandlerOk, Ready, Copying
  <2>5. CASE x # e
    BY <1>4, <2>1, <2>2, <2>3, <2>5 DEF HandlerOk, Ready, Copying
  <2> QED
    BY <2>4, <2>5
<1> QED
  BY <1>7, <1>8, <1>9, <1>10, <1>11, <1>12, <1>13

(* duppage's second call: the page loses PTE_W in the parent too. *)
LEMMA RemapInv ==
  ASSUME IInv, NEW e \in Env, At(e, "remap"),
         Goto(e, IF va[e] = Stack THEN "share" ELSE "dup"),
         sys_page_map(e, va[e], e, va[e], FALSE),
         va' = [va EXCEPT ![e] = IF @ = Stack THEN @ ELSE @ + 1],
         UNCHANGED <<env_status, env_pgfault_upcall, handler, child, trap>>
  PROVE  IInv'
<1> USE Addresses DEF IInv
<1> DEFINE a == va[e]
           p == at[e][va[e]]
<1>1. /\ pc[e] = "remap" /\ env_status[e] = "ENV_RUNNABLE" /\ fault[e] = "none"
      /\ store[e] = None /\ \A x \in Env : child[x] # e
  BY Forking
<1>2. child[e] \in Env /\ child[e] # e /\ a \in VA /\ p \in Page
  BY Copies DEF Copying
<1>3. Insert(e, a, p, FALSE) /\ UNCHANGED <<content, fault, store>>
  BY DEF sys_page_map, trap
<1>4. /\ pc'[e] = IF a = Stack THEN "share" ELSE "dup"
      /\ va'[e] = IF a = Stack THEN a ELSE a + 1
      /\ \A x \in Env : x # e => pc'[x] = pc[x] /\ va'[x] = va[x]
      /\ pc' \in [Env -> InFork \cup {"user"}]
  BY DEF Goto, TypeOK, InFork
<1>5. va'[e] \in VA /\ va' \in [Env -> VA]
  <2>1. (IF a = Stack THEN a ELSE a + 1) \in VA
    BY <1>2, NextPage
  <2> QED
    BY <2>1 DEF TypeOK
<1>6. va[e] = a /\ at[e][a] = p
  OBVIOUS
<1> HIDE DEF a, p
<1>7. /\ writable' \in [Env -> [Area -> BOOLEAN]]
      /\ at' \in [Env -> [Area -> Page \cup {None}]]
      /\ \A x \in Env, y \in Area : writable'[x][y] => at'[x][y] # None
      /\ ~writable'[e][a]
      /\ \A x \in Env, y \in Area : at'[x][y] = at[x][y]
      /\ \A x \in Env, y \in Area : ~(x = e /\ y = a) =>
           (writable'[x][y] <=> writable[x][y])
  <2>1. /\ writable' \in [Env -> [Area -> BOOLEAN]]
        /\ at' \in [Env -> [Area -> Page \cup {None}]]
        /\ \A x \in Env, y \in Area : writable'[x][y] => at'[x][y] # None
        /\ at'[e][a] = p /\ ~writable'[e][a]
        /\ \A x \in Env, y \in Area : ~(x = e /\ y = a) =>
             at'[x][y] = at[x][y] /\ (writable'[x][y] <=> writable[x][y])
    BY <1>2, <1>3, InsertedReadOnly
  <2>2. \A x \in Env, y \in Area : at'[x][y] = at[x][y]
    BY <1>6, <2>1
  <2> QED
    BY <2>1, <2>2
<1>8. TypeOK'
  BY <1>3, <1>4, <1>5, <1>7 DEF TypeOK
<1>9. ControlInv'
  <2>1. \A x \in Env : /\ pc'[x] \in Copying <=> pc[x] \in Copying
                       /\ pc'[x] \in AfterCopy => va'[x] = Stack
    BY <1>1, <1>4 DEF ControlInv, Copying, AfterCopy
  <2> QED
    BY <1>1, <1>3, <1>4, <2>1 DEF ControlInv
<1>10. MappedInv'
  <2>1. \A x \in Env : env_status[x] = "ENV_NOT_RUNNABLE" => \A y \in VA : ~writable'[x][y]
    BY <1>7 DEF MappedInv
  <2>2. \A x \in Env : at'[x][UTEMP] = at[x][UTEMP]
                       /\ (writable'[x][UTEMP] <=> writable[x][UTEMP])
    BY <1>2, <1>7
  <2>3. \A x \in Env : env_status[x] = "ENV_RUNNABLE" => \A y \in VA : at'[x][y] # None
    BY SMTT(60), <1>7 DEF MappedInv
  <2>4. \A x \in Env : env_status[x] = "ENV_FREE" => \A y \in Area : at'[x][y] = None
    BY SMTT(60), <1>7 DEF MappedInv
  <2> QED
    BY <1>3, <2>1, <2>2, <2>3, <2>4 DEF MappedInv
<1>11. CopiedInv'
  <2> SUFFICES ASSUME NEW x \in Env, (pc[x] \in Copying)', NEW y \in VA, Passed(x, y)'
               PROVE  /\ at'[child[x]][y] # None
                      /\ y # Stack => at'[child[x]][y] = at'[x][y]
    BY DEF CopiedInv
  <2>1. pc[x] \in Copying /\ Passed(x, y)
    <3>1. CASE x # e
      BY <1>4, <3>1 DEF Passed
    <3>2. CASE x = e
      <4>1. y \in Nat /\ a \in Nat
        BY <1>2, NextPage
      <4>2. y < a \/ y = a
        BY SMTT(60), <1>4, <3>2, <4>1 DEF Passed
      <4> QED
        BY <1>1, <1>6, <3>2, <4>2 DEF Passed, Copying
    <3> QED
      BY <3>1, <3>2
  <2>2. child[x] \in Env
    BY <2>1 DEF ControlInv
  <2> QED
    BY SMTT(60), <1>7, <2>1, <2>2 DEF CopiedInv
<1>12. ExclusiveInv'
  <2> SUFFICES ASSUME NEW x \in Env, NEW f \in Env, NEW y \in Area, NEW b \in Area,
                      writable'[x][y], at'[f][b] = at'[x][y], ~(x = f /\ y = b)
               PROVE  BetweenCalls(x, y, f, b)'
    BY DEF ExclusiveInv
  <2>1. ~(x = e /\ y = a) /\ writable[x][y] /\ at[f][b] = at[x][y]
    BY SMTT(60), <1>7
  <2>2. BetweenCalls(x, y, f, b)
    BY <2>1 DEF ExclusiveInv
  <2> QED
    BY <1>1, <1>3, <1>4, <1>6, <2>1, <2>2 DEF BetweenCalls
<1>13. CopyInv'
  <2> SUFFICES ASSUME NEW x \in Env, fault[x] # "none" PROVE CopyOk(x)'
    BY <1>3 DEF CopyInv
  <2>1. CopyOk(x) /\ store[x][1] \in VA /\ x # e
    BY <1>1, Faulting DEF CopyInv
  <2>2. /\ at'[x][UTEMP] = at[x][UTEMP] /\ at'[x][store[x][1]] = at[x][store[x][1]]
        /\ writable'[x][store[x][1]] <=> writable[x][store[x][1]]
    BY <1>7, <2>1
  <2> QED
    BY <1>3, <2>1, <2>2, CopyKeeps
<1>14. HandlerInv'
  <2> SUFFICES ASSUME NEW x \in Env PROVE HandlerOk(x)'
    BY DEF HandlerInv
  <2>1. HandlerOk(x) /\ (pc[x] \in Copying => child[x] \in Env)
    BY DEF HandlerInv, ControlInv
  <2>2. /\ writable'[x][UXSTACK] <=> writable[x][UXSTACK]
        /\ pc[x] \in Copying =>
             (writable'[child[x]][UXSTACK] <=> writable[child[x]][UXSTACK])
    BY <1>2, <1>7, <2>1
  <2>3. CASE x = e
    BY <1>1, <1>4, <2>1, <2>2, <2>3 DEF HandlerOk, Ready, Copying
  <2>4. CASE x # e
    <3>1. \A y \in VA : writable'[x][y] <=> writable[x][y]
      BY <1>7, <2>4
    <3> QED
      BY <1>4, <2>1, <2>2, <2>4, <3>1 DEF HandlerOk, Ready, Copying
  <2> QED
    BY <2>3, <2>4
<1> QED
  BY <1>8, <1>9, <1>10, <1>11, <1>12, <1>13, <1>14

(* The child may run: all of it is mapped and its handler is installed.    *)
LEMMA SetStatusInv ==
  ASSUME IInv, NEW e \in Env, sys_env_set_status(e)
  PROVE  IInv'
<1> USE Addresses DEF IInv
<1> DEFINE c == child[e]
<1>1. At(e, "status") /\ UNCHANGED <<at, writable, content, env_pgfault_upcall, handler,
                                     fault, store>>
  BY DEF sys_env_set_status, mapping, trap
<1>2. /\ pc[e] = "status" /\ env_status[e] = "ENV_RUNNABLE" /\ fault[e] = "none"
      /\ store[e] = None /\ (\A x \in Env : child[x] # e)
      /\ c \in Env /\ c # e /\ env_status[c] = "ENV_NOT_RUNNABLE" /\ pc[c] = "user"
      /\ fault[c] = "none" /\ (\A x \in Env : x # e => child[x] # c)
  BY SMTT(60), <1>1, Forking, Copies DEF Copying
<1>3. /\ env_status'[c] = "ENV_RUNNABLE" /\ pc'[e] = "user" /\ child'[e] = None
      /\ \A x \in Env : x # c => env_status'[x] = env_status[x]
      /\ \A x \in Env : x # e => pc'[x] = pc[x] /\ child'[x] = child[x] /\ va'[x] = va[x]
  BY <1>2 DEF sys_env_set_status, Goto, TypeOK
<1>4. TypeOK'
  <2>1. /\ env_status' \in [Env -> Statuses] /\ pc' \in [Env -> InFork \cup {"user"}]
        /\ child' \in [Env -> Env \cup {None}] /\ va' \in [Env -> VA]
    BY DEF sys_env_set_status, Goto, TypeOK, Statuses
  <2> QED
    BY <1>1, <2>1 DEF TypeOK
<1> HIDE DEF c
<1>5. ControlInv'
  <2>1. \A x \in Env : env_status'[x] # "ENV_RUNNABLE" =>
          pc'[x] = "user" /\ fault'[x] = "none" /\ store'[x] = None
    BY <1>1, <1>2, <1>3 DEF ControlInv
  <2>2. \A x \in Env : IF pc'[x] \in Copying
          THEN child'[x] \in Env /\ env_status'[child'[x]] = "ENV_NOT_RUNNABLE"
          ELSE child'[x] = None
    <3> SUFFICES ASSUME NEW x \in Env
                 PROVE  IF pc'[x] \in Copying
                        THEN child'[x] \in Env /\ env_status'[child'[x]] = "ENV_NOT_RUNNABLE"
                        ELSE child'[x] = None
      OBVIOUS
    <3>1. CASE x = e
      BY <1>3, <3>1 DEF Copying
    <3>2. CASE x # e
      <4>1. pc'[x] = pc[x] /\ child'[x] = child[x] /\ child[x] # c
        BY <1>2, <1>3, <3>2
      <4>2. \A y \in Env : y # c => env_status'[y] = env_status[y]
        BY <1>3
      <4> QED
        BY <4>1, <4>2 DEF ControlInv
    <3> QED
      BY <3>1, <3>2
  <2>3. \A x, f \in Env : child'[x] = child'[f] /\ child'[x] # None => x = f
    BY SMTT(60), <1>3 DEF ControlInv
  <2>4. \A x \in Env : pc'[x] \in AfterCopy => va'[x] = Stack
    BY <1>3 DEF ControlInv, AfterCopy
  <2>5. \A x \in Env : pc'[x] \in Copying /\ store'[x] # None => store'[x][1] = Stack
    BY <1>1, <1>3 DEF ControlInv, Copying
  <2>6. \A x \in Env : fault'[x] # "none" => store'[x] # None
    BY <1>1 DEF ControlInv
  <2> QED
    BY <2>1, <2>2, <2>3, <2>4, <2>5, <2>6 DEF ControlInv
<1>6. \A y \in VA : at[c][y] # None
  <2> SUFFICES ASSUME NEW y \in VA PROVE at[c][y] # None
    OBVIOUS
  <2>1. va[e] = Stack
    BY <1>2 DEF ControlInv, AfterCopy
  <2>2. Stack \in Nat /\ y \in Nat /\ y <= Stack
    BY NextPage
  <2>3. y < Stack \/ y = Stack
    BY SMTT(60), <2>2
  <2>4. Passed(e, y)
    BY <1>2, <2>1, <2>3 DEF Passed
  <2> QED
    BY <1>2, <2>4 DEF CopiedInv, Copying, c
<1>7. MappedInv'
  BY <1>1, <1>2, <1>3, <1>6 DEF MappedInv
<1>8. CopiedInv'
  <2> SUFFICES ASSUME NEW x \in Env, (pc[x] \in Copying)', NEW y \in VA, Passed(x, y)'
               PROVE  /\ at'[child'[x]][y] # None
                      /\ y # Stack => at'[child'[x]][y] = at'[x][y]
    BY DEF CopiedInv
  <2>1. x # e
    BY <1>3 DEF Copying
  <2> QED
    BY SMTT(60), <1>1, <1>3, <2>1 DEF CopiedInv, Passed
<1>9. ExclusiveInv'
  <2>1. \A x, f \in Env, y, b \in Area :
          BetweenCalls(x, y, f, b) => BetweenCalls(x, y, f, b)'
    BY <1>1, <1>2, <1>3 DEF BetweenCalls
  <2> QED
    BY <1>1, <2>1 DEF ExclusiveInv
<1>10. CopyInv'
  BY <1>1 DEF CopyInv, CopyOk
<1>11. HandlerInv'
  <2> SUFFICES ASSUME NEW x \in Env PROVE HandlerOk(x)'
    BY DEF HandlerInv
  <2>1. HandlerOk(x) /\ HandlerOk(e) /\ child[e] = c
    BY DEF HandlerInv, c
  <2>2. CASE x = e
    BY <1>1, <1>2, <1>3, <2>1, <2>2 DEF HandlerOk, Ready, Copying
  <2>3. CASE x = c
    <3>1. pc'[c] = "user"
      BY <1>2, <1>3
    <3> QED
      BY <1>1, <1>2, <1>3, <2>1, <2>3, <3>1 DEF HandlerOk, Ready, Copying
  <2>4. CASE x # e /\ x # c
    BY <1>1, <1>3, <2>1, <2>4 DEF HandlerOk, Ready, Copying
  <2> QED
    BY <2>2, <2>3, <2>4
<1> QED
  BY <1>4, <1>5, <1>7, <1>8, <1>9, <1>10, <1>11

-----------------------------------------------------------------------------
(* All steps together. *)

(* A store of user code, new or again after its fault. *)
LEMMA StoreInv ==
  ASSUME IInv, NEW e \in Env, NEW a \in VA, NEW v \in Value, Store(e, a, v)
  PROVE  IInv'
<1>1. pc[e] \in Copying => a = Stack
  <2>1. CASE store[e] = None
    BY <2>1 DEF Store, StoresAt, Copying
  <2>2. CASE store[e] # None
    <3>1. store[e][1] = a
      BY SMTT(60), <2>2 DEF Store
    <3> QED
      BY <2>2, <3>1 DEF IInv, ControlInv
  <2> QED
    BY <2>1, <2>2
<1>2. CASE writable[e][a]
  BY <1>2, WriteInv DEF Store
<1>3. CASE ~writable[e][a]
  BY <1>1, <1>3, FaultInv DEF Store
<1> QED
  BY <1>2, <1>3

(* Every step of fork, of pgfault and of user code keeps the invariant.    *)
LEMMA NextInv ==
  ASSUME IInv, [Next]_vars
  PROVE  IInv'
<1>1. ASSUME NEW e \in Env, NEW a \in VA, NEW v \in Value, Store(e, a, v) PROVE IInv'
  BY <1>1, StoreInv
<1>2. ASSUME NEW e \in Env, CallFork(e) PROVE IInv'
  BY <1>2, CallForkInv
<1>3. ASSUME NEW e \in Env, Retry(e) PROVE IInv'
  <2>1. store[e] \in VA \X Value
    BY <1>3 DEF Retry, IInv, TypeOK
  <2>2. store[e][1] \in VA /\ store[e][2] \in Value
    BY <2>1
  <2> QED
    BY <1>3, <2>2, StoreInv DEF Retry
<1>4. ASSUME NEW e \in Env, pgfault(e) PROVE IInv'
  BY <1>4, PgfaultAllocInv, PgfaultCopyInv, PgfaultMapInv, PgfaultUnmapInv DEF pgfault
<1>5. ASSUME NEW e \in Env, ExceptionStack(e) \/ sys_env_set_pgfault_upcall(e) \/ SetHandler(e)
      PROVE  IInv'
  BY <1>5, ExceptionStackInv, UpcallInv, SetHandlerInv
<1>6. ASSUME NEW e \in Env, NEW c \in Env, sys_exofork(e, c) PROVE IInv'
  BY <1>6, ExoforkInv
<1>7. ASSUME NEW e \in Env, duppage(e) PROVE IInv'
  BY <1>7, DupInv, RemapInv DEF duppage
<1>8. ASSUME NEW e \in Env, sys_copy_shared_pages(e) \/ ChildStack(e) \/ sys_env_set_status(e)
      PROVE  IInv'
  BY <1>8, ShareInv, ChildStackInv, SetStatusInv
<1>9. ASSUME NEW e \in Env, env_destroy(e) PROVE IInv'
  BY <1>9, FreeInv DEF env_destroy
<1>10. CASE UNCHANGED vars
  <2> USE <1>10 DEF vars, mapping, control, trap, IInv
  <2>1. TypeOK'
    BY DEF TypeOK
  <2>2. ControlInv' /\ MappedInv'
    BY DEF ControlInv, MappedInv
  <2>3. CopiedInv'
    BY DEF CopiedInv, Passed
  <2>4. ExclusiveInv'
    BY SMTT(60) DEF ExclusiveInv, BetweenCalls
  <2>5. CopyInv'
    BY DEF CopyInv, CopyOk
  <2>6. HandlerInv'
    BY DEF HandlerInv, HandlerOk, Ready
  <2> QED
    BY <2>1, <2>2, <2>3, <2>4, <2>5, <2>6
<1> QED
  BY <1>1, <1>2, <1>3, <1>4, <1>5, <1>6, <1>7, <1>8, <1>9, <1>10 DEF Next, Continue

(* The inductive invariant: who shares which page with whom at every step  *)
(* of fork and pgfault.                                                    *)
THEOREM InvariantHolds == Spec => []IInv
  BY InitInv, NextInv, PTL DEF Spec

(* Types, and that an address is writable only where something is mapped   *)
(* (TypeOK).                                                               *)
THEOREM TypeCorrect == Spec => []TypeOK
<1>1. IInv => TypeOK
  BY DEF IInv
<1> QED
  BY InvariantHolds, <1>1, PTL

(* A store to a shared page never kills its environment: whoever shares a  *)
(* page has the upcall and an exception stack of its own (fork,            *)
(* set_pgfault_handler).                                                   *)
THEOREM FaultsAreHandled == Spec => []FaultsHandled
<1>1. IInv => FaultsHandled
  <2> SUFFICES ASSUME IInv, NEW e \in Env, env_status[e] = "ENV_RUNNABLE",
                      \E a \in VA : ~writable[e][a]
               PROVE  /\ env_pgfault_upcall[e] /\ writable[e][UXSTACK]
                      /\ \A f \in Env, a \in Area :
                           at[f][a] = at[e][UXSTACK] => f = e /\ a = UXSTACK
    BY DEF FaultsHandled
  <2>1. env_pgfault_upcall[e] /\ writable[e][UXSTACK]
    BY DEF IInv, HandlerInv, HandlerOk, Ready
  <2>2. ASSUME NEW f \in Env, NEW a \in Area, at[f][a] = at[e][UXSTACK],
               ~(e = f /\ UXSTACK = a)
        PROVE  FALSE
    <3>1. BetweenCalls(e, UXSTACK, f, a)
      BY <2>1, <2>2, Addresses DEF IInv, ExclusiveInv
    <3>2. va[e] # UXSTACK
      BY Addresses DEF IInv, TypeOK
    <3>3. fault[e] = "unmap" => store[e][1] \in VA
      BY Faulting
    <3> QED
      BY <3>1, <3>2, <3>3, Addresses DEF BetweenCalls
  <2> QED
    BY <2>1, <2>2
<1> QED
  BY <1>1, InvariantHolds, PTL
=============================================================================
