---------------------------- MODULE KernelProofs ----------------------------
(***************************************************************************)
(* Proofs about Kernel, for any number of CPUs and slots: under the        *)
(* documented use of the system calls, the lock excludes, the statuses in  *)
(* envs[] agree with what the CPUs run, the free list is exact, and every  *)
(* environment resumes right after its system call.                        *)
(*                                                                         *)
(* A handler ends in the scheduler with intermediate statuses st and       *)
(* current environment cur.  Mid says what must hold of these when the     *)
(* scheduler is called on CPU c; lemma SchedYield shows that Mid is enough *)
(* for everything about CPUs, lock and statuses after the step.  What is   *)
(* left for each handler is to show Mid, and to look after the free list   *)
(* and the saved registers.                                                *)
(***************************************************************************)
EXTENDS Kernel, TLAPS

(* A leaf is for Zenon, unless it names the SMT solver. *)
USE ZenonT(60)

(***************************************************************************)
(* The documented use of the calls, and a boot that takes less time than   *)
(* the first timer tick of an AP.                                          *)
(***************************************************************************)
Disciplined ==
  /\ StatusArgs \subseteq {"RUNNABLE", "NOT_RUNNABLE"}
  /\ ~MayTouchReceiver /\ ~MayRedestroy /\ ~SlowBoot

(***************************************************************************)
(* The inductive invariant.                                                *)
(***************************************************************************)
ModesAgree ==
  /\ \A c \in CPU :
       /\ mode[c] \in {"off", "boot", "mpmain", "htrap", "skern", "halt"} =>
            cpu_env[c] = NULL
       /\ mode[c] = "halt" => cpu_status[c] = "HALTED"
       /\ cpu_status[c] = "HALTED" => mode[c] \in {"halt", "dead"}
       /\ mode[c] # "relock"
       /\ mode[c] = "dead" => panicstr
       /\ mode[c] = "panic" => cpu_env[c] # NULL
  /\ panicstr => \E c \in CPU : mode[c] = "panic"

PanicAlone ==
  \A c, d \in CPU : mode[c] = "panic" /\ Current(d) => cpu_env[c] # cpu_env[d]

TfOk(e) ==
  IF env_ipc_recving[e]
  THEN env_status[e] = "NOT_RUNNABLE" /\ env_tf[e] = [call |-> "recv", sepc |-> 0]
  ELSE ResumeAt(env_tf[e]) = IF env_tf[e].call = "none" THEN 0 ELSE 1

Panicking(e) == \E c \in CPU : mode[c] = "panic" /\ cpu_env[c] = e

RegistersOk ==
  \A e \in Slots : env_status[e] # "FREE" =>
    /\ env_ipc_recving[e] => TfOk(e)
    /\ ~Panicking(e) => TfOk(e)

CpuInv == KernelMutex /\ RunningIsCurrent /\ ModesAgree /\ PanicAlone

IInv == TypeOK /\ CpuInv /\ FreeListExact /\ RegistersOk

-----------------------------------------------------------------------------
(* The scheduler. *)

Mid(c, st, cur) ==
  /\ st \in [Slots -> Statuses]
  /\ cur \in Slots \cup {NULL}
  /\ cur # NULL => st[cur] # "DYING"
  /\ \A d \in CPU \ {c} : Current(d) =>
       cpu_env[d] # cur /\ st[cpu_env[d]] \in {"RUNNING", "DYING"}
  /\ \A e \in Slots : st[e] \in {"RUNNING", "DYING"} =>
       e = cur \/ \E d \in CPU \ {c} : Current(d) /\ cpu_env[d] = e

CpuTypes ==
  /\ env_status \in [Slots -> Statuses]
  /\ cpu_env \in [CPU -> Slots \cup {NULL}]
  /\ cpu_status \in [CPU -> {"UNUSED", "STARTED", "HALTED"}]
  /\ mode \in [CPU -> Modes]
  /\ locked \in BOOLEAN
  /\ panicstr \in BOOLEAN

(***************************************************************************)
(* What the scheduler leaves of st: sleepers sleep on, the free stay free. *)
(***************************************************************************)
KeepsSleep(st) ==
  \A e \in Slots :
    /\ env_status'[e] = "FREE" <=> st[e] = "FREE"
    /\ env_status'[e] = "NOT_RUNNABLE" <=> st[e] = "NOT_RUNNABLE"

Post(st) == CpuTypes' /\ CpuInv' /\ KeepsSleep(st) /\ ~panicstr'

InKernel(c) == c \in CPU /\ mode[c] \in {"boot", "ukern", "skern"}

(* The NULL of cpu_env is not the index of a slot of envs[].               *)
LEMMA NullNotSlot == NULL \notin Slots
BY SMTT(60) DEF NULL, Slots

(* While a CPU is in the kernel no other one is, and nobody has panicked:  *)
(* the CPU that panics keeps the big kernel lock for ever.                 *)
LEMMA AloneInKernel ==
  ASSUME TypeOK, CpuInv, NEW c, InKernel(c)
  PROVE  /\ \A d \in CPU \ {c} : mode[d] \notin KernelModes
         /\ \A d \in CPU : mode[d] \notin {"panic", "dead"}
         /\ ~panicstr
         /\ locked
BY DEF TypeOK, CpuInv, InKernel, KernelMutex, KernelModes, ModesAgree, Modes

(* env_run keeps statuses and CPUs in agreement: it may be given any       *)
(* environment that is runnable, or the current one if it is running.      *)
LEMMA EnvRun ==
  ASSUME TypeOK, CpuInv, NEW c, InKernel(c), NEW st, NEW cur, Mid(c, st, cur),
         NEW e \in Slots, st[e] = "RUNNABLE" \/ (e = cur /\ st[e] = "RUNNING"),
         env_run(c, st, cur, e)
  PROVE  Post(st)
<1>0. CpuTypes /\ c \in CPU
  BY DEF TypeOK, CpuTypes, InKernel
<1>1. CpuTypes'
  BY <1>0 DEF env_run, CpuTypes, Mid, Statuses, Modes
<1>2. KernelMutex'
  BY <1>0, AloneInKernel
  DEF env_run, CpuTypes, KernelMutex, KernelModes
<1>3. ModesAgree' /\ ~panicstr'
  BY <1>0, AloneInKernel
  DEF env_run, CpuTypes, CpuInv, ModesAgree, InKernel, NULL, Slots
<1>4. PanicAlone'
  BY <1>0, AloneInKernel DEF env_run, CpuTypes, PanicAlone
<1>5. RunningIsCurrent'
  <2>1. \A d \in CPU \ {c} : mode'[d] = mode[d] /\ cpu_env'[d] = cpu_env[d]
                             /\ (Current(d)' <=> Current(d))
    BY <1>0 DEF env_run, CpuTypes, Current
  <2>2. mode'[c] = "pop" /\ cpu_env'[c] = e /\ Current(c)' /\ env_status'[e] = "RUNNING"
    BY <1>0 DEF env_run, CpuTypes, Current
  <2>3. \A d \in CPU \ {c} : Current(d) => cpu_env[d] \in Slots /\ cpu_env[d] # e
    BY SMTT(60), <1>0 DEF Mid, CpuInv, RunningIsCurrent, CpuTypes
  <2>4. \A d \in CPU \ {c} : Current(d) =>
          env_status'[cpu_env[d]] \in {"RUNNING", "DYING"}
    BY <1>0, <2>3 DEF Mid, env_run
  <2>5. \A f \in Slots : env_status'[f] \in {"RUNNING", "DYING"} =>
          f = e \/ \E d \in CPU \ {c} : Current(d) /\ cpu_env[d] = f
    BY <1>0, NullNotSlot DEF Mid, env_run
  <2>6. \A d1, d2 \in CPU \ {c} :
          Current(d1) /\ Current(d2) /\ cpu_env[d1] = cpu_env[d2] => d1 = d2
    BY DEF CpuInv, RunningIsCurrent
  <2>7. cpu_env'[c] # NULL
    BY SMTT(60), <2>2 DEF NULL, Slots
  <2> QED
    BY SMTT(60), <1>0, <2>1, <2>2, <2>3, <2>4, <2>5, <2>6, <2>7
    DEF RunningIsCurrent, NULL, Slots
<1>6. KeepsSleep(st)
  BY DEF KeepsSleep, env_run, Mid
<1> QED
  BY <1>1, <1>2, <1>3, <1>4, <1>5, <1>6 DEF Post, CpuInv

(* sched_halt keeps statuses and CPUs in agreement when there is nothing   *)
(* for this CPU to run.                                                    *)
LEMMA SchedHalt ==
  ASSUME TypeOK, CpuInv, NEW c, InKernel(c), NEW st, NEW cur, Mid(c, st, cur),
         cur # NULL => st[cur] # "RUNNING",
         sched_halt(c, st, cur)
  PROVE  Post(st)
<1>0. CpuTypes /\ c \in CPU
  BY DEF TypeOK, CpuTypes, InKernel
<1>1. CpuTypes' /\ KernelMutex'
  <2>0. locked = TRUE
    BY <1>0, AloneInKernel DEF CpuTypes
  <2>1. CASE mode' = [mode EXCEPT ![c] = "monitor"] /\ locked' = locked
             /\ cpu_env' = [cpu_env EXCEPT ![c] = cur] /\ cpu_status' = cpu_status
    <3>1. CpuTypes'
      BY <1>0, <2>1 DEF sched_halt, CpuTypes, Mid, Modes
    <3>2. KernelMutex'
      BY <1>0, <2>0, <2>1, AloneInKernel
      DEF CpuTypes, KernelMutex, KernelModes
    <3> QED
      BY <3>1, <3>2
  <2>2. CASE mode' = [mode EXCEPT ![c] = "halt"] /\ locked' = FALSE
             /\ cpu_env' = [cpu_env EXCEPT ![c] = NULL]
             /\ cpu_status' = [cpu_status EXCEPT ![c] = "HALTED"]
    <3>1. CpuTypes'
      BY <1>0, <2>2 DEF sched_halt, CpuTypes, Mid, Modes
    <3>2. KernelMutex'
      BY <1>0, <2>2, AloneInKernel
      DEF CpuTypes, KernelMutex, KernelModes
    <3> QED
      BY <3>1, <3>2
  <2> QED
    BY <2>1, <2>2 DEF sched_halt
<1>3. ModesAgree' /\ ~panicstr'
  BY SMTT(60), <1>0, AloneInKernel
  DEF sched_halt, CpuTypes, CpuInv, ModesAgree, InKernel
<1>4. PanicAlone'
  BY <1>0, AloneInKernel DEF sched_halt, CpuTypes, PanicAlone
<1>5. RunningIsCurrent'
  <2>1. \A d \in CPU \ {c} : mode'[d] = mode[d] /\ cpu_env'[d] = cpu_env[d]
                             /\ (Current(d)' <=> Current(d))
    BY <1>0 DEF sched_halt, CpuTypes, Current
  <2>2. ~Current(c)' /\ env_status' = st
    BY <1>0 DEF sched_halt, CpuTypes, Current
  <2>3. \A d \in CPU \ {c} : Current(d) =>
          cpu_env[d] # NULL /\ st[cpu_env[d]] \in {"RUNNING", "DYING"}
    BY <1>0 DEF Mid, CpuInv, RunningIsCurrent
  <2>5. \A f \in Slots : st[f] \in {"RUNNING", "DYING"} =>
          \E d \in CPU \ {c} : Current(d) /\ cpu_env[d] = f
    BY NullNotSlot DEF Mid
  <2>6. \A d1, d2 \in CPU \ {c} :
          Current(d1) /\ Current(d2) /\ cpu_env[d1] = cpu_env[d2] => d1 = d2
    BY DEF CpuInv, RunningIsCurrent
  <2> QED
    BY SMTT(60), <1>0, <2>1, <2>2, <2>3, <2>5, <2>6 DEF RunningIsCurrent
<1>6. KeepsSleep(st)
  BY DEF KeepsSleep, sched_halt
<1> QED
  BY <1>1, <1>3, <1>4, <1>5, <1>6 DEF Post, CpuInv

(* Every way through sched_yield keeps statuses and CPUs in agreement.     *)
LEMMA SchedYield ==
  ASSUME TypeOK, CpuInv, NEW c, InKernel(c), NEW st, NEW cur, Mid(c, st, cur),
         sched_yield(c, st, cur)
  PROVE  Post(st)
<1>1. CASE \E e \in Slots : st[e] = "RUNNABLE" /\ env_run(c, st, cur, e)
  BY <1>1, EnvRun
<1>2. CASE cur # NULL /\ st[cur] = "RUNNING" /\ env_run(c, st, cur, cur)
  <2>1. cur \in Slots
    BY <1>2 DEF Mid
  <2> QED
    BY <1>2, <2>1, EnvRun
<1>3. CASE (cur # NULL => st[cur] # "RUNNING") /\ sched_halt(c, st, cur)
  BY <1>3, SchedHalt
<1> QED
  BY <1>1, <1>2, <1>3 DEF sched_yield

(* The end of trap() does too.                                             *)
LEMMA TrapReturn ==
  ASSUME TypeOK, CpuInv, NEW c, InKernel(c), NEW st, Mid(c, st, cpu_env[c]),
         cpu_env[c] # NULL, trap_return(c, st)
  PROVE  Post(st)
<1>1. cpu_env[c] \in Slots
  BY DEF Mid
<1> QED
  BY <1>1, EnvRun, SchedYield DEF trap_return

(* At the start of a handler on CPU c the table and the CPUs are in the    *)
(* state the scheduler wants; so they still are after the handler has put  *)
(* environments the CPUs do not run into any state but RUNNING or DYING,   *)
(* condemned one that another CPU runs, or put its own to sleep.           *)
LEMMA MidAfter ==
  ASSUME TypeOK, CpuInv, NEW c, InKernel(c),
         cpu_env[c] # NULL => env_status[cpu_env[c]] # "DYING",
         NEW st \in [Slots -> Statuses],
         \A e \in Slots :
           \/ st[e] = env_status[e]
           \/ /\ env_status[e] \notin {"RUNNING", "DYING"}
              /\ st[e] \notin {"RUNNING", "DYING"}
           \/ /\ env_status[e] = "RUNNING" /\ e # cpu_env[c]
              /\ st[e] = "DYING"
           \/ e = cpu_env[c] /\ st[e] # "DYING"
  PROVE  Mid(c, st, cpu_env[c])
<1>0. CpuTypes /\ c \in CPU
  BY DEF TypeOK, CpuTypes, InKernel
<1>1. \A d \in CPU \ {c} : Current(d) =>
        cpu_env[d] \in Slots /\ env_status[cpu_env[d]] \in {"RUNNING", "DYING"}
  BY SMTT(60), <1>0 DEF CpuInv, RunningIsCurrent, CpuTypes
<1>2. \A d \in CPU \ {c} : Current(d) => cpu_env[d] # cpu_env[c]
  <2>1. CASE Current(c)
    BY <1>0, <2>1 DEF CpuInv, RunningIsCurrent
  <2>2. CASE ~Current(c)
    <3>1. cpu_env[c] = NULL
      BY <1>0, <2>2 DEF InKernel, Current, CpuInv, ModesAgree
    <3> QED
      BY <3>1, <1>1, NullNotSlot
  <2> QED
    BY <2>1, <2>2
<1>3. \A e \in Slots : env_status[e] \in {"RUNNING", "DYING"} =>
        e = cpu_env[c] \/ \E d \in CPU \ {c} : Current(d) /\ cpu_env[d] = e
  BY <1>0, AloneInKernel DEF CpuInv, RunningIsCurrent
<1>4. cpu_env[c] # NULL => st[cpu_env[c]] # "DYING"
  BY <1>0 DEF CpuTypes
<1>5. \A d \in CPU \ {c} : Current(d) => st[cpu_env[d]] \in {"RUNNING", "DYING"}
  BY <1>1, <1>2
<1>6. \A e \in Slots : st[e] \in {"RUNNING", "DYING"} =>
        e = cpu_env[c] \/ env_status[e] \in {"RUNNING", "DYING"}
  OBVIOUS
<1> QED
  BY <1>0, <1>2, <1>3, <1>4, <1>5, <1>6 DEF Mid, CpuTypes

-----------------------------------------------------------------------------
(* The free list. *)

OnList(s, e) == \E i \in 1 .. Len(s) : s[i] = e
NoRepeat(s) == \A i, j \in 1 .. Len(s) : s[i] = s[j] => i = j

(* Taking the head of a list without repetitions leaves the other slots.   *)
LEMMA Pop ==
  ASSUME NEW s \in Seq(Slots), s # <<>>, NoRepeat(s)
  PROVE  /\ Head(s) \in Slots /\ OnList(s, Head(s))
         /\ Tail(s) \in Seq(Slots) /\ NoRepeat(Tail(s))
         /\ \A e \in Slots : OnList(Tail(s), e) <=> OnList(s, e) /\ e # Head(s)
<1>1. Len(s) \in Nat \ {0} /\ Head(s) = s[1] /\ s[1] \in Slots
  BY SMTT(60)
<1>2. Tail(s) \in Seq(Slots) /\ Len(Tail(s)) = Len(s) - 1
  BY SMTT(60)
<1>3. \A i \in 1 .. Len(s) - 1 : Tail(s)[i] = s[i + 1]
  BY SMTT(60)
<1>4. NoRepeat(Tail(s))
  BY SMTT(60), <1>1, <1>2, <1>3 DEF NoRepeat
<1>5. ASSUME NEW e \in Slots
      PROVE  OnList(Tail(s), e) <=> OnList(s, e) /\ e # Head(s)
  <2>1. ASSUME OnList(Tail(s), e) PROVE OnList(s, e) /\ e # Head(s)
    <3>1. PICK i \in 1 .. Len(s) - 1 : s[i + 1] = e
      BY <2>1, <1>2, <1>3 DEF OnList
    <3>2. i + 1 \in 1 .. Len(s) /\ i + 1 # 1 /\ 1 \in 1 .. Len(s)
      BY SMTT(60), <1>1
    <3> QED
      BY <3>1, <3>2, <1>1 DEF OnList, NoRepeat
  <2>2. ASSUME OnList(s, e), e # Head(s) PROVE OnList(Tail(s), e)
    <3>1. PICK i \in 1 .. Len(s) : s[i] = e
      BY <2>2 DEF OnList
    <3>2. i - 1 \in 1 .. Len(s) - 1 /\ (i - 1) + 1 = i
      BY SMTT(60), <3>1, <2>2, <1>1
    <3> QED
      BY <3>1, <3>2, <1>2, <1>3 DEF OnList
  <2> QED
    BY <2>1, <2>2
<1>6. OnList(s, Head(s))
  BY SMTT(60), <1>1 DEF OnList
<1> QED
  BY <1>1, <1>2, <1>4, <1>5, <1>6

(* Putting a slot that is not on the list at its head adds just that slot. *)
LEMMA Push ==
  ASSUME NEW s \in Seq(Slots), NEW f \in Slots, NoRepeat(s), ~OnList(s, f)
  PROVE  /\ <<f>> \o s \in Seq(Slots) /\ NoRepeat(<<f>> \o s)
         /\ \A e \in Slots : OnList(<<f>> \o s, e) <=> OnList(s, e) \/ e = f
<1> DEFINE t == <<f>> \o s
<1>1. t \in Seq(Slots) /\ Len(t) = Len(s) + 1 /\ Len(s) \in Nat
  BY SMTT(60)
<1>2. t[1] = f /\ \A i \in 1 .. Len(s) : t[i + 1] = s[i]
  BY SMTT(60)
<1>3. \A i \in 1 .. Len(t) : i = 1 \/ (i - 1 \in 1 .. Len(s) /\ t[i] = s[i - 1])
  BY SMTT(60), <1>1, <1>2
<1> HIDE DEF t
<1>4. NoRepeat(t)
  <2>1. SUFFICES ASSUME NEW i \in 1 .. Len(t), NEW j \in 1 .. Len(t), t[i] = t[j]
                 PROVE  i = j
    BY DEF NoRepeat
  <2>2. CASE i = 1 \/ j = 1
    BY <2>1, <2>2, <1>2, <1>3 DEF OnList
  <2>3. CASE i # 1 /\ j # 1
    <3>1. i - 1 = j - 1
      BY <2>1, <2>3, <1>3 DEF NoRepeat
    <3> QED
      BY SMTT(60), <3>1
  <2> QED
    BY <2>2, <2>3
<1>5. ASSUME NEW e \in Slots PROVE OnList(t, e) <=> OnList(s, e) \/ e = f
  <2>1. ASSUME OnList(t, e) PROVE OnList(s, e) \/ e = f
    BY <2>1, <1>2, <1>3 DEF OnList
  <2>2. ASSUME OnList(s, e) PROVE OnList(t, e)
    <3>1. PICK i \in 1 .. Len(s) : s[i] = e
      BY <2>2 DEF OnList
    <3>2. i + 1 \in 1 .. Len(t) /\ t[i + 1] = e
      BY SMTT(60), <3>1, <1>1, <1>2
    <3> QED
      BY <3>2 DEF OnList
  <2>3. OnList(t, f)
    <3>1. 1 \in 1 .. Len(t)
      BY SMTT(60), <1>1
    <3> QED
      BY <3>1, <1>2 DEF OnList
  <2> QED
    BY <2>1, <2>2, <2>3
<1> QED
  BY <1>1, <1>4, <1>5 DEF t

-----------------------------------------------------------------------------
(* What a handler has to show. *)

OtherTypes ==
  /\ env_gen \in [Slots -> 0 .. MaxGen]
  /\ env_parent_id \in [Slots -> (0 .. MaxGen) \X Slots]
  /\ env_ipc_recving \in [Slots -> BOOLEAN]
  /\ env_tf \in [Slots -> Trapframes]
  /\ env_free_list \in Seq(Slots)
  /\ sie \in [CPU -> BOOLEAN]
  /\ delivered \in [Slots -> BOOLEAN]

ListIs(st, list) ==
  NoRepeat(list) /\ \A e \in Slots : st[e] = "FREE" <=> OnList(list, e)

TfFine(st, e, recving, tf) ==
  IF recving THEN st[e] = "NOT_RUNNABLE" /\ tf = [call |-> "recv", sepc |-> 0]
             ELSE ResumeAt(tf) = IF tf.call = "none" THEN 0 ELSE 1

(***************************************************************************)
(* CPU c handles a trap from user mode, of a zombie or not.                *)
(***************************************************************************)
Handling(c) == c \in CPU /\ mode[c] = "ukern"
Alive(c) == env_status[cpu_env[c]] # "DYING"

(* The invariant follows from the scheduler's guarantees, a free list and  *)
(* registers that fit the statuses the handler gave to the scheduler.      *)
LEMMA Settle ==
  ASSUME NEW st, Post(st), OtherTypes', ListIs(st, env_free_list'),
         \A e \in Slots : st[e] # "FREE" =>
           TfFine(st, e, env_ipc_recving'[e], env_tf'[e])
  PROVE  IInv'
<1>1. TypeOK'
  BY DEF Post, CpuTypes, OtherTypes, TypeOK
<1>2. FreeListExact'
  BY DEF Post, KeepsSleep, ListIs, FreeListExact, NoRepeat, OnList
<1>3. \A e \in Slots : env_status'[e] # "FREE" => TfOk(e)'
  BY DEF Post, KeepsSleep, TfFine, TfOk
<1>4. RegistersOk'
  BY <1>3 DEF RegistersOk
<1> QED
  BY <1>1, <1>2, <1>4 DEF IInv, Post

(* What the invariant gives a handler to start from.                       *)
LEMMA Start ==
  ASSUME IInv, NEW c, Handling(c)
  PROVE  /\ TypeOK /\ OtherTypes /\ CpuInv /\ InKernel(c)
         /\ cpu_env[c] # NULL /\ cpu_env[c] \in Slots
         /\ env_status \in [Slots -> Statuses]
         /\ env_status[cpu_env[c]] \in {"RUNNING", "DYING"}
         /\ ListIs(env_status, env_free_list)
         /\ \A e \in Slots : env_status[e] # "FREE" =>
              TfFine(env_status, e, env_ipc_recving[e], env_tf[e])
         /\ ~env_ipc_recving[cpu_env[c]]
<1>1. TypeOK /\ OtherTypes /\ CpuInv /\ InKernel(c)
  BY DEF IInv, TypeOK, OtherTypes, Handling, InKernel
<1>2. /\ cpu_env[c] # NULL /\ cpu_env[c] \in Slots
      /\ env_status \in [Slots -> Statuses]
      /\ env_status[cpu_env[c]] \in {"RUNNING", "DYING"}
  BY SMTT(60), <1>1 DEF Handling, TypeOK, CpuInv, RunningIsCurrent, Current
<1>3. ListIs(env_status, env_free_list)
  BY DEF IInv, FreeListExact, ListIs, NoRepeat, OnList
<1>4. \A e \in Slots : ~Panicking(e)
  BY <1>1, AloneInKernel DEF Panicking
<1>5. \A e \in Slots : env_status[e] # "FREE" =>
              TfFine(env_status, e, env_ipc_recving[e], env_tf[e])
  BY <1>4 DEF IInv, RegistersOk, TfOk, TfFine
<1>6. ~env_ipc_recving[cpu_env[c]]
  BY <1>2, <1>5 DEF TfFine
<1> QED
  BY <1>1, <1>2, <1>3, <1>5, <1>6

(* Saving the registers of a call that is going to return normally.        *)
LEMMA Saved ==
  ASSUME IInv, NEW c, Handling(c), NEW call \in TrapCalls, NEW sepc \in 0 .. 2,
         NEW t, t = SavedTf(c, call, sepc)
  PROVE  /\ t \in [Slots -> Trapframes]
         /\ \A e \in Slots : t[e] =
              IF e = cpu_env[c] THEN [call |-> call, sepc |-> sepc] ELSE env_tf[e]
BY Start DEF SavedTf, OtherTypes, Trapframes

(* The same for a call other than sys_yield and sys_ipc_recv that returns. *)
LEMMA SavedOther ==
  ASSUME IInv, NEW c, Handling(c), NEW t, t = SavedTf(c, "other", 1)
  PROVE  /\ t \in [Slots -> Trapframes]
         /\ \A e \in Slots : t[e] =
              IF e = cpu_env[c] THEN [call |-> "other", sepc |-> 1] ELSE env_tf[e]
BY SMTT(60), Start DEF SavedTf, OtherTypes, Trapframes, TrapCalls

GoodSave(call, sepc) ==
  /\ call \in TrapCalls /\ sepc \in 0 .. 2
  /\ sepc = IF call \in {"none", "yield"} THEN 0 ELSE 1

(* Such registers resume where they should.                                *)
LEMMA GoodSaveFine ==
  ASSUME NEW call, NEW sepc, GoodSave(call, sepc), NEW st, NEW e, NEW r, ~r
  PROVE  TfFine(st, e, r, [call |-> call, sepc |-> sepc])
BY SMTT(60) DEF GoodSave, TfFine, ResumeAt, TrapCalls

(* A handler that changes nothing in the table and ends in the scheduler   *)
(* or returns to its caller.                                               *)
LEMMA Simple ==
  ASSUME IInv, NEW c, Handling(c), Alive(c),
         NEW call, NEW sepc, GoodSave(call, sepc),
         env_tf' = SavedTf(c, call, sepc), UNCHANGED <<tableVars, ipcVars>>,
         sie' \in [CPU -> BOOLEAN],
         trap_return(c, env_status) \/ sched_yield(c, env_status, cpu_env[c])
  PROVE  IInv'
<1>1. Mid(c, env_status, cpu_env[c])
  BY Start, MidAfter DEF Alive
<1>2. Post(env_status)
  BY <1>1, Start, SchedYield, TrapReturn
<1>3. OtherTypes'
  BY Start, Saved DEF OtherTypes, tableVars, ipcVars, GoodSave
<1>4. ListIs(env_status, env_free_list')
  BY Start DEF tableVars
<1>5. \A e \in Slots : env_status[e] # "FREE" =>
           TfFine(env_status, e, env_ipc_recving'[e], env_tf'[e])
  <2>1. env_ipc_recving' = env_ipc_recving
    BY DEF ipcVars
  <2>2. \A e \in Slots : env_tf'[e] =
          IF e = cpu_env[c] THEN [call |-> call, sepc |-> sepc] ELSE env_tf[e]
    BY Start DEF SavedTf, OtherTypes
  <2>3. TfFine(env_status, cpu_env[c], env_ipc_recving[cpu_env[c]],
               [call |-> call, sepc |-> sepc])
    BY Start, GoodSaveFine
  <2> QED
    BY <2>1, <2>2, <2>3, Start
<1> QED
  BY <1>2, <1>3, <1>4, <1>5, Settle

(* The timer bit stays Boolean across a return and a call of the scheduler. *)
LEMMA SieType ==
  ASSUME sie \in [CPU -> BOOLEAN], NEW c \in CPU,
         \/ sie' = SieAfterYield(c) \/ UNCHANGED sie
         \/ \E on \in BOOLEAN : sie' = [sie EXCEPT ![c] = on \/ mode'[c] = "halt"]
  PROVE  sie' \in [CPU -> BOOLEAN]
BY DEF SieAfterYield

(***************************************************************************)
(* The statuses a handler on CPU c may pass to the scheduler.              *)
(***************************************************************************)
Allowed(c, st) ==
  /\ st \in [Slots -> Statuses]
  /\ \A e \in Slots :
       \/ st[e] = env_status[e]
       \/ /\ env_status[e] \notin {"RUNNING", "DYING"}
          /\ st[e] \notin {"RUNNING", "DYING"}
       \/ env_status[e] = "RUNNING" /\ e # cpu_env[c] /\ st[e] = "DYING"
       \/ e = cpu_env[c] /\ st[e] # "DYING"

(* A handler that passes allowed statuses on, and leaves a free list and   *)
(* registers that fit them.                                                *)
LEMMA Finish ==
  ASSUME IInv, NEW c, Handling(c), Alive(c), NEW st, Allowed(c, st),
         trap_return(c, st) \/ sched_yield(c, st, cpu_env[c]),
         \/ sie' = SieAfterYield(c) \/ UNCHANGED sie,
         env_gen' \in [Slots -> 0 .. MaxGen],
         env_parent_id' \in [Slots -> (0 .. MaxGen) \X Slots],
         env_ipc_recving' \in [Slots -> BOOLEAN],
         env_tf' \in [Slots -> Trapframes],
         env_free_list' \in Seq(Slots),
         delivered' \in [Slots -> BOOLEAN],
         ListIs(st, env_free_list'),
         \A e \in Slots : st[e] # "FREE" =>
           TfFine(st, e, env_ipc_recving'[e], env_tf'[e])
  PROVE  IInv'
<1>1. Mid(c, st, cpu_env[c])
  BY Start, MidAfter DEF Alive, Allowed
<1>2. Post(st)
  BY <1>1, Start, SchedYield, TrapReturn
<1>3. sie' \in [CPU -> BOOLEAN]
  BY Start, SieType DEF Handling, OtherTypes
<1>4. OtherTypes'
  BY <1>3 DEF OtherTypes
<1> QED
  BY <1>2, <1>4, Settle

(* The registers of an environment that stays as it was are still fine.    *)
LEMMA StaysFine ==
  ASSUME IInv, NEW c, Handling(c), NEW st, NEW e \in Slots,
         st[e] # "FREE" => env_status[e] # "FREE",
         env_status[e] = "NOT_RUNNABLE" /\ env_ipc_recving[e]
           => st[e] \in {"NOT_RUNNABLE", "FREE"},
         st[e] # "FREE"
  PROVE  TfFine(st, e, env_ipc_recving[e], env_tf[e])
BY Start DEF TfFine

-----------------------------------------------------------------------------
(* The handlers that change the table, one lemma each. *)

(* Freeing the current environment, on exit, on a fault or as a zombie.    *)
LEMMA DestroySelfStep ==
  ASSUME IInv, NEW c, Handling(c), DestroySelf(c),
         env_tf' \in [Slots -> Trapframes],
         \A e \in Slots \ {cpu_env[c]} : env_tf'[e] = env_tf[e]
  PROVE  IInv'
<1> DEFINE me == cpu_env[c]
           st == SetStatus(me, "FREE")
<1>0. /\ me \in Slots /\ env_status[me] \in {"RUNNING", "DYING"}
      /\ c \in CPU /\ Current(c) /\ InKernel(c)
      /\ TypeOK /\ CpuInv /\ OtherTypes
  BY Start DEF Handling, Current
<1>1. st \in [Slots -> Statuses]
      /\ \A e \in Slots : st[e] = IF e = me THEN "FREE" ELSE env_status[e]
  BY Start DEF SetStatus, Statuses
<1>2. Mid(c, st, NULL)
  <2>1. \A d \in CPU \ {c} : Current(d) =>
          /\ cpu_env[d] # NULL /\ cpu_env[d] # me /\ cpu_env[d] \in Slots
          /\ env_status[cpu_env[d]] \in {"RUNNING", "DYING"}
    BY SMTT(60), <1>0 DEF CpuInv, RunningIsCurrent, TypeOK
  <2>2. \A e \in Slots : env_status[e] \in {"RUNNING", "DYING"} =>
          \E d \in CPU : Current(d) /\ cpu_env[d] = e
    BY <1>0, AloneInKernel DEF CpuInv, RunningIsCurrent
  <2> HIDE DEF st
  <2> QED
    BY <1>1, <2>1, <2>2 DEF Mid
<1> HIDE DEF st
<1>3. Post(st)
  BY <1>0, <1>2, SchedYield DEF DestroySelf, st
<1>4. env_free_list' = <<me>> \o env_free_list /\ ~OnList(env_free_list, me)
  BY <1>0, Start DEF DestroySelf, env_free, ListIs
<1>5. OtherTypes'
  <2>1. sie' \in [CPU -> BOOLEAN]
    BY <1>0, SieType DEF OtherTypes, DestroySelf
  <2>2. env_free_list' \in Seq(Slots)
    BY <1>0, <1>4, Start, Push DEF ListIs, OtherTypes
  <2> QED
    BY <1>0, <2>1, <2>2 DEF OtherTypes, DestroySelf, env_free
<1>6. ListIs(st, env_free_list')
  BY <1>0, <1>1, <1>4, Start, Push DEF ListIs, OtherTypes
<1>7. \A e \in Slots : st[e] # "FREE" =>
           TfFine(st, e, env_ipc_recving'[e], env_tf'[e])
  BY <1>1, Start DEF TfFine, DestroySelf, env_free
<1> QED
  BY <1>3, <1>5, <1>6, <1>7, Settle

(* sys_env_destroy: a child running elsewhere becomes a zombie, any other  *)
(* child is freed at once.                                                 *)
LEMMA DestroyStep ==
  ASSUME IInv, Disciplined, NEW c, Handling(c), Alive(c), NEW id,
         MayDestroy(c, id), sys_env_destroy(c, id)
  PROVE  IInv'
<1> DEFINE me == cpu_env[c]
<1>0. /\ me \in Slots /\ env_status[me] = "RUNNING" /\ c \in CPU
      /\ TypeOK /\ OtherTypes /\ ListIs(env_status, env_free_list)
  BY Start DEF Handling, Alive
<1>1. GoodSave("other", 1)
  BY SMTT(60) DEF GoodSave, TrapCalls
<1>2. CASE envid2env(c, id, TRUE) = {}
  <2>1. /\ env_tf' = SavedTf(c, "other", 1) /\ UNCHANGED <<tableVars, ipcVars>>
        /\ trap_return(c, env_status) /\ sie' = SieAfterYield(c)
    BY <1>2 DEF sys_env_destroy, syscall_return
  <2> QED
    BY <1>0, <1>1, <2>1, SieType, Simple DEF OtherTypes
<1>3. ASSUME NEW e \in envid2env(c, id, TRUE), e # me, NEW s \in {"DYING", "FREE"},
             env_tf' = SavedTf(c, "other", 1),
             syscall_return(c, SetStatus(e, s)), UNCHANGED ipcVars,
             \/ /\ env_status[e] = "RUNNING" /\ s = "DYING"
                /\ UNCHANGED tableVars
             \/ /\ env_status[e] \notin {"RUNNING", "DYING"} /\ s = "FREE"
                /\ env_free(e)
      PROVE  IInv'
  <2> DEFINE st == SetStatus(e, s)
  <2>0. e \in Slots /\ env_status[e] # "FREE"
    BY <1>0, <1>3 DEF envid2env
  <2>1. /\ st \in [Slots -> Statuses]
        /\ \A f \in Slots : st[f] = IF f = e THEN s ELSE env_status[f]
    BY <1>0, <1>3, <2>0 DEF SetStatus, Statuses, TypeOK
  <2>2. trap_return(c, st) /\ sie' = SieAfterYield(c)
    BY <1>3 DEF syscall_return
  <2> HIDE DEF st
  <2>3. Allowed(c, st)
    BY <1>3, <2>1 DEF Allowed
  <2>4. env_free_list' \in Seq(Slots) /\ ListIs(st, env_free_list')
        /\ env_gen' = env_gen /\ env_parent_id' = env_parent_id
    <3>1. CASE s = "DYING"
      BY <1>0, <1>3, <2>0, <2>1, <3>1
      DEF ListIs, tableVars, OtherTypes
    <3>2. CASE s = "FREE"
      <4>1. env_free_list' = <<e>> \o env_free_list /\ ~OnList(env_free_list, e)
            /\ env_gen' = env_gen /\ env_parent_id' = env_parent_id
        BY <1>0, <1>3, <2>0, <3>2 DEF env_free, ListIs
      <4>2. /\ env_free_list' \in Seq(Slots) /\ NoRepeat(env_free_list')
            /\ \A f \in Slots : OnList(env_free_list', f) <=>
                 env_status[f] = "FREE" \/ f = e
        BY <1>0, <2>0, <4>1, Push DEF ListIs, OtherTypes
      <4> QED
        BY <2>1, <3>2, <4>1, <4>2 DEF ListIs
    <3> QED
      BY <1>3, <3>1, <3>2
  <2>5. env_tf' \in [Slots -> Trapframes]
        /\ \A f \in Slots : env_tf'[f] =
             IF f = me THEN [call |-> "other", sepc |-> 1] ELSE env_tf[f]
    BY SMTT(60), <1>3, SavedOther
  <2>6. ASSUME NEW f \in Slots, st[f] # "FREE"
        PROVE  TfFine(st, f, env_ipc_recving'[f], env_tf'[f])
    <3>0. env_ipc_recving' = env_ipc_recving
      BY <1>3 DEF ipcVars
    <3>1. CASE f = me
      BY SMTT(60), <1>1, <2>5, <3>0, <3>1, Start, GoodSaveFine
    <3>2. CASE f # me
      <4>1. TfFine(st, f, env_ipc_recving[f], env_tf[f])
        BY <1>3, <2>0, <2>1, <2>6, StaysFine
      <4> QED
        BY <2>5, <3>0, <3>2, <4>1
    <3> QED
      BY <3>1, <3>2
  <2> QED
    BY <1>0, <1>3, <2>2, <2>3, <2>4, <2>5, <2>6, Finish
    DEF OtherTypes, ipcVars
<1>4. ASSUME me \in envid2env(c, id, TRUE), env_tf' = SavedTf(c, "other", 0),
             DestroySelf(c)
      PROVE  IInv'
  <2>1. /\ env_tf' \in [Slots -> Trapframes]
        /\ \A e \in Slots \ {me} : env_tf'[e] = env_tf[e]
    BY SMTT(60), <1>0, <1>4 DEF SavedTf, OtherTypes, Trapframes, TrapCalls
  <2> QED
    BY <1>4, <2>1, DestroySelfStep
<1>5. \A e \in envid2env(c, id, TRUE) : env_status[e] # "DYING"
  BY DEF MayDestroy, Disciplined
<1> QED
  BY <1>2, <1>3, <1>4, <1>5
  DEF sys_env_destroy, env_free, ipcVars, tableVars

(* sys_exofork: the slot at the head of the free list becomes a sleeping   *)
(* copy of the caller; with no slot left the kernel panics.                *)
LEMMA ExoforkStep ==
  ASSUME IInv, NEW c, Handling(c), Alive(c), sys_exofork(c)
  PROVE  IInv'
<1> DEFINE me == cpu_env[c]
<1>0. /\ me \in Slots /\ env_status[me] = "RUNNING" /\ c \in CPU /\ InKernel(c)
      /\ TypeOK /\ OtherTypes /\ CpuInv /\ ListIs(env_status, env_free_list)
      /\ me # NULL /\ mode[c] = "ukern" /\ Current(c) /\ ~env_ipc_recving[me]
  BY SMTT(60), Start DEF Handling, Alive, Current
<1>1. ASSUME env_tf' = SavedTf(c, "other", 0), _panic(c),
             UNCHANGED <<env_status, tableVars, ipcVars>>
      PROVE  IInv'
  <2>1. env_tf' \in [Slots -> Trapframes]
        /\ \A e \in Slots \ {me} : env_tf'[e] = env_tf[e]
    BY SMTT(60), <1>0, <1>1 DEF SavedTf, OtherTypes, Trapframes, TrapCalls
  <2>2. TypeOK'
    BY <1>0, <1>1, <2>1
    DEF TypeOK, _panic, tableVars, ipcVars, Modes
  <2>3. mode' = [mode EXCEPT ![c] = "panic"] /\ cpu_env' = cpu_env
        /\ locked' = locked /\ cpu_status' = cpu_status /\ panicstr'
        /\ env_status' = env_status
    BY <1>1 DEF _panic
  <2>4. \A d \in CPU : mode'[d] = IF d = c THEN "panic" ELSE mode[d]
    BY <1>0, <2>3 DEF TypeOK
  <2>5. KernelMutex'
    BY <1>0, <2>3, <2>4 DEF CpuInv, KernelMutex, KernelModes
  <2>a. /\ \A d \in CPU : Current(d)' <=> d # c /\ Current(d)
        /\ \A d \in CPU : mode'[d] = "panic" <=> d = c
        /\ \A d \in CPU : mode'[d] # "dead"
        /\ Current(c)
    BY <1>0, <2>4, AloneInKernel DEF Current, InKernel
  <2>6. RunningIsCurrent'
    <3>1. \A e \in Slots, d \in CPU : cpu_env[d] = e /\ Current(d) =>
            Current(d)' \/ mode'[d] \in {"panic", "dead"}
      BY <2>a
    <3>2. \A e \in Slots : env_status[e] \in {"RUNNING", "DYING"} =>
            \E d \in CPU : cpu_env[d] = e /\ Current(d)
      BY <1>0, AloneInKernel DEF CpuInv, RunningIsCurrent
    <3>3. \A e \in Slots : env_status[e] \in {"RUNNING", "DYING"} =>
            \E d \in CPU : cpu_env[d] = e
                            /\ (Current(d)' \/ mode'[d] \in {"panic", "dead"})
      BY <3>1, <3>2
    <3>4. \A d \in CPU : Current(d)' =>
            cpu_env[d] # NULL /\ env_status[cpu_env[d]] \in {"RUNNING", "DYING"}
      BY <1>0, <2>a DEF CpuInv, RunningIsCurrent
    <3>5. \A b, d \in CPU :
            Current(b)' /\ Current(d)' /\ cpu_env[b] = cpu_env[d] => b = d
      BY <1>0, <2>a DEF CpuInv, RunningIsCurrent
    <3> QED
      BY <2>3, <3>3, <3>4, <3>5 DEF RunningIsCurrent
  <2>7. ModesAgree'
    <3>1. \A d \in CPU \ {c} : mode'[d] = mode[d]
      BY <2>4
    <3>2. c \in CPU /\ cpu_env[c] # NULL /\ cpu_status[c] # "HALTED"
      BY <1>0 DEF CpuInv, ModesAgree, RunningIsCurrent, Current, InKernel
    <3> QED
      BY SMTT(60), <1>0, <2>3, <2>4, <3>1, <3>2 DEF CpuInv, ModesAgree
  <2>8. PanicAlone'
    <3>1. \A d \in CPU : Current(d)' => cpu_env[d] # cpu_env[c]
      BY <1>0, <2>a DEF CpuInv, RunningIsCurrent
    <3> QED
      BY <2>3, <2>a, <3>1 DEF PanicAlone
  <2>9. FreeListExact'
    BY <1>1 DEF IInv, FreeListExact, tableVars
  <2>10. RegistersOk'
    <3>1. mode'[c] = "panic" /\ cpu_env'[c] = me
      BY <1>0, <2>3, <2>4
    <3>2. env_ipc_recving' = env_ipc_recving
      BY <1>1 DEF ipcVars
    <3>3. \A e \in Slots \ {me} : env_status[e] # "FREE" => TfOk(e)
      BY <1>0, AloneInKernel DEF IInv, RegistersOk, Panicking
    <3>4. \A e \in Slots \ {me} : env_status'[e] # "FREE" => TfOk(e)'
      BY <2>1, <2>3, <3>2, <3>3 DEF TfOk
    <3>5. ~env_ipc_recving'[me]
      BY <1>0, <3>2
    <3>6. ASSUME NEW e \in Slots, env_status'[e] # "FREE"
          PROVE  (env_ipc_recving'[e] => TfOk(e)') /\ (~Panicking(e)' => TfOk(e)')
      <4>1. CASE e = me
        BY <1>0, <3>1, <3>5, <4>1 DEF Panicking
      <4> QED
        BY <3>4, <3>6, <4>1
    <3> QED
      BY <3>6 DEF RegistersOk
  <2> QED
    BY <2>2, <2>5, <2>6, <2>7, <2>8, <2>9, <2>10 DEF IInv, CpuInv
<1>2. ASSUME NEW e \in Slots, env_alloc(e, env_id(me)),
             env_tf' = [SavedTf(c, "other", 1) EXCEPT
                         ![e] = [call |-> "other", sepc |-> 1]],
             syscall_return(c, SetStatus(e, "NOT_RUNNABLE"))
      PROVE  IInv'
  <2> DEFINE st == SetStatus(e, "NOT_RUNNABLE")
  <2>0. /\ env_free_list' = Tail(env_free_list) /\ env_free_list' \in Seq(Slots)
        /\ NoRepeat(env_free_list') /\ OnList(env_free_list, e)
        /\ \A f \in Slots : OnList(env_free_list', f) <=>
             OnList(env_free_list, f) /\ f # e
    BY <1>0, <1>2, Pop DEF env_alloc, ListIs, OtherTypes
  <2>1. /\ st \in [Slots -> Statuses] /\ env_status[e] = "FREE" /\ e # me
        /\ \A f \in Slots : st[f] = IF f = e THEN "NOT_RUNNABLE" ELSE env_status[f]
    BY <1>0, <2>0 DEF SetStatus, Statuses, TypeOK, ListIs
  <2>2. trap_return(c, st) /\ sie' = SieAfterYield(c)
    BY <1>2 DEF syscall_return
  <2> HIDE DEF st
  <2>3. Allowed(c, st)
    BY <2>1 DEF Allowed
  <2>4. ListIs(st, env_free_list')
    BY <1>0, <2>0, <2>1 DEF ListIs
  <2>5. /\ env_tf' \in [Slots -> Trapframes]
        /\ \A f \in Slots : env_tf'[f] =
             IF f \in {me, e} THEN [call |-> "other", sepc |-> 1] ELSE env_tf[f]
    <3>1. PICK t : t = SavedTf(c, "other", 1)
      OBVIOUS
    <3>2. env_tf' = [t EXCEPT ![e] = [call |-> "other", sepc |-> 1]]
      BY <1>2, <3>1
    <3>3. [call |-> "other", sepc |-> 1] \in Trapframes
      BY SMTT(60) DEF Trapframes, TrapCalls
    <3> QED
      BY SMTT(60), <3>1, <3>2, <3>3, SavedOther
  <2>6. /\ env_gen' \in [Slots -> 0 .. MaxGen]
        /\ env_parent_id' \in [Slots -> (0 .. MaxGen) \X Slots]
    <3>1. env_gen' \in [Slots -> 0 .. MaxGen]
      BY SMTT(60), <1>0, <1>2, ConstantsAssumption DEF env_alloc, OtherTypes
    <3>2. env_id(me) \in (0 .. MaxGen) \X Slots
      BY <1>0 DEF env_id, OtherTypes
    <3> QED
      BY <1>0, <1>2, <3>1, <3>2 DEF env_alloc, OtherTypes
  <2>7. /\ env_ipc_recving' \in [Slots -> BOOLEAN] /\ delivered' \in [Slots -> BOOLEAN]
        /\ \A f \in Slots : env_ipc_recving'[f] =
             IF f = e THEN FALSE ELSE env_ipc_recving[f]
    BY <1>0, <1>2 DEF env_alloc, OtherTypes
  <2>8. ASSUME NEW f \in Slots, st[f] # "FREE"
        PROVE  TfFine(st, f, env_ipc_recving'[f], env_tf'[f])
    <3>0. GoodSave("other", 1)
      BY SMTT(60) DEF GoodSave, TrapCalls
    <3>1. CASE f \in {me, e}
      <4>1. ~env_ipc_recving'[f]
        BY <1>0, <2>7, <3>1
      <4> QED
        BY <2>5, <3>0, <3>1, <4>1, GoodSaveFine
    <3>2. CASE f \notin {me, e}
      <4>1. TfFine(st, f, env_ipc_recving[f], env_tf[f])
        BY <2>1, <2>8, <3>2, StaysFine
      <4> QED
        BY <2>5, <2>7, <3>2, <4>1
    <3> QED
      BY <3>1, <3>2
  <2> QED
    BY <2>0, <2>2, <2>3, <2>4, <2>5, <2>6, <2>7, <2>8, Finish
<1> QED
  BY <1>1, <1>2 DEF sys_exofork

(* sys_env_set_status, with a documented status and a child that is not    *)
(* waiting for a message.                                                  *)
LEMMA SetStatusStep ==
  ASSUME IInv, Disciplined, NEW c, Handling(c), Alive(c), NEW id,
         NEW status \in StatusArgs, MayRestart(c, id),
         sys_env_set_status(c, id, status)
  PROVE  IInv'
<1> DEFINE me == cpu_env[c]
           changed == {e \in envid2env(c, id, TRUE) :
                         env_status[e] \in {"RUNNABLE", "NOT_RUNNABLE"}}
           st == [e \in Slots |-> IF e \in changed THEN status ELSE env_status[e]]
<1>0. /\ me \in Slots /\ env_status[me] = "RUNNING" /\ TypeOK /\ OtherTypes
      /\ ListIs(env_status, env_free_list) /\ ~env_ipc_recving[me]
      /\ status \in {"RUNNABLE", "NOT_RUNNABLE"}
  BY Start DEF Alive, Disciplined
<1>1. \A e \in changed : env_status[e] \in {"RUNNABLE", "NOT_RUNNABLE"}
                          /\ ~env_ipc_recving[e]
  BY DEF MayRestart, Disciplined
<1>2. /\ trap_return(c, st) /\ sie' = SieAfterYield(c)
      /\ env_tf' = SavedTf(c, "other", 1) /\ UNCHANGED <<tableVars, ipcVars>>
  BY DEF sys_env_set_status, syscall_return
<1> HIDE DEF changed
<1>3. /\ st \in [Slots -> Statuses]
      /\ \A e \in Slots : st[e] = IF e \in changed THEN status ELSE env_status[e]
  BY <1>0 DEF Statuses, TypeOK
<1> HIDE DEF st
<1>4. Allowed(c, st)
  BY <1>0, <1>1, <1>3 DEF Allowed
<1>5. ListIs(st, env_free_list')
  BY <1>0, <1>1, <1>2, <1>3 DEF ListIs, tableVars
<1>6. ASSUME NEW f \in Slots, st[f] # "FREE"
      PROVE  TfFine(st, f, env_ipc_recving'[f], env_tf'[f])
  <2>0. env_ipc_recving' = env_ipc_recving
    BY <1>2 DEF ipcVars
  <2>1. CASE f = me
    <3>1. GoodSave("other", 1)
      BY SMTT(60) DEF GoodSave, TrapCalls
    <3> QED
      BY SMTT(60), <1>0, <1>2, <2>0, <2>1, <3>1, SavedOther, GoodSaveFine
  <2>2. CASE f # me
    <3>1. TfFine(st, f, env_ipc_recving[f], env_tf[f])
      BY <1>1, <1>3, <1>6, StaysFine
    <3> QED
      BY SMTT(60), <1>2, <2>0, <2>2, <3>1, SavedOther
  <2> QED
    BY <2>1, <2>2
<1>7. env_tf' \in [Slots -> Trapframes]
  BY <1>2, SavedOther
<1> QED
  BY <1>0, <1>2, <1>4, <1>5, <1>6, <1>7, Finish
  DEF OtherTypes, tableVars, ipcVars

(* sys_env_set_trapframe, on a child that is not waiting for a message.    *)
LEMMA SetTrapframeStep ==
  ASSUME IInv, Disciplined, NEW c, Handling(c), Alive(c), NEW id,
         MaySetRegisters(c, id), sys_env_set_trapframe(c, id)
  PROVE  IInv'
<1> DEFINE me == cpu_env[c]
           found == envid2env(c, id, TRUE)
<1>0. /\ me \in Slots /\ env_status[me] = "RUNNING" /\ TypeOK /\ OtherTypes
      /\ ListIs(env_status, env_free_list) /\ ~env_ipc_recving[me]
  BY Start DEF Alive
<1>1. me \notin found /\ \A e \in found : ~env_ipc_recving[e]
  BY DEF MaySetRegisters, MayRestart, Disciplined
<1> HIDE DEF found
<1>2. /\ trap_return(c, env_status) /\ sie' = SieAfterYield(c)
      /\ UNCHANGED <<tableVars, ipcVars>>
  BY DEF sys_env_set_trapframe, syscall_return
<1>3. PICK t : t = SavedTf(c, "other", 1)
  OBVIOUS
<1>4. env_tf' = [e \in Slots |->
          IF e \in found
          THEN [call |-> "none", sepc |-> IF e = me THEN 1 ELSE 0]
          ELSE t[e]]
  BY <1>3 DEF sys_env_set_trapframe, found
<1>5. \A e \in Slots : env_tf'[e] =
        IF e \in found THEN [call |-> "none", sepc |-> 0] ELSE t[e]
  BY <1>1, <1>4
<1>6. env_tf' \in [Slots -> Trapframes]
  <2>1. [call |-> "none", sepc |-> 0] \in Trapframes
        /\ [call |-> "none", sepc |-> 1] \in Trapframes
    BY SMTT(60) DEF Trapframes, TrapCalls
  <2>2. t \in [Slots -> Trapframes]
    BY <1>3, SavedOther
  <2> QED
    BY <1>4, <2>1, <2>2
<1>7. ASSUME NEW f \in Slots, env_status[f] # "FREE"
      PROVE  TfFine(env_status, f, env_ipc_recving'[f], env_tf'[f])
  <2>0. env_ipc_recving' = env_ipc_recving
    BY <1>2 DEF ipcVars
  <2>1. CASE f = me
    <3>1. GoodSave("other", 1)
      BY SMTT(60) DEF GoodSave, TrapCalls
    <3>2. env_tf'[f] = [call |-> "other", sepc |-> 1]
      BY SMTT(60), <1>1, <1>3, <1>5, <2>1, SavedOther
    <3> QED
      BY <1>0, <2>0, <2>1, <3>1, <3>2, GoodSaveFine
  <2>2. CASE f \in found
    <3>1. GoodSave("none", 0)
      BY SMTT(60) DEF GoodSave, TrapCalls
    <3> QED
      BY <1>1, <1>5, <2>0, <2>2, <3>1, GoodSaveFine
  <2>3. CASE f # me /\ f \notin found
    <3>1. env_tf'[f] = env_tf[f]
      BY SMTT(60), <1>3, <1>5, <2>3, SavedOther
    <3> QED
      BY <1>7, <2>0, <3>1, StaysFine
  <2> QED
    BY <2>1, <2>2, <2>3
<1>8. Allowed(c, env_status) /\ ListIs(env_status, env_free_list')
  BY <1>0, <1>2 DEF Allowed, TypeOK, tableVars
<1> QED
  BY <1>0, <1>2, <1>6, <1>7, <1>8, Finish
  DEF OtherTypes, tableVars, ipcVars

(* sys_ipc_try_send: only a sleeping receiver is woken, and its registers  *)
(* are moved past its ecall.                                               *)
LEMMA TrySendStep ==
  ASSUME IInv, NEW c, Handling(c), Alive(c), NEW id, NEW mapped,
         sys_ipc_try_send(c, id, mapped)
  PROVE  IInv'
<1> DEFINE me == cpu_env[c]
           found == {e \in envid2env(c, id, FALSE) : env_ipc_recving[e] /\ mapped}
           st == [e \in Slots |-> IF e \in found THEN "RUNNABLE" ELSE env_status[e]]
<1>0. /\ me \in Slots /\ env_status[me] = "RUNNING" /\ TypeOK /\ OtherTypes
      /\ ListIs(env_status, env_free_list) /\ ~env_ipc_recving[me]
  BY Start DEF Alive
<1>1. me \notin found
      /\ \A e \in found : e \in Slots /\ env_status[e] = "NOT_RUNNABLE"
                           /\ env_tf[e] = [call |-> "recv", sepc |-> 0]
  <2>1. ASSUME NEW e \in found PROVE e \in Slots /\ env_ipc_recving[e] /\ e # me
    BY <1>0, <2>1 DEF envid2env
  <2>2. ASSUME NEW e \in found PROVE env_status[e] # "FREE"
    BY <1>0, <2>1 DEF envid2env
  <2> QED
    BY <2>1, <2>2, Start DEF TfFine
<1>2. /\ trap_return(c, st) /\ sie' = SieAfterYield(c) /\ UNCHANGED tableVars
      /\ env_ipc_recving' = [e \in Slots |-> env_ipc_recving[e] /\ e \notin found]
      /\ delivered' = [e \in Slots |-> delivered[e] \/ e \in found]
  BY DEF sys_ipc_try_send, syscall_return
<1>3. PICK t : t = SavedTf(c, "other", 1)
  OBVIOUS
<1>4. env_tf' = [e \in Slots |->
          IF e \in found /\ t[e].sepc < 2
          THEN [t[e] EXCEPT !.sepc = @ + 1] ELSE t[e]]
  BY <1>3 DEF sys_ipc_try_send
<1> HIDE DEF found
<1>5. /\ t \in [Slots -> Trapframes]
      /\ \A e \in Slots : t[e] =
           IF e = me THEN [call |-> "other", sepc |-> 1] ELSE env_tf[e]
  BY SMTT(60), <1>3, SavedOther
<1>6. \A e \in Slots : env_tf'[e] =
        IF e \in found THEN [call |-> "recv", sepc |-> 1] ELSE t[e]
  <2>1. \A e \in found : t[e] = [call |-> "recv", sepc |-> 0]
    BY <1>1, <1>5
  <2> QED
    BY SMTT(60), <1>4, <2>1
<1>7. env_tf' \in [Slots -> Trapframes]
  <2>1. [call |-> "recv", sepc |-> 1] \in Trapframes
    BY SMTT(60) DEF Trapframes, TrapCalls
  <2>2. env_tf' = [e \in Slots |->
          IF e \in found THEN [call |-> "recv", sepc |-> 1] ELSE t[e]]
    BY <1>4, <1>6
  <2> QED
    BY <1>5, <2>1, <2>2
<1>8. /\ st \in [Slots -> Statuses]
      /\ \A e \in Slots : st[e] = IF e \in found THEN "RUNNABLE" ELSE env_status[e]
  BY <1>0 DEF Statuses, TypeOK
<1> HIDE DEF st
<1>9. Allowed(c, st) /\ ListIs(st, env_free_list')
  BY <1>0, <1>1, <1>2, <1>8 DEF Allowed, ListIs, tableVars
<1>10. /\ env_ipc_recving' \in [Slots -> BOOLEAN] /\ delivered' \in [Slots -> BOOLEAN]
       /\ \A e \in found : ~env_ipc_recving'[e]
       /\ \A e \in Slots \ found : env_ipc_recving'[e] = env_ipc_recving[e]
  BY <1>0, <1>1, <1>2 DEF OtherTypes
<1>11. ASSUME NEW f \in Slots, st[f] # "FREE"
       PROVE  TfFine(st, f, env_ipc_recving'[f], env_tf'[f])
  <2>1. CASE f = me
    <3>1. GoodSave("other", 1)
      BY SMTT(60) DEF GoodSave, TrapCalls
    <3>2. env_tf'[f] = [call |-> "other", sepc |-> 1] /\ ~env_ipc_recving'[f]
      BY <1>0, <1>1, <1>5, <1>6, <1>10, <2>1
    <3> QED
      BY <3>1, <3>2, GoodSaveFine
  <2>2. CASE f \in found
    <3>1. GoodSave("recv", 1)
      BY SMTT(60) DEF GoodSave, TrapCalls
    <3>2. env_tf'[f] = [call |-> "recv", sepc |-> 1] /\ ~env_ipc_recving'[f]
      BY <1>6, <1>10, <2>2
    <3> QED
      BY <3>1, <3>2, GoodSaveFine
  <2>3. CASE f # me /\ f \notin found
    <3>1. env_tf'[f] = env_tf[f] /\ env_ipc_recving'[f] = env_ipc_recving[f]
      BY <1>5, <1>6, <1>10, <2>3
    <3>2. TfFine(st, f, env_ipc_recving[f], env_tf[f])
      BY <1>8, <1>11, <2>3, StaysFine
    <3> QED
      BY <3>1, <3>2
  <2> QED
    BY <2>1, <2>2, <2>3
<1> QED
  BY <1>0, <1>2, <1>7, <1>9, <1>10, <1>11, Finish
  DEF OtherTypes, tableVars

(* sys_ipc_recv puts the caller to sleep with its registers at the ecall,  *)
(* or returns at once for an unaligned address.                            *)
LEMMA RecvStep ==
  ASSUME IInv, NEW c, Handling(c), Alive(c), NEW aligned, sys_ipc_recv(c, aligned)
  PROVE  IInv'
<1> DEFINE me == cpu_env[c]
<1>0. /\ me \in Slots /\ env_status[me] = "RUNNING" /\ TypeOK /\ OtherTypes
      /\ ListIs(env_status, env_free_list) /\ ~env_ipc_recving[me]
  BY Start DEF Alive
<1>1. /\ delivered' = [delivered EXCEPT ![me] = FALSE] /\ UNCHANGED tableVars
      /\ delivered' \in [Slots -> BOOLEAN]
  BY <1>0 DEF sys_ipc_recv, OtherTypes
<1>2. ASSUME env_tf' = SavedTf(c, "recv", 0),
             env_ipc_recving' = [env_ipc_recving EXCEPT ![me] = TRUE],
             sched_yield(c, SetStatus(me, "NOT_RUNNABLE"), me),
             sie' = SieAfterYield(c)
      PROVE  IInv'
  <2> DEFINE st == SetStatus(me, "NOT_RUNNABLE")
  <2>1. /\ st \in [Slots -> Statuses]
        /\ \A e \in Slots : st[e] = IF e = me THEN "NOT_RUNNABLE" ELSE env_status[e]
    BY <1>0 DEF SetStatus, Statuses, TypeOK
  <2>2. sched_yield(c, st, me)
    BY <1>2
  <2> HIDE DEF st
  <2>3. Allowed(c, st) /\ ListIs(st, env_free_list')
    BY <1>0, <1>1, <2>1 DEF Allowed, ListIs, tableVars
  <2>4. /\ env_tf' \in [Slots -> Trapframes]
        /\ \A e \in Slots : env_tf'[e] =
             IF e = me THEN [call |-> "recv", sepc |-> 0] ELSE env_tf[e]
    BY SMTT(60), <1>0, <1>2 DEF SavedTf, OtherTypes, Trapframes, TrapCalls
  <2>5. /\ env_ipc_recving' \in [Slots -> BOOLEAN]
        /\ env_ipc_recving'[me] = TRUE
        /\ \A e \in Slots \ {me} : env_ipc_recving'[e] = env_ipc_recving[e]
    BY <1>0, <1>2 DEF OtherTypes
  <2>6. ASSUME NEW f \in Slots, st[f] # "FREE"
        PROVE  TfFine(st, f, env_ipc_recving'[f], env_tf'[f])
    <3>1. CASE f = me
      BY <2>1, <2>4, <2>5, <3>1 DEF TfFine
    <3>2. CASE f # me
      <4>1. TfFine(st, f, env_ipc_recving[f], env_tf[f])
        BY <2>1, <2>6, <3>2, StaysFine
      <4> QED
        BY <2>4, <2>5, <3>2, <4>1
    <3> QED
      BY <3>1, <3>2
  <2> QED
    BY <1>0, <1>1, <1>2, <2>2, <2>3, <2>4, <2>5, <2>6, Finish
    DEF OtherTypes, tableVars
<1>3. ASSUME env_tf' = SavedTf(c, "recv", 1), UNCHANGED env_ipc_recving,
             syscall_return(c, env_status)
      PROVE  IInv'
  <2>1. Allowed(c, env_status) /\ ListIs(env_status, env_free_list')
    BY <1>0, <1>1 DEF Allowed, TypeOK, tableVars
  <2>2. /\ env_tf' \in [Slots -> Trapframes]
        /\ \A e \in Slots : env_tf'[e] =
             IF e = me THEN [call |-> "recv", sepc |-> 1] ELSE env_tf[e]
    BY SMTT(60), <1>0, <1>3 DEF SavedTf, OtherTypes, Trapframes, TrapCalls
  <2>3. ASSUME NEW f \in Slots, env_status[f] # "FREE"
        PROVE  TfFine(env_status, f, env_ipc_recving'[f], env_tf'[f])
    <3>1. CASE f = me
      <4>1. GoodSave("recv", 1)
        BY SMTT(60) DEF GoodSave, TrapCalls
      <4> QED
        BY SMTT(60), <1>0, <1>3, <2>2, <3>1, <4>1, GoodSaveFine
    <3>2. CASE f # me
      BY <1>3, <2>2, <2>3, <3>2, StaysFine
    <3> QED
      BY <3>1, <3>2
  <2> QED
    BY <1>0, <1>1, <1>3, <2>1, <2>2, <2>3, Finish
    DEF OtherTypes, tableVars, syscall_return
<1> QED
  BY <1>2, <1>3 DEF sys_ipc_recv

(* Every handler of a trap from user mode preserves the invariant.         *)
LEMMA DispatchStep ==
  ASSUME IInv, Disciplined, NEW c \in CPU, trap_dispatch(c)
  PROVE  IInv'
<1>0. Handling(c) /\ OtherTypes
  <2>1. mode[c] = "ukern"
    BY DEF trap_dispatch, Syscall, Interrupted, Zombie, Makes
  <2>2. Handling(c)
    BY <2>1 DEF Handling
  <2> QED
    BY <2>2, Start
<1>1. GoodSave("other", 1) /\ GoodSave("none", 0) /\ GoodSave("yield", 0)
  BY SMTT(60) DEF GoodSave, TrapCalls
<1>2. CASE Zombie(c)
  BY <1>0, <1>2, DestroySelfStep DEF Zombie, OtherTypes
<1>3. CASE Interrupted(c)
  <2>0. Alive(c)
    BY <1>3 DEF Interrupted, Alive
  <2>1. CASE TimerInterrupt(c)
    BY <1>0, <1>1, <2>0, <2>1, Simple DEF TimerInterrupt, OtherTypes
  <2>2. CASE Fault(c)
    <3>1. ASSUME syscall_return(c, env_status), UNCHANGED <<tableVars, ipcVars>>
          PROVE  IInv'
      <4>1. sie' \in [CPU -> BOOLEAN]
        BY <1>0, <3>1, SieType DEF OtherTypes, syscall_return
      <4> QED
        BY <1>0, <1>1, <2>0, <2>2, <3>1, <4>1, Simple
        DEF Fault, syscall_return
    <3>2. CASE DestroySelf(c)
      <4>1. /\ env_tf' \in [Slots -> Trapframes]
            /\ \A e \in Slots \ {cpu_env[c]} : env_tf'[e] = env_tf[e]
        BY SMTT(60), <1>0, <2>2, Start
        DEF Fault, SavedTf, OtherTypes, Trapframes, TrapCalls
      <4> QED
        BY <1>0, <3>2, <4>1, DestroySelfStep
    <3> QED
      BY <2>2, <3>1, <3>2 DEF Fault
  <2> QED
    BY <1>3, <2>1, <2>2 DEF Interrupted
<1>4. CASE Syscall(c)
  <2>0. Alive(c)
    BY <1>4 DEF Syscall, Makes, Alive
  <2>1. ASSUME NEW id, MayDestroy(c, id), sys_env_destroy(c, id) PROVE IInv'
    BY <1>0, <2>0, <2>1, DestroyStep
  <2>2. CASE sys_yield(c)
    <3>1. sie' \in [CPU -> BOOLEAN]
      BY <1>0, <2>2, SieType DEF OtherTypes, sys_yield
    <3> QED
      BY <1>0, <1>1, <2>0, <2>2, <3>1, Simple DEF sys_yield
  <2>3. CASE sys_exofork(c)
    BY <1>0, <2>0, <2>3, ExoforkStep
  <2>4. ASSUME NEW id, NEW status \in StatusArgs, MayRestart(c, id),
               sys_env_set_status(c, id, status) PROVE IInv'
    BY <1>0, <2>0, <2>4, SetStatusStep
  <2>5. ASSUME NEW id, MaySetRegisters(c, id), sys_env_set_trapframe(c, id)
        PROVE  IInv'
    BY <1>0, <2>0, <2>5, SetTrapframeStep
  <2>6. ASSUME NEW id, NEW mapped, sys_ipc_try_send(c, id, mapped) PROVE IInv'
    BY <1>0, <2>0, <2>6, TrySendStep
  <2>7. ASSUME NEW aligned, sys_ipc_recv(c, aligned) PROVE IInv'
    BY <1>0, <2>0, <2>7, RecvStep
  <2>8. ASSUME NEW on \in BOOLEAN, sys_set_irq(c, on) PROVE IInv'
    <3>1. sie' \in [CPU -> BOOLEAN]
      BY <1>0, <2>8, SieType DEF OtherTypes, sys_set_irq
    <3> QED
      BY <1>0, <1>1, <2>0, <2>8, <3>1, Simple DEF sys_set_irq
  <2>9. CASE sys_other(c)
    <3>1. sie' \in [CPU -> BOOLEAN]
      BY <1>0, <2>9, SieType
      DEF OtherTypes, sys_other, syscall_return
    <3> QED
      BY <1>0, <1>1, <2>0, <2>9, <3>1, Simple DEF sys_other, syscall_return
  <2> QED
    BY <1>4, <2>1, <2>2, <2>3, <2>4, <2>5, <2>6, <2>7, <2>8, <2>9
    DEF Syscall
<1> QED
  BY <1>2, <1>3, <1>4 DEF trap_dispatch

-----------------------------------------------------------------------------
(* The other steps. *)

(* The scheduler called on a CPU that has no current environment: at the   *)
(* end of riscv_init, from mp_main, or on a timer tick while halted.       *)
LEMMA IdleStep ==
  ASSUME IInv, NEW c \in CPU, mode[c] \in {"boot", "skern"},
         sched_yield(c, env_status, cpu_env[c]),
         sie' \in [CPU -> BOOLEAN], UNCHANGED <<env_tf, tableVars, ipcVars>>
  PROVE  IInv'
<1>0. /\ TypeOK /\ OtherTypes /\ CpuInv /\ InKernel(c) /\ cpu_env[c] = NULL
      /\ env_status \in [Slots -> Statuses]
  BY DEF IInv, CpuInv, TypeOK, OtherTypes, InKernel, ModesAgree
<1>1. Mid(c, env_status, cpu_env[c])
  BY <1>0, MidAfter
<1>2. Post(env_status)
  BY <1>0, <1>1, SchedYield
<1>3. OtherTypes'
  BY <1>0 DEF OtherTypes, tableVars, ipcVars
<1>4. ListIs(env_status, env_free_list')
  BY DEF IInv, FreeListExact, ListIs, NoRepeat, OnList, tableVars
<1>5. \A e \in Slots : env_status[e] # "FREE" =>
        TfFine(env_status, e, env_ipc_recving'[e], env_tf'[e])
  <2>1. \A e \in Slots : ~Panicking(e)
    BY <1>0, AloneInKernel DEF Panicking
  <2> QED
    BY <2>1 DEF IInv, RegistersOk, TfOk, TfFine, ipcVars
<1> QED
  BY <1>2, <1>3, <1>4, <1>5, Settle

(* A step that moves one CPU, and changes no environment: what is left to  *)
(* show is the agreement of the CPUs.                                      *)
LEMMA MoveStep ==
  ASSUME IInv, NEW c \in CPU, NEW m \in Modes, MoveTo(c, m),
         UNCHANGED <<env_status, env_tf, tableVars, ipcVars, cpu_env, panicstr>>,
         cpu_status' \in [CPU -> {"UNUSED", "STARTED", "HALTED"}],
         sie' \in [CPU -> BOOLEAN], locked' \in BOOLEAN,
         m # "panic", mode[c] # "panic", CpuInv'
  PROVE  IInv'
<1>0. TypeOK /\ OtherTypes
  BY DEF IInv, TypeOK, OtherTypes
<1>1. TypeOK'
  BY <1>0 DEF TypeOK, MoveTo, tableVars, ipcVars
<1>2. FreeListExact'
  BY DEF IInv, FreeListExact, tableVars
<1>3. \A d \in CPU : (mode'[d] = "panic") <=> (mode[d] = "panic")
  BY <1>0 DEF MoveTo, TypeOK
<1>4. RegistersOk'
  <2>1. \A e \in Slots : (Panicking(e)' <=> Panicking(e)) /\ (TfOk(e)' <=> TfOk(e))
    BY <1>3 DEF Panicking, TfOk, ipcVars
  <2> QED
    BY <2>1 DEF IInv, RegistersOk, ipcVars
<1> QED
  BY <1>1, <1>2, <1>4 DEF IInv

(* An AP starts and waits for the lock in mp_main.                         *)
LEMMA MpMainStep ==
  ASSUME IInv, NEW c \in CPU, mp_main(c)
  PROVE  IInv'
<1>0. TypeOK /\ CpuInv /\ mode[c] = "off"
  BY DEF IInv, mp_main
<1>1. \A d \in CPU : mode'[d] = IF d = c THEN "mpmain" ELSE mode[d]
  BY <1>0 DEF mp_main, MoveTo, TypeOK
<1>2. \A d \in CPU : cpu_status'[d] = IF d = c THEN "STARTED" ELSE cpu_status[d]
  BY <1>0 DEF mp_main, TypeOK
<1>3. /\ UNCHANGED <<env_status, env_tf, tableVars, ipcVars, cpu_env, locked, panicstr>>
      /\ MoveTo(c, "mpmain")
  BY DEF mp_main
<1>4. KernelMutex'
  BY <1>0, <1>1, <1>3 DEF CpuInv, KernelMutex, KernelModes
<1>5. RunningIsCurrent'
  BY SMTT(60), <1>0, <1>1, <1>3 DEF CpuInv, RunningIsCurrent, Current
<1>6. ModesAgree'
  BY <1>0, <1>1, <1>2, <1>3 DEF CpuInv, ModesAgree
<1>7. PanicAlone'
  BY <1>0, <1>1, <1>3 DEF CpuInv, PanicAlone, Current
<1>8. /\ cpu_status' \in [CPU -> {"UNUSED", "STARTED", "HALTED"}]
      /\ sie' \in [CPU -> BOOLEAN] /\ locked' \in BOOLEAN /\ "mpmain" \in Modes
  BY <1>0, <1>3 DEF mp_main, TypeOK, Modes
<1> QED
  BY <1>0, <1>3, <1>4, <1>5, <1>6, <1>7, <1>8, MoveStep DEF CpuInv

(* A trap, up to the spin on the lock: from user mode, or in a halted CPU. *)
LEMMA TrapStep ==
  ASSUME IInv, Disciplined, NEW c \in CPU, trap(c)
  PROVE  IInv'
<1>0. TypeOK /\ CpuInv /\ mode[c] \in {"user", "halt"}
  BY DEF IInv, trap, TrapsFrom, Disciplined
<1>1. /\ UNCHANGED <<env_status, env_tf, tableVars, ipcVars, cpu_env, sie, locked, panicstr>>
      /\ locked' \in BOOLEAN /\ sie' \in [CPU -> BOOLEAN]
  BY <1>0 DEF trap, TypeOK
<1>2. ASSUME NEW m \in {"dead", "utrap", "htrap"}, MoveTo(c, m),
             \/ m = "dead" /\ panicstr /\ UNCHANGED cpu_status
             \/ /\ m = IF mode[c] = "user" THEN "utrap" ELSE "htrap"
                /\ cpu_status' = [cpu_status EXCEPT ![c] = "STARTED"]
      PROVE  IInv'
  <2>1. \A d \in CPU : mode'[d] = IF d = c THEN m ELSE mode[d]
    BY <1>0, <1>2 DEF MoveTo, TypeOK
  <2>2. cpu_status' \in [CPU -> {"UNUSED", "STARTED", "HALTED"}]
    BY <1>0, <1>2 DEF TypeOK
  <2>3. \A d \in CPU : cpu_status'[d] =
          IF d = c /\ m # "dead" THEN "STARTED" ELSE cpu_status[d]
    BY <1>0, <1>2 DEF TypeOK
  <2>4. KernelMutex'
    BY <1>0, <1>1, <2>1 DEF CpuInv, KernelMutex, KernelModes
  <2>5. RunningIsCurrent'
    <3>1. \A d \in CPU : Current(d)' => Current(d)
      BY <1>0, <1>2, <2>1 DEF Current
    <3>2. \A d \in CPU : Current(d) => Current(d)' \/ mode'[d] = "dead"
      BY <1>0, <1>2, <2>1 DEF Current
    <3>3. \A d \in CPU : mode[d] \in {"panic", "dead"} => mode'[d] \in {"panic", "dead"}
      BY <1>0, <2>1
    <3> QED
      BY SMTT(60), <1>0, <1>1, <3>1, <3>2, <3>3 DEF CpuInv, RunningIsCurrent
  <2>6. ModesAgree'
    BY <1>0, <1>1, <1>2, <2>1, <2>3 DEF CpuInv, ModesAgree
  <2>7. PanicAlone'
    BY <1>0, <1>1, <1>2, <2>1 DEF CpuInv, PanicAlone, Current
  <2> QED
    BY <1>0, <1>1, <1>2, <2>2, <2>4, <2>5, <2>6, <2>7, MoveStep
    DEF CpuInv, Modes
<1>3. cpu_status[c] = "HALTED" <=> mode[c] = "halt"
  BY <1>0 DEF CpuInv, ModesAgree
<1> QED
  BY <1>0, <1>2, <1>3 DEF trap

(* Winning the exchange on the lock puts a CPU into an empty kernel.       *)
LEMMA LockStep ==
  ASSUME IInv, NEW c \in CPU, lock_kernel(c)
  PROVE  IInv'
<1>0. TypeOK /\ CpuInv /\ mode[c] \in {"mpmain", "utrap", "htrap"} /\ ~locked
  BY DEF IInv, lock_kernel, CpuInv, ModesAgree
<1>1. PICK m \in {"ukern", "skern"} : MoveTo(c, m) /\ (m = "ukern" <=> mode[c] = "utrap")
  BY <1>0 DEF lock_kernel
<1>2. /\ UNCHANGED <<env_status, env_tf, tableVars, ipcVars, cpu_env, cpu_status, sie, panicstr>>
      /\ locked' = TRUE
  BY DEF lock_kernel
<1>3. \A d \in CPU : mode'[d] = IF d = c THEN m ELSE mode[d]
  BY <1>0, <1>1 DEF MoveTo, TypeOK
<1>4. \A d \in CPU : mode[d] \notin KernelModes
  BY <1>0 DEF CpuInv, KernelMutex
<1>5. KernelMutex'
  BY <1>2, <1>3, <1>4 DEF KernelMutex, KernelModes
<1>6. RunningIsCurrent'
  <2>1. \A d \in CPU : Current(d)' <=> Current(d)
    BY <1>0, <1>1, <1>3 DEF Current
  <2>2. \A d \in CPU : mode[d] \in {"panic", "dead"} => mode'[d] \in {"panic", "dead"}
    BY <1>0, <1>3
  <2> QED
    BY <1>0, <1>2, <2>1, <2>2 DEF CpuInv, RunningIsCurrent
<1>7. ModesAgree'
  BY <1>0, <1>1, <1>2, <1>3 DEF CpuInv, ModesAgree
<1>8. PanicAlone'
  BY <1>0, <1>1, <1>2, <1>3 DEF CpuInv, PanicAlone, Current
<1>9. cpu_status' \in [CPU -> {"UNUSED", "STARTED", "HALTED"}]
      /\ sie' \in [CPU -> BOOLEAN] /\ locked' \in BOOLEAN
  BY <1>0, <1>2 DEF TypeOK
<1> QED
  BY <1>0, <1>1, <1>2, <1>5, <1>6, <1>7, <1>8, <1>9, MoveStep
  DEF CpuInv, Modes

(* The return to user mode.                                                *)
LEMMA PopStep ==
  ASSUME IInv, NEW c \in CPU, env_pop_tf(c)
  PROVE  IInv'
<1>0. TypeOK /\ CpuInv /\ mode[c] = "pop"
  BY DEF IInv, env_pop_tf
<1>1. \A d \in CPU : mode'[d] = IF d = c THEN "user" ELSE mode[d]
  BY <1>0 DEF env_pop_tf, MoveTo, TypeOK
<1>2. /\ UNCHANGED <<env_status, env_tf, tableVars, ipcVars, cpu_env, cpu_status,
                     sie, locked, panicstr>>
      /\ MoveTo(c, "user")
  BY DEF env_pop_tf
<1>3. KernelMutex'
  BY <1>0, <1>1, <1>2 DEF CpuInv, KernelMutex, KernelModes
<1>4. RunningIsCurrent'
  <2>1. \A d \in CPU : Current(d)' <=> Current(d)
    BY <1>0, <1>1 DEF Current
  <2>2. \A d \in CPU : mode[d] \in {"panic", "dead"} => mode'[d] \in {"panic", "dead"}
    BY <1>0, <1>1
  <2> QED
    BY <1>0, <1>2, <2>1, <2>2 DEF CpuInv, RunningIsCurrent
<1>5. ModesAgree'
  BY <1>0, <1>1, <1>2 DEF CpuInv, ModesAgree
<1>6. PanicAlone'
  BY <1>0, <1>1, <1>2 DEF CpuInv, PanicAlone, Current
<1>7. cpu_status' \in [CPU -> {"UNUSED", "STARTED", "HALTED"}]
      /\ sie' \in [CPU -> BOOLEAN] /\ locked' \in BOOLEAN
  BY <1>0, <1>2 DEF TypeOK
<1> QED
  BY <1>0, <1>2, <1>3, <1>4, <1>5, <1>6, <1>7, MoveStep DEF CpuInv, Modes

(* ENV_CREATE during boot makes one slot runnable.                         *)
LEMMA CreateStep ==
  ASSUME IInv, env_create
  PROVE  IInv'
<1>1. PICK e \in Slots :
        /\ env_alloc(e, ZeroId)
        /\ env_status' = SetStatus(e, "RUNNABLE")
        /\ env_tf' = [env_tf EXCEPT ![e] = [call |-> "none", sepc |-> 0]]
  BY DEF env_create
<1>2. /\ TypeOK /\ CpuInv /\ OtherTypes /\ ListIs(env_status, env_free_list)
      /\ UNCHANGED <<cpu_env, cpu_status, sie, mode, locked, panicstr>>
      /\ BSP \in CPU /\ 0 \in Slots
  <2>1. BSP \in CPU /\ 0 \in Slots
    BY SMTT(60), ConstantsAssumption DEF BSP, CPU, Slots
  <2>2. TypeOK /\ CpuInv /\ OtherTypes
    BY DEF IInv, TypeOK, OtherTypes
  <2>3. ListIs(env_status, env_free_list)
    BY DEF IInv, FreeListExact, ListIs, NoRepeat, OnList
  <2> QED
    BY <2>1, <2>2, <2>3 DEF env_create
<1>3. /\ env_free_list' \in Seq(Slots) /\ NoRepeat(env_free_list')
      /\ OnList(env_free_list, e)
      /\ \A f \in Slots : OnList(env_free_list', f) <=>
           OnList(env_free_list, f) /\ f # e
  BY <1>1, <1>2, Pop DEF env_alloc, ListIs, OtherTypes
<1>4. /\ env_status[e] = "FREE"
      /\ env_status' \in [Slots -> Statuses]
      /\ \A f \in Slots : env_status'[f] = IF f = e THEN "RUNNABLE" ELSE env_status[f]
  BY <1>1, <1>2, <1>3 DEF SetStatus, Statuses, TypeOK, ListIs
<1>5. FreeListExact'
  BY <1>2, <1>3, <1>4 DEF ListIs, FreeListExact, NoRepeat, OnList
<1>6. /\ env_tf' \in [Slots -> Trapframes]
      /\ \A f \in Slots : env_tf'[f] =
           IF f = e THEN [call |-> "none", sepc |-> 0] ELSE env_tf[f]
  <2>1. [call |-> "none", sepc |-> 0] \in Trapframes
    BY SMTT(60) DEF Trapframes, TrapCalls
  <2> QED
    BY <1>1, <1>2, <2>1 DEF OtherTypes
<1>7. /\ env_ipc_recving' \in [Slots -> BOOLEAN] /\ delivered' \in [Slots -> BOOLEAN]
      /\ \A f \in Slots : env_ipc_recving'[f] =
           IF f = e THEN FALSE ELSE env_ipc_recving[f]
  BY <1>1, <1>2 DEF env_alloc, OtherTypes
<1>8. TypeOK'
  <2>1. env_gen' \in [Slots -> 0 .. MaxGen]
    BY SMTT(60), <1>1, <1>2, ConstantsAssumption DEF env_alloc, OtherTypes
  <2>2. env_parent_id' \in [Slots -> (0 .. MaxGen) \X Slots]
    <3>1. ZeroId \in (0 .. MaxGen) \X Slots
      BY SMTT(60), <1>2, ConstantsAssumption DEF ZeroId
    <3> QED
      BY <1>1, <1>2, <3>1 DEF env_alloc, OtherTypes
  <2> QED
    BY <1>2, <1>3, <1>4, <1>6, <1>7, <2>1, <2>2 DEF TypeOK
<1>9. CpuInv'
  <2>1. KernelMutex' /\ ModesAgree' /\ PanicAlone'
    BY <1>2 DEF CpuInv, KernelMutex, ModesAgree, PanicAlone, Current
  <2>2. RunningIsCurrent'
    <3>1. \A d \in CPU : Current(d) => cpu_env[d] \in Slots /\ cpu_env[d] # e
      <4>1. \A d \in CPU : cpu_env[d] \in Slots \cup {NULL}
        BY <1>2 DEF TypeOK
      <4> QED
        BY <1>2, <1>4, <4>1 DEF CpuInv, RunningIsCurrent
    <3>2. \A d \in CPU : Current(d)' <=> Current(d)
      BY <1>2 DEF Current
    <3> QED
      BY <1>2, <1>4, <3>1, <3>2 DEF CpuInv, RunningIsCurrent
  <2> QED
    BY <2>1, <2>2 DEF CpuInv
<1>10. RegistersOk'
  <2>1. ASSUME NEW f \in Slots, env_status'[f] # "FREE" PROVE TfOk(f)'
    <3>1. CASE f = e
      <4>1. env_tf'[f] = [call |-> "none", sepc |-> 0] /\ env_ipc_recving'[f] = FALSE
        BY <1>6, <1>7, <3>1
      <4>2. ResumeAt(env_tf'[f]) = 0 /\ env_tf'[f].call = "none"
        BY SMTT(60), <4>1 DEF ResumeAt
      <4> QED
        BY <4>1, <4>2 DEF TfOk, ResumeAt
    <3>2. CASE f # e
      <4>1. ~Panicking(f)
        <5>1. InKernel(BSP)
          BY <1>2 DEF InKernel, env_create
        <5> QED
          BY <1>2, <5>1, AloneInKernel DEF Panicking
      <4>2. TfOk(f)
        BY <1>4, <2>1, <3>2, <4>1 DEF IInv, RegistersOk
      <4> QED
        BY <1>4, <1>6, <1>7, <3>2, <4>2 DEF TfOk
    <3> QED
      BY <3>1, <3>2
  <2> QED
    BY <2>1 DEF RegistersOk
<1> QED
  BY <1>5, <1>8, <1>9, <1>10 DEF IInv

(* The state left by env_init and mp_init, with the lock taken.            *)
LEMMA InitInv == Init => IInv
<1> SUFFICES ASSUME Init PROVE IInv
  OBVIOUS
<1>0. /\ BSP \in CPU /\ 0 \in Slots /\ NENV \in Nat \ {0}
      /\ \A c \in CPU : mode[c] \in {"boot", "off"} /\ (mode[c] = "boot" <=> c = BSP)
  BY SMTT(60), ConstantsAssumption DEF Init, BSP, CPU, Slots
<1>1. env_free_list \in Seq(Slots) /\ Len(env_free_list) = NENV
      /\ \A i \in 1 .. NENV : env_free_list[i] = i - 1
  BY SMTT(60), <1>0 DEF Init, Slots
<1>2. TypeOK
  <2>1. ZeroId \in (0 .. MaxGen) \X Slots /\ 0 \in 0 .. MaxGen
    BY SMTT(60), <1>0, ConstantsAssumption DEF ZeroId
  <2>2. [call |-> "none", sepc |-> 0] \in Trapframes
    BY SMTT(60) DEF Trapframes, TrapCalls
  <2> QED
    BY <1>1, <2>1, <2>2 DEF Init, TypeOK, Statuses, Modes
<1>3. CpuInv
  <2>1. KernelMutex
    BY <1>0 DEF Init, KernelMutex, KernelModes
  <2>2. RunningIsCurrent
    BY <1>0 DEF Init, RunningIsCurrent, Current
  <2>3. ModesAgree /\ PanicAlone
    BY <1>0 DEF Init, ModesAgree, PanicAlone
  <2> QED
    BY <2>1, <2>2, <2>3 DEF CpuInv
<1>4. FreeListExact
  <2>1. ASSUME NEW e \in Slots
        PROVE  \E i \in 1 .. Len(env_free_list) : env_free_list[i] = e
    <3>1. e + 1 \in 1 .. NENV /\ (e + 1) - 1 = e
      BY SMTT(60), <1>0 DEF Slots
    <3> QED
      BY <1>1, <3>1
  <2>2. \A i, j \in 1 .. Len(env_free_list) :
          env_free_list[i] = env_free_list[j] => i = j
    BY SMTT(60), <1>0, <1>1
  <2> QED
    BY <2>1, <2>2 DEF Init, FreeListExact
<1>5. RegistersOk
  BY DEF Init, RegistersOk
<1> QED
  BY <1>2, <1>3, <1>4, <1>5 DEF IInv

(* Every step of the kernel preserves the inductive invariant.             *)
LEMMA StepInv == Disciplined /\ IInv /\ [Next]_vars => IInv'
<1> SUFFICES ASSUME Disciplined, IInv, [Next]_vars PROVE IInv'
  OBVIOUS
<1>1. CASE env_create
  BY <1>1, CreateStep
<1>2. CASE riscv_init
  <2>1. BSP \in CPU /\ sie \in [CPU -> BOOLEAN]
    BY SMTT(60), ConstantsAssumption DEF BSP, CPU, IInv, TypeOK
  <2>2. sie' \in [CPU -> BOOLEAN]
    BY <1>2, <2>1 DEF riscv_init
  <2> QED
    BY <1>2, <2>1, <2>2, IdleStep DEF riscv_init
<1>3. ASSUME NEW c \in CPU, mp_main(c) PROVE IInv'
  BY <1>3, MpMainStep
<1>4. ASSUME NEW c \in CPU, trap(c) PROVE IInv'
  BY <1>4, TrapStep
<1>5. ASSUME NEW c \in CPU, lock_kernel(c) PROVE IInv'
  BY <1>5, LockStep
<1>6. ASSUME NEW c \in CPU, IdleSchedule(c) PROVE IInv'
  <2>1. sie' \in [CPU -> BOOLEAN]
    BY <1>6 DEF IdleSchedule, IInv, TypeOK
  <2> QED
    BY <1>6, <2>1, IdleStep DEF IdleSchedule
<1>7. ASSUME NEW c \in CPU, env_pop_tf(c) PROVE IInv'
  BY <1>7, PopStep
<1>8. ASSUME NEW c \in CPU, trap_dispatch(c) PROVE IInv'
  BY <1>8, DispatchStep
<1>9. CASE UNCHANGED vars
  <2>1. UNCHANGED <<env_status, env_tf, env_gen, env_parent_id, env_free_list,
           env_ipc_recving, delivered, cpu_env, cpu_status, sie, mode, locked, panicstr>>
    BY <1>9 DEF vars, tableVars, ipcVars
  <2>2. TypeOK' /\ FreeListExact'
    BY <2>1 DEF IInv, TypeOK, FreeListExact
  <2>3. CpuInv'
    <3>1. \A c : Current(c)' <=> Current(c)
      BY <2>1 DEF Current
    <3>2. KernelMutex' /\ ModesAgree'
      BY <2>1 DEF IInv, CpuInv, KernelMutex, ModesAgree
    <3>3. RunningIsCurrent' /\ PanicAlone'
      BY <2>1, <3>1 DEF IInv, CpuInv, RunningIsCurrent, PanicAlone
    <3> QED
      BY <3>2, <3>3 DEF CpuInv
  <2>4. RegistersOk'
    BY <2>1 DEF IInv, RegistersOk, TfOk, Panicking
  <2> QED
    BY <2>2, <2>3, <2>4 DEF IInv
<1> QED
  BY <1>1, <1>2, <1>3, <1>4, <1>5, <1>6, <1>7, <1>8, <1>9 DEF Next

-----------------------------------------------------------------------------
(* The theorems. *)

(* The inductive invariant implies what is claimed about wake-ups and      *)
(* returns from system calls.                                              *)
LEMMA Consequences == IInv => ReceiverAsleep /\ ResumesAfterCall
<1> SUFFICES ASSUME IInv PROVE ReceiverAsleep /\ ResumesAfterCall
  OBVIOUS
<1>1. ReceiverAsleep
  BY DEF IInv, RegistersOk, TfOk, ReceiverAsleep
<1>2. ASSUME NEW c \in CPU, mode[c] = "pop"
      PROVE  ResumeAt(env_tf[cpu_env[c]]) =
               IF env_tf[cpu_env[c]].call = "none" THEN 0 ELSE 1
  <2>1. /\ Current(c) /\ cpu_env[c] \in Slots
        /\ env_status[cpu_env[c]] \in {"RUNNING", "DYING"}
    BY SMTT(60), <1>2 DEF IInv, CpuInv, RunningIsCurrent, Current, TypeOK
  <2>2. ~Panicking(cpu_env[c])
    BY <2>1 DEF IInv, CpuInv, PanicAlone, Panicking
  <2> QED
    BY <2>1, <2>2 DEF IInv, RegistersOk, TfOk
<1> QED
  BY <1>1, <1>2 DEF ResumesAfterCall

(* For every number of CPUs, slots and generations the inductive invariant *)
(* holds in every state the kernel reaches under the documented use of its *)
(* calls.                                                                  *)
THEOREM InvariantHolds ==
  ASSUME Disciplined
  PROVE  Spec => []IInv
BY InitInv, StepInv, PTL DEF Spec

(* Type correctness: every field of envs[] and cpus[] keeps its type.      *)
THEOREM TypeCorrect ==
  ASSUME Disciplined
  PROVE  Spec => []TypeOK
<1>1. IInv => TypeOK
  BY DEF IInv
<1> QED
  BY <1>1, InvariantHolds, PTL

(* The big kernel lock excludes: two CPUs are never in the kernel at the   *)
(* same time, and lock_kernel succeeds only when none is.                  *)
THEOREM MutualExclusion ==
  ASSUME Disciplined
  PROVE  Spec => []KernelMutex
<1>1. IInv => KernelMutex
  BY DEF IInv, CpuInv
<1> QED
  BY <1>1, InvariantHolds, PTL

(* No environment runs on two CPUs, none is freed or put to sleep under a  *)
(* CPU that runs it, and none is left RUNNING or DYING without a CPU.      *)
THEOREM StatusesAgree ==
  ASSUME Disciplined
  PROVE  Spec => []RunningIsCurrent
<1>1. IInv => RunningIsCurrent
  BY DEF IInv, CpuInv
<1> QED
  BY <1>1, InvariantHolds, PTL

(* The free list is exactly the ENV_FREE slots, each once.                 *)
THEOREM FreeListCorrect ==
  ASSUME Disciplined
  PROVE  Spec => []FreeListExact
<1>1. IInv => FreeListExact
  BY DEF IInv
<1> QED
  BY <1>1, InvariantHolds, PTL

(* sys_ipc_try_send wakes only environments asleep in sys_ipc_recv.        *)
THEOREM WakeupsSound ==
  ASSUME Disciplined
  PROVE  Spec => []ReceiverAsleep
<1>1. IInv => ReceiverAsleep
  BY Consequences
<1> QED
  BY <1>1, InvariantHolds, PTL

(* Every system call returns to the instruction after its ecall.           *)
THEOREM ReturnsExact ==
  ASSUME Disciplined
  PROVE  Spec => []ResumesAfterCall
<1>1. IInv => ResumesAfterCall
  BY Consequences
<1> QED
  BY <1>1, InvariantHolds, PTL

-----------------------------------------------------------------------------
(***************************************************************************)
(* Two more results that rest on the invariant: sys_ipc_recv returns only  *)
(* with a message, and a CPU that leaves an environment goes to the next   *)
(* runnable one in circular order.                                         *)
(***************************************************************************)

(***************************************************************************)
(* Whoever has the registers of a sys_ipc_recv is still waiting, or has    *)
(* been sent a message since.                                              *)
(***************************************************************************)
WaitsOrHas(e) ==
  env_tf[e].call = "recv" => env_ipc_recving[e] \/ delivered[e]

RecvInv == \A e \in Slots : WaitsOrHas(e)

(* SavedTf replaces the registers of the current environment only.         *)
LEMMA SavedCall ==
  ASSUME TypeOK, NEW c \in CPU, NEW call, NEW sepc, NEW e \in Slots
  PROVE  SavedTf(c, call, sepc)[e].call =
           IF e = cpu_env[c] THEN call ELSE env_tf[e].call
BY DEF SavedTf, TypeOK

(* A handler that saves the registers of another call than sys_ipc_recv    *)
(* and leaves the receivers alone keeps RecvInv.                           *)
LEMMA OtherCallKeeps ==
  ASSUME TypeOK, RecvInv, NEW c \in CPU, NEW call, NEW sepc, call # "recv",
         env_tf' = SavedTf(c, call, sepc), UNCHANGED ipcVars
  PROVE  RecvInv'
<1> SUFFICES ASSUME NEW e \in Slots PROVE WaitsOrHas(e)'
  BY DEF RecvInv
<1>1. env_tf'[e].call = IF e = cpu_env[c] THEN call ELSE env_tf[e].call
  BY SMTT(60), SavedCall
<1>2. UNCHANGED <<env_ipc_recving, delivered>>
  BY DEF ipcVars
<1> QED
  BY <1>1, <1>2 DEF RecvInv, WaitsOrHas

(* env_free leaves the receivers alone.                                    *)
LEMMA FreeKeeps ==
  ASSUME NEW e, env_free(e)
  PROVE  UNCHANGED ipcVars
BY DEF env_free, ipcVars

(* env_alloc clears what the previous owner of the slot left, and the      *)
(* registers its callers install are not those of a sys_ipc_recv.          *)
LEMMA AllocKeeps ==
  ASSUME TypeOK, RecvInv, NEW n \in Slots, NEW parent, env_alloc(n, parent),
         \A e \in Slots : env_tf'[e].call = "recv" =>
                            e # n /\ env_tf[e].call = "recv"
  PROVE  RecvInv'
<1> SUFFICES ASSUME NEW e \in Slots PROVE WaitsOrHas(e)'
  BY DEF RecvInv
<1>1. e # n => env_ipc_recving'[e] = env_ipc_recving[e]
               /\ delivered'[e] = delivered[e]
  BY DEF env_alloc, TypeOK
<1> QED
  BY <1>1 DEF RecvInv, WaitsOrHas

(* sys_exofork: the child has the registers of its parent's system call.   *)
LEMMA ExoforkKeeps ==
  ASSUME TypeOK, RecvInv, NEW c \in CPU, sys_exofork(c)
  PROVE  RecvInv'
<1>1. CASE env_tf' = SavedTf(c, "other", 0) /\ UNCHANGED ipcVars
  BY <1>1, OtherCallKeeps
<1>2. CASE \E n \in Slots :
             /\ env_alloc(n, env_id(cpu_env[c]))
             /\ env_tf' = [SavedTf(c, "other", 1) EXCEPT
                             ![n] = [call |-> "other", sepc |-> 1]]
  <2>1. PICK n \in Slots :
             /\ env_alloc(n, env_id(cpu_env[c]))
             /\ env_tf' = [SavedTf(c, "other", 1) EXCEPT
                             ![n] = [call |-> "other", sepc |-> 1]]
    BY <1>2
  <2>2. SavedTf(c, "other", 1) \in [Slots -> Trapframes]
    <3>1. [call |-> "other", sepc |-> 1] \in Trapframes
      BY SMTT(60) DEF Trapframes, TrapCalls
    <3>2. env_tf \in [Slots -> Trapframes]
      BY DEF TypeOK
    <3> QED
      BY <3>1, <3>2 DEF SavedTf
  <2>3. ASSUME NEW e \in Slots, env_tf'[e].call = "recv"
        PROVE  e # n /\ env_tf[e].call = "recv"
    <3>1. e # n
      BY <2>1, <2>2, <2>3
    <3>2. env_tf'[e] = SavedTf(c, "other", 1)[e]
      BY <2>1, <2>2, <3>1
    <3> QED
      BY SMTT(60), <2>3, <3>1, <3>2, SavedCall
  <2> QED
    BY <2>1, <2>3, AllocKeeps
<1> QED
  BY <1>1, <1>2 DEF sys_exofork

(* sys_env_set_trapframe: the registers installed are not those of a       *)
(* system call.                                                            *)
LEMMA SetTrapframeKeeps ==
  ASSUME TypeOK, RecvInv, NEW c \in CPU, NEW id, sys_env_set_trapframe(c, id)
  PROVE  RecvInv'
<1> SUFFICES ASSUME NEW e \in Slots PROVE WaitsOrHas(e)'
  BY DEF RecvInv
<1>1. UNCHANGED <<env_ipc_recving, delivered>>
  BY DEF sys_env_set_trapframe, ipcVars
<1>2. \/ env_tf'[e].call = "none"
      \/ env_tf'[e] = SavedTf(c, "other", 1)[e]
  BY DEF sys_env_set_trapframe
<1>3. env_tf'[e].call = "recv" => env_tf[e].call = "recv"
  BY SMTT(60), <1>2, SavedCall
<1> QED
  BY <1>1, <1>3 DEF RecvInv, WaitsOrHas

(* sys_ipc_try_send: who stops waiting has been sent a message.            *)
LEMMA TrySendKeeps ==
  ASSUME TypeOK, RecvInv, NEW c \in CPU, NEW id, NEW mapped \in BOOLEAN,
         sys_ipc_try_send(c, id, mapped)
  PROVE  RecvInv'
<1> SUFFICES ASSUME NEW e \in Slots PROVE WaitsOrHas(e)'
  BY DEF RecvInv
<1> DEFINE found == {f \in envid2env(c, id, FALSE) : env_ipc_recving[f] /\ mapped}
           saved == SavedTf(c, "other", 1)
<1>1. /\ env_tf'[e] = IF e \in found /\ saved[e].sepc < 2
                      THEN [saved[e] EXCEPT !.sepc = @ + 1] ELSE saved[e]
      /\ env_ipc_recving'[e] <=> env_ipc_recving[e] /\ e \notin found
      /\ delivered'[e] <=> delivered[e] \/ e \in found
  BY DEF sys_ipc_try_send
<1>2. saved[e] \in Trapframes
  BY SMTT(60) DEF SavedTf, TypeOK, Trapframes, TrapCalls
<1>3. env_tf'[e].call = saved[e].call
  BY SMTT(60), <1>1, <1>2 DEF Trapframes
<1>4. env_tf'[e].call = "recv" => env_tf[e].call = "recv"
  BY SMTT(60), <1>3, SavedCall
<1> HIDE DEF found
<1> QED
  BY <1>1, <1>4 DEF RecvInv, WaitsOrHas

(* sys_ipc_recv with a page-aligned address marks its caller as waiting.   *)
LEMMA RecvKeeps ==
  ASSUME TypeOK, RecvInv, NEW c \in CPU, sys_ipc_recv(c, TRUE)
  PROVE  RecvInv'
<1> SUFFICES ASSUME NEW e \in Slots PROVE WaitsOrHas(e)'
  BY DEF RecvInv
<1>1. /\ delivered' = [delivered EXCEPT ![cpu_env[c]] = FALSE]
      /\ env_tf' = SavedTf(c, "recv", 0)
      /\ env_ipc_recving' = [env_ipc_recving EXCEPT ![cpu_env[c]] = TRUE]
  BY DEF sys_ipc_recv
<1>2. e = cpu_env[c] => env_ipc_recving'[e]
  BY <1>1 DEF TypeOK
<1>3. e # cpu_env[c] => /\ env_tf'[e].call = env_tf[e].call
                        /\ env_ipc_recving'[e] = env_ipc_recving[e]
                        /\ delivered'[e] = delivered[e]
  BY SMTT(60), <1>1, SavedCall DEF TypeOK
<1> QED
  BY <1>2, <1>3 DEF RecvInv, WaitsOrHas

(* Every handler keeps RecvInv when no sys_ipc_recv has an unaligned       *)
(* address.                                                                *)
LEMMA DispatchKeeps ==
  ASSUME TypeOK, RecvInv, "recv_unaligned" \notin Calls,
         NEW c \in CPU, trap_dispatch(c)
  PROVE  RecvInv'
<1>1. ASSUME NEW id, sys_env_destroy(c, id) PROVE RecvInv'
  <2>1. UNCHANGED ipcVars
    BY <1>1, FreeKeeps DEF sys_env_destroy, DestroySelf
  <2>2. \/ env_tf' = SavedTf(c, "other", 0)
        \/ env_tf' = SavedTf(c, "other", 1)
    BY <1>1 DEF sys_env_destroy
  <2> QED
    BY <2>1, <2>2, OtherCallKeeps
<1>2. ASSUME sys_yield(c) PROVE RecvInv'
  BY <1>2, OtherCallKeeps DEF sys_yield
<1>3. ASSUME NEW id, NEW status, sys_env_set_status(c, id, status) PROVE RecvInv'
  BY <1>3, OtherCallKeeps DEF sys_env_set_status
<1>4. ASSUME NEW on, sys_set_irq(c, on) PROVE RecvInv'
  BY <1>4, OtherCallKeeps DEF sys_set_irq
<1>5. ASSUME sys_other(c) PROVE RecvInv'
  BY <1>5, OtherCallKeeps DEF sys_other
<1>6. ASSUME TimerInterrupt(c) PROVE RecvInv'
  BY <1>6, OtherCallKeeps DEF TimerInterrupt
<1>7. ASSUME Fault(c) PROVE RecvInv'
  <2>1. UNCHANGED ipcVars
    BY <1>7, FreeKeeps DEF Fault, DestroySelf
  <2> QED
    BY <1>7, <2>1, OtherCallKeeps DEF Fault
<1>8. ASSUME Zombie(c) PROVE RecvInv'
  <2>1. UNCHANGED ipcVars /\ UNCHANGED env_tf
    BY <1>8, FreeKeeps DEF Zombie, DestroySelf
  <2> QED
    BY <2>1 DEF RecvInv, WaitsOrHas, ipcVars
<1> QED
  BY <1>1, <1>2, <1>3, <1>4, <1>5, <1>6, <1>7, <1>8, ExoforkKeeps,
     SetTrapframeKeeps, TrySendKeeps, RecvKeeps
  DEF trap_dispatch, Syscall, Interrupted, Makes

(* Every step of the kernel keeps RecvInv.                                 *)
LEMMA StepKeeps ==
  ASSUME "recv_unaligned" \notin Calls
  PROVE  TypeOK /\ RecvInv /\ [Next]_vars => RecvInv'
<1> SUFFICES ASSUME TypeOK, RecvInv, [Next]_vars PROVE RecvInv'
  OBVIOUS
<1>1. ASSUME UNCHANGED <<env_tf, ipcVars>> PROVE RecvInv'
  BY <1>1 DEF RecvInv, WaitsOrHas, ipcVars
<1>2. CASE env_create
  <2>1. PICK n \in Slots :
             /\ env_alloc(n, ZeroId)
             /\ env_tf' = [env_tf EXCEPT ![n] = [call |-> "none", sepc |-> 0]]
    BY <1>2 DEF env_create
  <2>2. \A e \in Slots : env_tf'[e].call = "recv" =>
                           e # n /\ env_tf[e].call = "recv"
    BY <2>1 DEF TypeOK
  <2> QED
    BY <2>1, <2>2, AllocKeeps
<1>3. CASE riscv_init
  BY <1>3, <1>1 DEF riscv_init
<1>4. ASSUME NEW c \in CPU,
             mp_main(c) \/ trap(c) \/ lock_kernel(c) \/ IdleSchedule(c)
             \/ env_pop_tf(c)
      PROVE  RecvInv'
  BY <1>4, <1>1 DEF mp_main, trap, lock_kernel, IdleSchedule, env_pop_tf
<1>5. ASSUME NEW c \in CPU, trap_dispatch(c) PROVE RecvInv'
  BY <1>5, DispatchKeeps
<1>6. CASE UNCHANGED vars
  BY <1>6, <1>1 DEF vars
<1> QED
  BY <1>2, <1>3, <1>4, <1>5, <1>6 DEF Next

(* For every number of CPUs and slots, sys_ipc_recv with a page-aligned    *)
(* address returns to its caller only after sys_ipc_try_send has given it  *)
(* a message.                                                              *)
THEOREM RecvReturnsWithMessage ==
  ASSUME Disciplined, "recv_unaligned" \notin Calls
  PROVE  Spec => []RecvMeansDelivered
<1>1. Init => RecvInv
  BY SMTT(60) DEF Init, RecvInv, WaitsOrHas
<1>2. IInv => TypeOK
  BY DEF IInv
<1>3. IInv /\ RecvInv => RecvMeansDelivered
  <2> SUFFICES ASSUME IInv, RecvInv, NEW c \in CPU, mode[c] = "pop",
                      env_tf[cpu_env[c]].call = "recv"
               PROVE  delivered[cpu_env[c]]
    BY DEF RecvMeansDelivered
  <2>1. /\ cpu_env[c] \in Slots
        /\ env_status[cpu_env[c]] \in {"RUNNING", "DYING"}
    BY SMTT(60) DEF IInv, CpuInv, RunningIsCurrent, Current, TypeOK
  <2>2. ~env_ipc_recving[cpu_env[c]]
    BY <2>1, Consequences DEF ReceiverAsleep
  <2> QED
    BY <2>1, <2>2 DEF RecvInv, WaitsOrHas
<1> QED
  BY <1>1, <1>2, <1>3, StepKeeps, InvariantHolds, PTL DEF Spec

-----------------------------------------------------------------------------
(* The order of the scheduler. *)

(***************************************************************************)
(* What CircularOrder says of one CPU.                                     *)
(***************************************************************************)
NextInOrder(c) ==
  (/\ mode[c] = "ukern" /\ mode'[c] = "pop"
   /\ cpu_env'[c] # cpu_env[c] /\ env_status'[cpu_env[c]] # "FREE") =>
     \A g \in Slots : env_status'[g] = "RUNNABLE" /\ g # cpu_env[c] =>
       ~ScannedBefore(cpu_env[c], g, cpu_env'[c])

(* sched_yield called with the current environment takes the next runnable *)
(* one in circular order, whatever the statuses are.                       *)
LEMMA YieldInOrder ==
  ASSUME TypeOK, NEW c \in CPU, cpu_env[c] # NULL, NEW st,
         sched_yield(c, st, cpu_env[c])
  PROVE  NextInOrder(c)
<1>1. CASE \E e \in {e \in Slots : st[e] = "RUNNABLE"} :
             /\ \A f \in {g \in Slots : st[g] = "RUNNABLE"} :
                  ~ScannedBefore(cpu_env[c], f, e)
             /\ env_run(c, st, cpu_env[c], e)
  <2>1. PICK e \in Slots :
             /\ \A f \in Slots : st[f] = "RUNNABLE" =>
                  ~ScannedBefore(cpu_env[c], f, e)
             /\ env_run(c, st, cpu_env[c], e)
    BY <1>1
  <2>2. cpu_env'[c] = e
    BY <2>1 DEF env_run, TypeOK
  <2>3. \A g \in Slots : env_status'[g] = "RUNNABLE" /\ g # cpu_env[c] =>
                           st[g] = "RUNNABLE"
    BY <2>1 DEF env_run
  <2> QED
    BY <2>1, <2>2, <2>3 DEF NextInOrder
<1>2. CASE env_run(c, st, cpu_env[c], cpu_env[c])
  BY <1>2 DEF env_run, TypeOK, NextInOrder
<1>3. CASE sched_halt(c, st, cpu_env[c])
  BY <1>3 DEF sched_halt, TypeOK, NextInOrder
<1> QED
  BY <1>1, <1>2, <1>3 DEF sched_yield

(* trap() goes back to the environment it came from or yields for it.      *)
LEMMA ReturnInOrder ==
  ASSUME TypeOK, NEW c \in CPU, cpu_env[c] # NULL, NEW st, trap_return(c, st)
  PROVE  NextInOrder(c)
<1>1. CASE env_run(c, st, cpu_env[c], cpu_env[c])
  BY <1>1 DEF env_run, TypeOK, NextInOrder
<1>2. CASE sched_yield(c, st, cpu_env[c])
  BY <1>2, YieldInOrder
<1> QED
  BY <1>1, <1>2 DEF trap_return

(* An environment that destroys itself leaves a free slot.                 *)
LEMMA DestroyInOrder ==
  ASSUME TypeOK, NEW c \in CPU, cpu_env[c] # NULL, DestroySelf(c)
  PROVE  NextInOrder(c)
<1> DEFINE st == SetStatus(cpu_env[c], "FREE")
<1>0. cpu_env[c] \in Slots /\ st[cpu_env[c]] = "FREE"
  BY DEF TypeOK, SetStatus
<1>1. sched_yield(c, st, NULL)
  BY DEF DestroySelf
<1> HIDE DEF st
<1>2. CASE \E e \in Slots : st[e] = "RUNNABLE" /\ env_run(c, st, NULL, e)
  <2>1. PICK e \in Slots : st[e] = "RUNNABLE" /\ env_run(c, st, NULL, e)
    BY <1>2
  <2>2. env_status'[cpu_env[c]] = "FREE"
    BY <1>0, <2>1 DEF env_run
  <2> QED
    BY <2>2 DEF NextInOrder
<1>3. CASE sched_halt(c, st, NULL)
  BY <1>3 DEF sched_halt, TypeOK, NextInOrder
<1> QED
  BY <1>1, <1>2, <1>3 DEF sched_yield

(* Every handler leaves its CPU in circular order.                         *)
LEMMA DispatchInOrder ==
  ASSUME TypeOK, NEW c \in CPU, cpu_env[c] # NULL, trap_dispatch(c)
  PROVE  NextInOrder(c)
<1>1. ASSUME NEW st, syscall_return(c, st) PROVE NextInOrder(c)
  BY <1>1, ReturnInOrder DEF syscall_return
<1>2. ASSUME NEW id, sys_env_destroy(c, id) PROVE NextInOrder(c)
  BY <1>2, <1>1, DestroyInOrder DEF sys_env_destroy
<1>3. ASSUME sys_yield(c) PROVE NextInOrder(c)
  BY <1>3, YieldInOrder DEF sys_yield
<1>4. ASSUME sys_exofork(c) PROVE NextInOrder(c)
  <2>1. CASE _panic(c)
    BY <2>1 DEF _panic, TypeOK, NextInOrder
  <2> QED
    BY <1>4, <2>1, <1>1 DEF sys_exofork
<1>5. ASSUME NEW id, NEW status, sys_env_set_status(c, id, status)
      PROVE  NextInOrder(c)
  BY <1>5, <1>1 DEF sys_env_set_status
<1>6. ASSUME NEW id, sys_env_set_trapframe(c, id) PROVE NextInOrder(c)
  BY <1>6, <1>1 DEF sys_env_set_trapframe
<1>7. ASSUME NEW id, NEW mapped, sys_ipc_try_send(c, id, mapped)
      PROVE  NextInOrder(c)
  BY <1>7, <1>1 DEF sys_ipc_try_send
<1>8. ASSUME NEW aligned, sys_ipc_recv(c, aligned) PROVE NextInOrder(c)
  BY <1>8, <1>1, YieldInOrder DEF sys_ipc_recv
<1>9. ASSUME NEW on, sys_set_irq(c, on) PROVE NextInOrder(c)
  BY <1>9, ReturnInOrder DEF sys_set_irq
<1>10. ASSUME sys_other(c) PROVE NextInOrder(c)
  BY <1>10, <1>1 DEF sys_other
<1>11. ASSUME TimerInterrupt(c) PROVE NextInOrder(c)
  BY <1>11, YieldInOrder DEF TimerInterrupt
<1>12. ASSUME Fault(c) PROVE NextInOrder(c)
  BY <1>12, <1>1, DestroyInOrder DEF Fault
<1>13. ASSUME Zombie(c) PROVE NextInOrder(c)
  BY <1>13, DestroyInOrder DEF Zombie
<1> QED
  BY <1>2, <1>3, <1>4, <1>5, <1>6, <1>7, <1>8, <1>9, <1>10, <1>11, <1>12, <1>13
  DEF trap_dispatch, Syscall, Interrupted

(* A scheduler's step moves one CPU only.                                  *)
LEMMA YieldMovesOne ==
  ASSUME TypeOK, NEW c \in CPU, NEW st, NEW cur, sched_yield(c, st, cur)
  PROVE  \A d \in CPU \ {c} : mode'[d] = mode[d]
BY DEF sched_yield, env_run, sched_halt, TypeOK

(* So does every handler.                                                  *)
LEMMA DispatchMovesOne ==
  ASSUME TypeOK, NEW c \in CPU, trap_dispatch(c)
  PROVE  \A d \in CPU \ {c} : mode'[d] = mode[d]
<1> DEFINE Others == \A d \in CPU \ {c} : mode'[d] = mode[d]
<1>1. ASSUME NEW st, NEW cur, sched_yield(c, st, cur) PROVE Others
  BY <1>1, YieldMovesOne
<1>2. ASSUME NEW st, trap_return(c, st) PROVE Others
  BY <1>2, <1>1 DEF trap_return, env_run, TypeOK
<1>3. ASSUME NEW st, syscall_return(c, st) PROVE Others
  BY <1>3, <1>2 DEF syscall_return
<1>4. ASSUME DestroySelf(c) PROVE Others
  BY <1>4, <1>1 DEF DestroySelf
<1>5. ASSUME _panic(c) PROVE Others
  BY <1>5 DEF _panic, TypeOK
<1> HIDE DEF Others
<1>6. ASSUME NEW id, sys_env_destroy(c, id) PROVE Others
  BY <1>6, <1>3, <1>4 DEF sys_env_destroy
<1>7. ASSUME NEW id, NEW x, sys_env_set_status(c, id, x)
                            \/ sys_ipc_try_send(c, id, x)
      PROVE  Others
  BY <1>7, <1>3 DEF sys_env_set_status, sys_ipc_try_send
<1>8. ASSUME NEW id, sys_env_set_trapframe(c, id) PROVE Others
  BY <1>8, <1>3 DEF sys_env_set_trapframe
<1>9. ASSUME NEW x, sys_ipc_recv(c, x) \/ sys_set_irq(c, x) PROVE Others
  BY <1>9, <1>1, <1>2, <1>3 DEF sys_ipc_recv, sys_set_irq
<1>10. ASSUME sys_yield(c) \/ sys_exofork(c) \/ sys_other(c) PROVE Others
  BY <1>10, <1>1, <1>3, <1>5 DEF sys_yield, sys_exofork, sys_other
<1>11. ASSUME TimerInterrupt(c) \/ Fault(c) \/ Zombie(c) PROVE Others
  BY <1>11, <1>1, <1>3, <1>4 DEF TimerInterrupt, Fault, Zombie
<1>12. Others
  BY <1>6, <1>7, <1>8, <1>9, <1>10, <1>11 DEF trap_dispatch, Syscall, Interrupted
<1> QED
  BY <1>12 DEF Others

(* For every number of CPUs and slots, a CPU that leaves an environment    *)
(* for another one goes to the first runnable one after it in circular     *)
(* order, whatever the handler did to the statuses before it.              *)
THEOREM RoundRobin ==
  ASSUME Disciplined
  PROVE  Spec => CircularOrder
<1> DEFINE InOrder == \A c \in CPU : NextInOrder(c)
<1>1. IInv /\ [Next]_vars => [InOrder]_vars
  <2> SUFFICES ASSUME IInv, Next, NEW c \in CPU, mode[c] = "ukern",
                      mode'[c] = "pop"
               PROVE  NextInOrder(c)
    BY DEF NextInOrder
  <2>0. TypeOK /\ cpu_env[c] # NULL
    BY DEF IInv, CpuInv, RunningIsCurrent, Current
  <2>1. ~env_create
    BY DEF env_create
  <2>2. CASE riscv_init
    <3>1. BSP \in CPU /\ mode[BSP] = "boot"
      BY SMTT(60), <2>2, ConstantsAssumption DEF riscv_init, BSP, CPU
    <3> QED
      BY <2>0, <2>2, <3>1, YieldMovesOne DEF riscv_init
  <2>3. ASSUME NEW d \in CPU, mp_main(d) PROVE FALSE
    BY <2>0, <2>3 DEF mp_main, MoveTo, TypeOK
  <2>4. ASSUME NEW d \in CPU, trap(d) PROVE FALSE
    <3>1. \E m \in {"dead", "utrap", "relock", "htrap", "skern"} : MoveTo(d, m)
      BY <2>4 DEF trap
    <3> QED
      BY <2>0, <3>1 DEF MoveTo, TypeOK
  <2>5. ASSUME NEW d \in CPU, lock_kernel(d) PROVE FALSE
    <3>1. \E m \in {"utrap", "ukern", "skern"} : MoveTo(d, m)
      BY <2>5 DEF lock_kernel
    <3> QED
      BY <2>0, <3>1 DEF MoveTo, TypeOK
  <2>6. ASSUME NEW d \in CPU, IdleSchedule(d) PROVE FALSE
    BY <2>0, <2>6, YieldMovesOne DEF IdleSchedule
  <2>7. ASSUME NEW d \in CPU, env_pop_tf(d) PROVE FALSE
    BY <2>0, <2>7 DEF env_pop_tf, MoveTo, TypeOK
  <2>8. ASSUME NEW d \in CPU, trap_dispatch(d) PROVE NextInOrder(c)
    <3>1. CASE d = c
      BY <2>0, <2>8, <3>1, DispatchInOrder
    <3>2. CASE d # c
      BY <2>0, <2>8, <3>2, DispatchMovesOne
    <3> QED
      BY <3>1, <3>2
  <2> QED
    BY <2>1, <2>2, <2>3, <2>4, <2>5, <2>6, <2>7, <2>8 DEF Next
<1>2. [InOrder]_vars => [\A c \in CPU :
       LET e == cpu_env[c]
           f == cpu_env'[c]
       IN (/\ mode[c] = "ukern" /\ mode'[c] = "pop"
           /\ f # e /\ env_status'[e] # "FREE") =>
            \A g \in Slots : env_status'[g] = "RUNNABLE" /\ g # e =>
              ~ScannedBefore(e, g, f)]_vars
  BY DEF NextInOrder
<1>3. Spec => [][InOrder]_vars
  BY <1>1, InvariantHolds, PTL DEF Spec
<1> QED
  BY <1>2, <1>3, PTL DEF CircularOrder
=============================================================================
