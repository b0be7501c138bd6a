------------------------------- MODULE Kernel -------------------------------
(***************************************************************************)
(* The kernel core of ZynexOS (kern/riscv): the table of environments, the *)
(* CPUs, the big kernel lock, the round-robin scheduler, the system calls  *)
(* that create, start, stop and destroy environments, and the blocking     *)
(* half of IPC.                                                            *)
(*                                                                         *)
(* A handler runs from lock_kernel to unlock_kernel with interrupts off,   *)
(* so it is one action.  What interleaves is everything else: a CPU        *)
(* waiting for the lock after a trap, a CPU that has released the lock but *)
(* not yet loaded the registers of the environment it chose, user code on  *)
(* several CPUs, halted CPUs and CPUs still booting.                       *)
(*                                                                         *)
(* The arguments of a system call are chosen when its handler runs, not    *)
(* when the ecall is executed: nothing reads them in between.              *)
(***************************************************************************)
EXTENDS Integers, Sequences

CONSTANTS
  NCPU,             \* harts 0 .. NCPU-1; hart 0 is the boot CPU
  NENV,             \* slots of the array envs[]
  NBoot,            \* environments created by riscv_init before any runs
  MaxGen,           \* generations of a slot before env_alloc wraps around
  Calls,            \* the system calls user programs make
  StatusArgs,       \* the statuses they pass to sys_env_set_status
  MayTouchReceiver, \* may they restart or re-register a child in recv?
  MayRedestroy,     \* may they sys_env_destroy a child already ENV_DYING?
  SlowBoot          \* may a timer tick reach an AP still waiting in mp_main?

AllCalls == {"destroy", "yield", "exofork", "set_status", "set_trapframe",
             "try_send", "recv", "recv_unaligned", "disable_irq",
             "enable_irq", "other"}

Statuses == {"FREE", "DYING", "RUNNABLE", "RUNNING", "NOT_RUNNABLE"}

ASSUME ConstantsAssumption ==
  /\ NCPU \in Nat \ {0} /\ NENV \in Nat \ {0}
  /\ NBoot \in 1 .. NENV
  /\ MaxGen \in Nat \ {0}
  /\ Calls \subseteq AllCalls
  /\ StatusArgs \subseteq Statuses
  /\ {MayTouchReceiver, MayRedestroy, SlowBoot} \subseteq BOOLEAN

CPU == 0 .. NCPU - 1
Slots == 0 .. NENV - 1
BSP == 0
NULL == -1

(***************************************************************************)
(* An envid is a pair <<generation, slot>>; ZeroId is the envid 0, which   *)
(* envid2env takes for the caller itself.                                  *)
(***************************************************************************)
ZeroId == <<0, 0>>
EnvIds == (1 .. MaxGen) \X Slots

(***************************************************************************)
(* Where a CPU is.                                                         *)
(*   off      AP not started                 boot     BSP in riscv_init    *)
(*   mpmain   AP spinning for the lock in mp_main, interrupts enabled      *)
(*   utrap    trapped from user mode, spinning for the lock                *)
(*   htrap    woken from sched_halt, spinning for the lock                 *)
(*   relock   as utrap, for a CPU marked halted: takes the lock twice      *)
(*   ukern    handling a trap from user mode                               *)
(*   skern    in the kernel with no trapped environment                    *)
(*   pop      in env_pop_tf: lock released, registers not yet restored     *)
(*   user, halt, monitor, panic              dead     spinning on panicstr *)
(***************************************************************************)
Modes == {"off", "boot", "mpmain", "utrap", "htrap", "relock", "ukern",
          "skern", "pop", "user", "halt", "monitor", "panic", "dead"}
KernelModes == {"boot", "ukern", "skern", "monitor", "panic"}

(***************************************************************************)
(* The saved registers, as far as the system call return path tells them   *)
(* apart: which call trapped and how many instructions past its ecall sepc *)
(* points.  "none" is a trap that is not a system call.                    *)
(***************************************************************************)
TrapCalls == {"none", "yield", "recv", "other"}
Trapframes == [call : TrapCalls, sepc : 0 .. 2]

VARIABLES
  env_status,       \* envs[e].env_status
  env_gen,          \* the generation part of envs[e].env_id
  env_parent_id,    \* envs[e].env_parent_id
  env_ipc_recving,  \* envs[e].env_ipc_recving
  env_tf,           \* envs[e].env_tf
  env_free_list,    \* the free list, from its head
  cpu_env,          \* cpus[c].cpu_env
  cpu_status,       \* cpus[c].cpu_status
  sie,              \* is the timer bit of hart c's sie register set?
  mode,             \* where hart c is
  locked,           \* kernel_lock.locked
  panicstr,         \* has the kernel panicked?
  delivered         \* has e been sent a message since its last sys_ipc_recv?

tableVars == <<env_gen, env_parent_id, env_free_list>>
ipcVars == <<env_ipc_recving, delivered>>
vars == <<env_status, env_tf, tableVars, ipcVars, cpu_env, cpu_status, sie,
          mode, locked, panicstr>>

-----------------------------------------------------------------------------
(* The scheduler. *)

(***************************************************************************)
(* The scan of sched_yield starts at slot "start" and wraps around: does   *)
(* it look at f before e?                                                  *)
(***************************************************************************)
ScannedBefore(start, f, e) ==
  IF (f >= start) = (e >= start) THEN f < e ELSE f >= start

(* Mutant: env_run does not set the environment it leaves back to RUNNABLE. *)
env_run_KeepsRunning(c, st, cur, e) ==
  /\ env_status' = [st EXCEPT ![e] = "RUNNING"]
  /\ cpu_env' = [cpu_env EXCEPT ![c] = e]
  /\ mode' = [mode EXCEPT ![c] = "pop"]
  /\ locked' = FALSE
  /\ UNCHANGED <<cpu_status, panicstr>>

(***************************************************************************)
(* env_run, on CPU c with statuses st and current environment cur: switch  *)
(* to e, release the lock, and start popping e's registers.                *)
(***************************************************************************)
env_run(c, st, cur, e) ==
  /\ env_status' = [f \in Slots |->
       IF f = e THEN "RUNNING"
       ELSE IF f = cur /\ st[f] = "RUNNING" THEN "RUNNABLE" ELSE st[f]]
  /\ cpu_env' = [cpu_env EXCEPT ![c] = e]
  /\ mode' = [mode EXCEPT ![c] = "pop"]
  /\ locked' = FALSE
  /\ UNCHANGED <<cpu_status, panicstr>>

(* Mutant: sched_halt does not mark the CPU halted. *)
sched_halt_Unmarked(c, st, cur) ==
  /\ env_status' = st
  /\ cpu_env' = [cpu_env EXCEPT ![c] = NULL]
  /\ mode' = [mode EXCEPT ![c] = "halt"]
  /\ locked' = FALSE
  /\ UNCHANGED <<cpu_status, panicstr>>

(***************************************************************************)
(* sched_halt: with nothing left to run, drop into the monitor for ever,   *)
(* lock held; otherwise forget the current environment, mark the CPU       *)
(* halted, release the lock and wait with the timer interrupt enabled.     *)
(***************************************************************************)
sched_halt(c, st, cur) ==
  /\ env_status' = st
  /\ UNCHANGED panicstr
  /\ \/ /\ \A e \in Slots : st[e] \notin {"RUNNABLE", "RUNNING", "DYING"}
        /\ cpu_env' = [cpu_env EXCEPT ![c] = cur]
        /\ mode' = [mode EXCEPT ![c] = "monitor"]
        /\ UNCHANGED <<cpu_status, locked>>
     \/ /\ \E e \in Slots : st[e] \in {"RUNNABLE", "RUNNING", "DYING"}
        /\ cpu_env' = [cpu_env EXCEPT ![c] = NULL]
        /\ mode' = [mode EXCEPT ![c] = "halt"]
        /\ cpu_status' = [cpu_status EXCEPT ![c] = "HALTED"]
        /\ locked' = FALSE

(* Mutant: sched_yield always scans from slot 0. *)
sched_yield_FromZero(c, st, cur) ==
  LET runnable == {e \in Slots : st[e] = "RUNNABLE"}
      rerun == cur # NULL /\ st[cur] = "RUNNING"
  IN \/ \E e \in runnable :
          (\A f \in runnable : e <= f) /\ env_run(c, st, cur, e)
     \/ runnable = {} /\ rerun /\ env_run(c, st, cur, cur)
     \/ runnable = {} /\ ~rerun /\ sched_halt(c, st, cur)

(***************************************************************************)
(* sched_yield: the first RUNNABLE slot from the current one on (from slot *)
(* 0 when there is no current environment), else the current environment   *)
(* if it is still RUNNING, else sched_halt.                                *)
(***************************************************************************)
sched_yield(c, st, cur) ==
  LET start == IF cur = NULL THEN 0 ELSE cur
      runnable == {e \in Slots : st[e] = "RUNNABLE"}
      rerun == cur # NULL /\ st[cur] = "RUNNING"
  IN \/ \E e \in runnable :
          /\ \A f \in runnable : ~ScannedBefore(start, f, e)
          /\ env_run(c, st, cur, e)
     \/ runnable = {} /\ rerun /\ env_run(c, st, cur, cur)
     \/ runnable = {} /\ ~rerun /\ sched_halt(c, st, cur)

SieAfterYield(c) == [sie EXCEPT ![c] = @ \/ mode'[c] = "halt"]

(***************************************************************************)
(* The end of trap(): resume the current environment if it may run.        *)
(***************************************************************************)
trap_return(c, st) ==
  LET e == cpu_env[c]
  IN IF st[e] = "RUNNING" THEN env_run(c, st, e, e)
                          ELSE sched_yield(c, st, e)

-----------------------------------------------------------------------------
(* Operations on the table of environments. *)

env_id(e) == <<env_gen[e], e>>

(***************************************************************************)
(* The slots envid2env accepts for an envid, for a call made on CPU c.     *)
(***************************************************************************)
envid2env(c, id, checkperm) ==
  IF id = ZeroId THEN {cpu_env[c]}
  ELSE {e \in Slots :
          /\ env_id(e) = id /\ env_status[e] # "FREE"
          /\ ~checkperm \/ e = cpu_env[c]
             \/ env_parent_id[e] = env_id(cpu_env[c])}

(* Mutant: the generation is not brought back to 1 when it overflows. *)
env_alloc_NoWrap(e, parent) ==
  /\ env_free_list # <<>> /\ e = Head(env_free_list)
  /\ env_gen' = [env_gen EXCEPT ![e] = @ + 1]
  /\ env_parent_id' = [env_parent_id EXCEPT ![e] = parent]
  /\ env_ipc_recving' = [env_ipc_recving EXCEPT ![e] = FALSE]
  /\ env_free_list' = Tail(env_free_list)
  /\ delivered' = [delivered EXCEPT ![e] = FALSE]

(***************************************************************************)
(* env_alloc takes the head e of the free list, gives it its next id and   *)
(* clears what the previous owner left; status and registers are then set  *)
(* by the caller.                                                          *)
(***************************************************************************)
env_alloc(e, parent) ==
  /\ env_free_list # <<>> /\ e = Head(env_free_list)
  /\ env_gen' = [env_gen EXCEPT ![e] = IF @ = MaxGen THEN 1 ELSE @ + 1]
  /\ env_parent_id' = [env_parent_id EXCEPT ![e] = parent]
  /\ env_ipc_recving' = [env_ipc_recving EXCEPT ![e] = FALSE]
  /\ env_free_list' = Tail(env_free_list)
  /\ delivered' = [delivered EXCEPT ![e] = FALSE]

(* Mutant: env_free does not return the slot to the free list. *)
env_free_Leaks(e) == UNCHANGED <<tableVars, ipcVars>>

env_free(e) ==
  /\ env_free_list' = <<e>> \o env_free_list
  /\ UNCHANGED <<env_gen, env_parent_id, env_ipc_recving, delivered>>

SetStatus(e, s) == [env_status EXCEPT ![e] = s]

(***************************************************************************)
(* The registers the trap saved in curenv->env_tf, "sepc" instructions     *)
(* past the ecall of "call".                                               *)
(***************************************************************************)
SavedTf(c, call, sepc) ==
  [env_tf EXCEPT ![cpu_env[c]] = [call |-> call, sepc |-> sepc]]

(***************************************************************************)
(* A system call that returns to its caller with statuses st.              *)
(***************************************************************************)
syscall_return(c, st) == trap_return(c, st) /\ sie' = SieAfterYield(c)

(***************************************************************************)
(* env_destroy(curenv).                                                    *)
(***************************************************************************)
DestroySelf(c) ==
  /\ env_free(cpu_env[c])
  /\ sched_yield(c, SetStatus(cpu_env[c], "FREE"), NULL)
  /\ sie' = SieAfterYield(c)

-----------------------------------------------------------------------------
(* System calls, each from the dispatch in trap() to the unlock. *)

sys_env_destroy(c, id) ==
  LET found == envid2env(c, id, TRUE)
  IN \/ /\ found = {}
        /\ env_tf' = SavedTf(c, "other", 1)
        /\ syscall_return(c, env_status)
        /\ UNCHANGED <<tableVars, ipcVars>>
     \/ \E e \in found :
          \/ /\ e # cpu_env[c] /\ env_status[e] = "RUNNING"
             /\ env_tf' = SavedTf(c, "other", 1)
             /\ syscall_return(c, SetStatus(e, "DYING"))
             /\ UNCHANGED <<tableVars, ipcVars>>
          \/ /\ e # cpu_env[c] /\ env_status[e] # "RUNNING"
             /\ env_free(e)
             /\ env_tf' = SavedTf(c, "other", 1)
             /\ syscall_return(c, SetStatus(e, "FREE"))
          \/ /\ e = cpu_env[c]
             /\ env_tf' = SavedTf(c, "other", 0)
             /\ DestroySelf(c)

(***************************************************************************)
(* sys_yield never gets back to the "sepc += 4" of trap_dispatch.          *)
(***************************************************************************)
sys_yield(c) ==
  /\ env_tf' = SavedTf(c, "yield", 0)
  /\ sched_yield(c, env_status, cpu_env[c])
  /\ sie' = SieAfterYield(c)
  /\ UNCHANGED <<tableVars, ipcVars>>

_panic(c) ==
  /\ panicstr' = TRUE
  /\ mode' = [mode EXCEPT ![c] = "panic"]
  /\ UNCHANGED <<cpu_env, cpu_status, sie, locked>>

sys_exofork(c) ==
  \/ /\ env_free_list = <<>>
     /\ env_tf' = SavedTf(c, "other", 0)
     /\ _panic(c)
     /\ UNCHANGED <<env_status, tableVars, ipcVars>>
  \/ \E e \in Slots :
       /\ env_alloc(e, env_id(cpu_env[c]))
       /\ env_tf' = [SavedTf(c, "other", 1) EXCEPT
                       ![e] = [call |-> "other", sepc |-> 1]]
       /\ syscall_return(c, SetStatus(e, "NOT_RUNNABLE"))

sys_env_set_status(c, id, status) ==
  LET found == envid2env(c, id, TRUE)
      changed == {e \in found : env_status[e] \in {"RUNNABLE", "NOT_RUNNABLE"}}
  IN /\ env_tf' = SavedTf(c, "other", 1)
     /\ syscall_return(c, [e \in Slots |->
          IF e \in changed THEN status ELSE env_status[e]])
     /\ UNCHANGED <<tableVars, ipcVars>>

(***************************************************************************)
(* The registers installed are not those of a system call.  When they are  *)
(* the caller's own, trap_dispatch still adds 4 to their sepc.             *)
(***************************************************************************)
sys_env_set_trapframe(c, id) ==
  LET found == envid2env(c, id, TRUE)
      saved == SavedTf(c, "other", 1)
  IN /\ env_tf' = [e \in Slots |->
          IF e \in found
          THEN [call |-> "none", sepc |-> IF e = cpu_env[c] THEN 1 ELSE 0]
          ELSE saved[e]]
     /\ syscall_return(c, env_status)
     /\ UNCHANGED <<tableVars, ipcVars>>

(* Mutant: sys_ipc_try_send leaves the receiver marked as receiving. *)
sys_ipc_try_send_StillReceiving(c, id, mapped) ==
  LET found == {e \in envid2env(c, id, FALSE) : env_ipc_recving[e] /\ mapped}
      saved == SavedTf(c, "other", 1)
  IN /\ env_tf' = [e \in Slots |->
          IF e \in found /\ saved[e].sepc < 2
          THEN [saved[e] EXCEPT !.sepc = @ + 1] ELSE saved[e]]
     /\ delivered' = [e \in Slots |-> delivered[e] \/ e \in found]
     /\ syscall_return(c, [e \in Slots |->
          IF e \in found THEN "RUNNABLE" ELSE env_status[e]])
     /\ UNCHANGED <<tableVars, env_ipc_recving>>

(***************************************************************************)
(* "mapped" is FALSE when the page to be sent is refused or cannot be      *)
(* mapped: the receiver is then left waiting.                              *)
(***************************************************************************)
sys_ipc_try_send(c, id, mapped) ==
  LET found == {e \in envid2env(c, id, FALSE) : env_ipc_recving[e] /\ mapped}
      saved == SavedTf(c, "other", 1)
  IN /\ env_tf' = [e \in Slots |->
          IF e \in found /\ saved[e].sepc < 2
          THEN [saved[e] EXCEPT !.sepc = @ + 1] ELSE saved[e]]
     /\ env_ipc_recving' = [e \in Slots |-> env_ipc_recving[e] /\ e \notin found]
     /\ delivered' = [e \in Slots |-> delivered[e] \/ e \in found]
     /\ syscall_return(c, [e \in Slots |->
          IF e \in found THEN "RUNNABLE" ELSE env_status[e]])
     /\ UNCHANGED tableVars

(* Mutant: sys_ipc_recv yields but does not mark itself not runnable. *)
sys_ipc_recv_StaysRunnable(c, aligned) ==
  LET e == cpu_env[c]
  IN /\ delivered' = [delivered EXCEPT ![e] = FALSE]
     /\ env_tf' = SavedTf(c, "recv", 0)
     /\ env_ipc_recving' = [env_ipc_recving EXCEPT ![e] = TRUE]
     /\ sched_yield(c, env_status, e)
     /\ sie' = SieAfterYield(c)
     /\ UNCHANGED tableVars

(***************************************************************************)
(* sys_ipc_recv: a caller marked as receiving goes straight back to sleep; *)
(* an unaligned dstva returns -E_INVAL, which syscall() drops.             *)
(***************************************************************************)
sys_ipc_recv(c, aligned) ==
  LET e == cpu_env[c]
  IN /\ delivered' = [delivered EXCEPT ![e] = FALSE]
     /\ UNCHANGED tableVars
     /\ \/ /\ aligned \/ env_ipc_recving[e]
           /\ env_tf' = SavedTf(c, "recv", 0)
           /\ env_ipc_recving' = [env_ipc_recving EXCEPT ![e] = TRUE]
           /\ sched_yield(c, SetStatus(e, "NOT_RUNNABLE"), e)
           /\ sie' = SieAfterYield(c)
        \/ /\ ~aligned /\ ~env_ipc_recving[e]
           /\ env_tf' = SavedTf(c, "recv", 1)
           /\ syscall_return(c, env_status)
           /\ UNCHANGED env_ipc_recving

(***************************************************************************)
(* sys_disable_irq and sys_enable_irq: the timer bit of this hart's sie.   *)
(***************************************************************************)
sys_set_irq(c, on) ==
  /\ env_tf' = SavedTf(c, "other", 1)
  /\ trap_return(c, env_status)
  /\ sie' = [sie EXCEPT ![c] = on \/ mode'[c] = "halt"]
  /\ UNCHANGED <<tableVars, ipcVars>>

(***************************************************************************)
(* The calls that change nothing modelled here.                            *)
(***************************************************************************)
sys_other(c) ==
  /\ env_tf' = SavedTf(c, "other", 1)
  /\ syscall_return(c, env_status)
  /\ UNCHANGED <<tableVars, ipcVars>>

-----------------------------------------------------------------------------
(* Traps other than system calls. *)

(***************************************************************************)
(* A timer interrupt taken in user mode: acknowledge, rearm, reschedule.   *)
(***************************************************************************)
TimerInterrupt(c) ==
  /\ sie[c]
  /\ env_tf' = SavedTf(c, "none", 0)
  /\ sched_yield(c, env_status, cpu_env[c])
  /\ UNCHANGED <<sie, tableVars, ipcVars>>

(***************************************************************************)
(* A page fault resumes the environment at its upcall; a fault with no     *)
(* usable upcall, and any other trap, destroys the environment.            *)
(***************************************************************************)
Fault(c) ==
  /\ env_tf' = SavedTf(c, "none", 0)
  /\ \/ /\ syscall_return(c, env_status)
        /\ UNCHANGED <<tableVars, ipcVars>>
     \/ DestroySelf(c)

(* Mutant: the zombie's CPU moves on without freeing it. *)
Zombie_NotFreed(c) ==
  /\ mode[c] = "ukern" /\ env_status[cpu_env[c]] = "DYING"
  /\ sched_yield(c, env_status, NULL)
  /\ sie' = SieAfterYield(c)
  /\ UNCHANGED <<env_tf, tableVars, ipcVars>>

(***************************************************************************)
(* The garbage collection of a zombie at the top of trap().                *)
(***************************************************************************)
Zombie(c) ==
  /\ mode[c] = "ukern" /\ env_status[cpu_env[c]] = "DYING"
  /\ DestroySelf(c)
  /\ UNCHANGED env_tf

-----------------------------------------------------------------------------
(* Booting, entering and leaving the kernel. *)

MoveTo(c, m) == mode' = [mode EXCEPT ![c] = m]

Init ==
  /\ env_status = [e \in Slots |-> "FREE"]
  /\ env_gen = [e \in Slots |-> 0]
  /\ env_parent_id = [e \in Slots |-> ZeroId]
  /\ env_ipc_recving = [e \in Slots |-> FALSE]
  /\ env_tf = [e \in Slots |-> [call |-> "none", sepc |-> 0]]
  /\ env_free_list = [i \in 1 .. NENV |-> i - 1]
  /\ cpu_env = [c \in CPU |-> NULL]
  /\ cpu_status = [c \in CPU |-> "UNUSED"]
  /\ sie = [c \in CPU |-> FALSE]
  /\ mode = [c \in CPU |-> IF c = BSP THEN "boot" ELSE "off"]
  /\ locked = TRUE
  /\ panicstr = FALSE
  /\ delivered = [e \in Slots |-> FALSE]

(***************************************************************************)
(* boot_aps starts the APs one at a time: AP c runs mp_main up to          *)
(* lock_kernel once the one before it has reported itself started.         *)
(***************************************************************************)
mp_main(c) ==
  /\ mode[BSP] = "boot" /\ mode[c] = "off"
  /\ \A d \in CPU : d # BSP /\ d < c => cpu_status[d] = "STARTED"
  /\ MoveTo(c, "mpmain")
  /\ cpu_status' = [cpu_status EXCEPT ![c] = "STARTED"]
  /\ sie' = [sie EXCEPT ![c] = TRUE]
  /\ UNCHANGED <<env_status, env_tf, tableVars, ipcVars, cpu_env, locked,
                 panicstr>>

ApsStarted == \A c \in CPU \ {BSP} : cpu_status[c] # "UNUSED"

(***************************************************************************)
(* ENV_CREATE in riscv_init, with the lock held.                           *)
(***************************************************************************)
env_create ==
  /\ mode[BSP] = "boot" /\ ApsStarted
  /\ Len(env_free_list) > NENV - NBoot
  /\ \E e \in Slots :
       /\ env_alloc(e, ZeroId)
       /\ env_status' = SetStatus(e, "RUNNABLE")
       /\ env_tf' = [env_tf EXCEPT ![e] = [call |-> "none", sepc |-> 0]]
  /\ UNCHANGED <<cpu_env, cpu_status, sie, mode, locked, panicstr>>

(***************************************************************************)
(* The end of riscv_init: clint_init, then the scheduler.                  *)
(***************************************************************************)
riscv_init ==
  /\ mode[BSP] = "boot" /\ ApsStarted
  /\ Len(env_free_list) <= NENV - NBoot
  /\ sched_yield(BSP, env_status, cpu_env[BSP])
  /\ sie' = [sie EXCEPT ![BSP] = TRUE]
  /\ UNCHANGED <<env_tf, tableVars, ipcVars>>

(***************************************************************************)
(* A trap up to the place where it takes the lock.  It takes the lock once *)
(* for having been halted and once for having come from user mode; a CPU   *)
(* that is neither goes on without it.  An interrupt needs the sie bit; in *)
(* user mode an exception needs nothing.                                   *)
(***************************************************************************)
TrapsFrom == {"user", "halt"} \cup (IF SlowBoot THEN {"mpmain"} ELSE {})

trap(c) ==
  /\ mode[c] \in TrapsFrom
  /\ mode[c] = "user" \/ sie[c]
  /\ \/ panicstr /\ MoveTo(c, "dead") /\ UNCHANGED cpu_status
     \/ /\ ~panicstr
        /\ cpu_status' = [cpu_status EXCEPT ![c] = "STARTED"]
        /\ MoveTo(c, CASE mode[c] = "user" /\ cpu_status[c] # "HALTED" -> "utrap"
                       [] mode[c] = "user" /\ cpu_status[c] = "HALTED" -> "relock"
                       [] mode[c] # "user" /\ cpu_status[c] = "HALTED" -> "htrap"
                       [] OTHER -> "skern")
  /\ UNCHANGED <<env_status, env_tf, tableVars, ipcVars, cpu_env, sie,
                 locked, panicstr>>

lock_kernel(c) ==
  /\ mode[c] \in {"mpmain", "utrap", "htrap", "relock"}
  /\ ~locked
  /\ locked' = TRUE
  /\ MoveTo(c, CASE mode[c] = "relock" -> "utrap"
                 [] mode[c] = "utrap" -> "ukern"
                 [] OTHER -> "skern")
  /\ UNCHANGED <<env_status, env_tf, tableVars, ipcVars, cpu_env, cpu_status,
                 sie, panicstr>>

(***************************************************************************)
(* In the kernel with no trapped environment: a CPU fresh from mp_main, or *)
(* one that took a timer interrupt while halted.                           *)
(***************************************************************************)
IdleSchedule(c) ==
  /\ mode[c] = "skern"
  /\ sched_yield(c, env_status, cpu_env[c])
  /\ UNCHANGED <<sie, env_tf, tableVars, ipcVars>>

(* Mutant: _alltraps_ret has no special case for a yield. *)
ResumeAt_NoYieldCase(tf) == tf.sepc

(***************************************************************************)
(* The instruction, relative to its ecall, at which the registers in tf    *)
(* resume: _alltraps_ret steps over the ecall of a yield.                  *)
(***************************************************************************)
ResumeAt(tf) == IF tf.call = "yield" THEN tf.sepc + 1 ELSE tf.sepc

(***************************************************************************)
(* _alltraps_ret, with the lock already released: load the registers found *)
(* in env_tf now and return to user mode.                                  *)
(***************************************************************************)
env_pop_tf(c) ==
  /\ mode[c] = "pop"
  /\ MoveTo(c, "user")
  /\ UNCHANGED <<env_status, env_tf, tableVars, ipcVars, cpu_env, cpu_status,
                 sie, locked, panicstr>>

-----------------------------------------------------------------------------
(***************************************************************************)
(* What user programs ask for.  The constants bound it to the uses the     *)
(* calls are documented for; a CPU whose timer is masked is in the short   *)
(* section of CfiFlashWrite that ends with sys_enable_irq.                 *)
(***************************************************************************)
AnyId == EnvIds \cup {ZeroId}

MayDestroy(c, id) ==
  MayRedestroy \/ \A e \in envid2env(c, id, TRUE) : env_status[e] # "DYING"

MayRestart(c, id) ==
  MayTouchReceiver \/ \A e \in envid2env(c, id, TRUE) : ~env_ipc_recving[e]

MaySetRegisters(c, id) ==
  /\ MayRestart(c, id)
  /\ cpu_env[c] \notin envid2env(c, id, TRUE)

Makes(c, call) ==
  /\ mode[c] = "ukern" /\ env_status[cpu_env[c]] # "DYING"
  /\ call \in Calls
  /\ sie[c] \/ call = "enable_irq"

Syscall(c) ==
  \/ /\ Makes(c, "destroy")
     /\ \E id \in AnyId : MayDestroy(c, id) /\ sys_env_destroy(c, id)
  \/ Makes(c, "yield") /\ sys_yield(c)
  \/ Makes(c, "exofork") /\ sys_exofork(c)
  \/ /\ Makes(c, "set_status")
     /\ \E id \in AnyId, status \in StatusArgs :
          MayRestart(c, id) /\ sys_env_set_status(c, id, status)
  \/ /\ Makes(c, "set_trapframe")
     /\ \E id \in AnyId : MaySetRegisters(c, id) /\ sys_env_set_trapframe(c, id)
  \/ /\ Makes(c, "try_send")
     /\ \E id \in AnyId, mapped \in BOOLEAN : sys_ipc_try_send(c, id, mapped)
  \/ Makes(c, "recv") /\ sys_ipc_recv(c, TRUE)
  \/ Makes(c, "recv_unaligned") /\ sys_ipc_recv(c, FALSE)
  \/ Makes(c, "disable_irq") /\ sys_set_irq(c, FALSE)
  \/ Makes(c, "enable_irq") /\ sys_set_irq(c, TRUE)
  \/ Makes(c, "other") /\ sys_other(c)

Interrupted(c) ==
  /\ mode[c] = "ukern" /\ env_status[cpu_env[c]] # "DYING"
  /\ TimerInterrupt(c) \/ (sie[c] /\ Fault(c))

trap_dispatch(c) == Syscall(c) \/ Interrupted(c) \/ Zombie(c)

Next ==
  \/ env_create \/ riscv_init
  \/ \E c \in CPU :
       \/ mp_main(c) \/ trap(c) \/ lock_kernel(c) \/ IdleSchedule(c)
       \/ env_pop_tf(c) \/ trap_dispatch(c)

Spec == Init /\ [][Next]_vars

-----------------------------------------------------------------------------
(* Properties. *)

(* Every variable keeps its type: the fields of envs[] and cpus[] hold only *)
(* values the C declarations and enumerations give them.                   *)
TypeOK ==
  /\ env_status \in [Slots -> Statuses]
  /\ env_gen \in [Slots -> 0 .. MaxGen]
  /\ env_parent_id \in [Slots -> (0 .. MaxGen) \X Slots]
  /\ env_ipc_recving \in [Slots -> BOOLEAN]
  /\ env_tf \in [Slots -> Trapframes]
  /\ env_free_list \in Seq(Slots)
  /\ cpu_env \in [CPU -> Slots \cup {NULL}]
  /\ cpu_status \in [CPU -> {"UNUSED", "STARTED", "HALTED"}]
  /\ sie \in [CPU -> BOOLEAN]
  /\ mode \in [CPU -> Modes]
  /\ locked \in BOOLEAN
  /\ panicstr \in BOOLEAN
  /\ delivered \in [Slots -> BOOLEAN]

(* The big kernel lock works although the flag has no owner: at most one    *)
(* CPU is in the kernel, and the flag is set exactly while one is.  A CPU  *)
(* takes it in mp_main, for having been halted, or for a user trap, and    *)
(* env_run and sched_halt release it wherever it was taken.                *)
KernelMutex ==
  /\ \A c, d \in CPU :
       mode[c] \in KernelModes /\ mode[d] \in KernelModes => c = d
  /\ locked = \E c \in CPU : mode[c] \in KernelModes

Current(c) == mode[c] \in {"user", "utrap", "relock", "ukern", "pop"}

(* No environment runs on two CPUs, none that a CPU is running has been    *)
(* freed, put to sleep or made schedulable, and none is RUNNING or DYING   *)
(* with no CPU to run or reap it (sched_yield relies on the first,         *)
(* env_destroy on the last).                                               *)
RunningIsCurrent ==
  /\ \A c \in CPU : Current(c) =>
       /\ cpu_env[c] # NULL
       /\ env_status[cpu_env[c]] \in {"RUNNING", "DYING"}
  /\ \A c, d \in CPU :
       Current(c) /\ Current(d) /\ cpu_env[c] = cpu_env[d] => c = d
  /\ \A e \in Slots : env_status[e] \in {"RUNNING", "DYING"} =>
       \E c \in CPU : cpu_env[c] = e /\ (Current(c) \/ mode[c] \in {"panic", "dead"})

(* The free list holds every ENV_FREE slot, once, and nothing else, so no  *)
(* slot is lost and env_alloc never hands out one that is in use.          *)
FreeListExact ==
  /\ \A e \in Slots : env_status[e] = "FREE" <=>
       \E i \in 1 .. Len(env_free_list) : env_free_list[i] = e
  /\ \A i, j \in 1 .. Len(env_free_list) :
       env_free_list[i] = env_free_list[j] => i = j

(* An environment that sys_ipc_try_send would wake really sleeps, with its *)
(* registers still at the ecall of sys_ipc_recv: the send can neither      *)
(* restart one that runs nor advance registers that are not a receiver's.  *)
ReceiverAsleep ==
  \A e \in Slots : env_ipc_recving[e] /\ env_status[e] # "FREE" =>
    env_status[e] = "NOT_RUNNABLE" /\ env_tf[e] = [call |-> "recv", sepc |-> 0]

(* Whatever switches, sends or yields came in between, an environment that *)
(* is given the CPU resumes right after the ecall it made, never on it and *)
(* never one instruction further.                                          *)
ResumesAfterCall ==
  \A c \in CPU : mode[c] = "pop" =>
    LET tf == env_tf[cpu_env[c]]
    IN ResumeAt(tf) = IF tf.call = "none" THEN 0 ELSE 1

(* A sys_ipc_recv with an aligned dstva returns to its caller only once    *)
(* sys_ipc_try_send has given it a message: no wake-up, kill or reuse of a *)
(* slot fakes one.  (With an unaligned dstva it does return without one:   *)
(* the case SYS_ipc_recv of syscall drops the -E_INVAL of sys_ipc_recv.)   *)
RecvMeansDelivered ==
  \A c \in CPU : mode[c] = "pop" /\ env_tf[cpu_env[c]].call = "recv" =>
    delivered[cpu_env[c]]

(* The scheduler never gives an environment to two CPUs at once (the       *)
(* comment in sched_yield).                                                *)
NeverOnTwoCPUs ==
  \A c, d \in CPU :
    Current(c) /\ Current(d) /\ cpu_env[c] = cpu_env[d] => c = d

(* A CPU that leaves environment e for another one takes the first         *)
(* runnable one after e in circular order (the comment in sched_yield),    *)
(* whether e yielded, blocked or was preempted.  (After an exit there is   *)
(* no current environment and the scan starts at slot 0.)                  *)
CircularOrder ==
  [][\A c \in CPU :
       LET e == cpu_env[c]
           f == cpu_env'[c]
       IN (/\ mode[c] = "ukern" /\ mode'[c] = "pop"
           /\ f # e /\ env_status'[e] # "FREE") =>
            \A g \in Slots : env_status'[g] = "RUNNABLE" /\ g # e =>
              ~ScannedBefore(e, g, f)]_vars

-----------------------------------------------------------------------------
(***************************************************************************)
(* Fairness.  Harts execute instructions, the boot goes on, a program that *)
(* does not trap by itself is interrupted by the timer, a timer tick       *)
(* pending in user mode is eventually the trap that is taken, and a hart   *)
(* that keeps trying the xchg of spin_lock on a lock released again and    *)
(* again gets it (strong fairness: an assumption on the memory system, the *)
(* lock keeps no queue).                                                   *)
(***************************************************************************)
Preempt(c) ==
  /\ mode[c] = "ukern" /\ env_status[cpu_env[c]] # "DYING"
  /\ TimerInterrupt(c)

Fairness ==
  /\ WF_vars(env_create) /\ WF_vars(riscv_init)
  /\ \A c \in CPU :
       /\ WF_vars(mp_main(c)) /\ WF_vars(trap(c)) /\ SF_vars(lock_kernel(c))
       /\ WF_vars(IdleSchedule(c)) /\ WF_vars(env_pop_tf(c))
       /\ WF_vars(trap_dispatch(c)) /\ SF_vars(Preempt(c))

FairSpec == Spec /\ Fairness

(* Once no more environments are created, every runnable environment is    *)
(* eventually run and every zombie eventually freed, unless the kernel     *)
(* panics: the circular scan of sched_yield starves nobody, whatever the   *)
(* others do (there are two more of them than CPUs, or no scan order could *)
(* starve anyone), and the CPU still running a zombie traps and reaps it.  *)
NoneCreated ==
  \A e \in Slots : env_status[e] = "FREE" => env_status'[e] = "FREE"
EventuallyServed ==
  <>[][NoneCreated]_vars =>
    \A e \in Slots : env_status[e] \in {"RUNNABLE", "DYING"} ~>
                       env_status[e] \notin {"RUNNABLE", "DYING"} \/ panicstr
=============================================================================
