-------------------------------- MODULE Pipe --------------------------------
(***************************************************************************)
(* Pipes (lib/riscv/pipe.c) with the file-descriptor calls that share and  *)
(* drop them (lib/riscv/fd.c, fork).  A pipe has no kernel object: it is a *)
(* page mapped once for every descriptor open on either end, and an end is *)
(* taken to be closed when that page has as many references as the page of *)
(* the caller's own descriptor.                                            *)
(*                                                                         *)
(* One step is one system call, or one access to the shared ring.  On one  *)
(* CPU a timer interrupt may switch to any other environment between two   *)
(* steps; with SMP every environment has a CPU to itself.  One environment *)
(* reads and one writes; the others inherit, duplicate and close.          *)
(***************************************************************************)
EXTENDS Integers, Sequences, FiniteSets

CONSTANTS
  Env,
  Creator,      \* the environment that called pipe()
  Reader,       \* the environment that calls read
  Writer,       \* the environment that calls write
  MayCall,      \* the other calls each environment makes
  Fds,          \* descriptor numbers; pipe() returned 0 and 1
  PIPEBUFSIZ,
  Sizes,        \* the sizes passed to read and write
  MaxBytes,     \* bound on the bytes written
  SMP

ASSUME PipeAssumption ==
  /\ Creator \in Env /\ Reader \in Env /\ Writer \in Env /\ "none" \notin Env
  /\ MayCall \in [Env -> SUBSET {"close", "dup", "fork", "kill"}]
  /\ {0, 1} \subseteq Fds /\ IsFiniteSet(Env \X Fds)
  /\ PIPEBUFSIZ \in Nat \ {0} /\ Sizes \subseteq Nat /\ MaxBytes \in Nat
  /\ SMP \in BOOLEAN

VARIABLES
  alive,             \* environments that exist
  env_parent,        \* who forked them
  running,           \* the one on the CPU, if any (without SMP)
  fdpage,            \* the end each descriptor page belongs to, if mapped
  datapage,          \* is the pipe's page mapped for the descriptor?
  p_rpos, p_wpos, p_buf,
  pc,                \* where each environment is
  loc,               \* the local variables of its call
  received           \* the last byte the reader took out

ring == <<p_rpos, p_wpos, p_buf, received>>
maps == <<alive, env_parent, fdpage, datapage>>
vars == <<maps, running, ring, pc, loc>>

Slots == 0 .. PIPEBUFSIZ - 1
Idle == [op |-> "none", fd |-> 0, new |-> 0, n |-> 0, i |-> 0, byte |-> 0,
         ref |-> 0, ret |-> FALSE, runs |-> 0]

(***************************************************************************)
(* pageref of the page of one end, and of the pipe itself.                 *)
(***************************************************************************)
pageref(end) ==
  Cardinality({x \in Env \X Fds :
                 IF end = "pipe" THEN datapage[x] ELSE fdpage[x] = end})

-----------------------------------------------------------------------------
(* Running, calling and returning. *)

Runs(e) == e \in alive /\ (SMP \/ running = e)

At(e, label) == Runs(e) /\ pc[e] = label

Goto(e, label, l) == pc' = [pc EXCEPT ![e] = label] /\ loc' = [loc EXCEPT ![e] = l]

Return(e) == Goto(e, "idle", Idle)

(***************************************************************************)
(* loc.runs is env_runs less the value _pipeisclosed read at its start,    *)
(* kept until it is looked at; what counts is 2 or more than 2.            *)
(***************************************************************************)
Bump(l) == [l EXCEPT !.runs = IF @ < 3 THEN @ + 1 ELSE @]
Counting(e) == pc[e] \in {"fdref", "piperef", "cmp"}

(***************************************************************************)
(* env_run, after a timer interrupt or because the CPU is free: it may be  *)
(* back to the same environment.  env_runs of the one it resumes goes up.  *)
(***************************************************************************)
env_run(e) ==
  /\ e \in alive
  /\ running' = IF SMP THEN running ELSE e
  /\ loc' = [loc EXCEPT ![e] = IF Counting(e) THEN Bump(@) ELSE @]
  /\ UNCHANGED <<maps, ring, pc>>

SysYield(e) ==
  /\ At(e, "yield")
  /\ Goto(e, loc[e].op, loc[e])
  /\ running' = IF SMP THEN running ELSE "none"
  /\ UNCHANGED <<maps, ring>>

-----------------------------------------------------------------------------
(* _pipeisclosed: two pagerefs, each a system call and a read of pages[],  *)
(* repeated until env_runs shows that nothing came between.                *)

ReadRuns(e) ==
  /\ At(e, "closed")
  /\ Goto(e, "fdref", [loc[e] EXCEPT !.runs = 0])
  /\ UNCHANGED <<maps, ring, running>>

PagerefFd(e) ==
  /\ At(e, "fdref")
  /\ Goto(e, "piperef",
          Bump([loc[e] EXCEPT !.ref = pageref(fdpage[<<e, loc[e].fd>>])]))
  /\ UNCHANGED <<maps, ring, running>>

PagerefPipe(e) ==
  /\ At(e, "piperef")
  /\ Goto(e, "cmp", Bump([loc[e] EXCEPT !.ret = (loc[e].ref = pageref("pipe"))]))
  /\ UNCHANGED <<maps, ring, running>>

Forget(l) == [l EXCEPT !.ref = 0, !.ret = FALSE, !.runs = 0]

(* Mutant: the result is used whatever happened in between. *)
CompareRuns_Never(e) ==
  /\ At(e, "cmp")
  /\ IF loc[e].ret THEN Return(e)
     ELSE Goto(e, "yield", Forget(loc[e]))
  /\ UNCHANGED <<maps, ring, running>>

(***************************************************************************)
(* A closed pipe ends read (with 0, end of file) and write (with 0).       *)
(***************************************************************************)
CompareRuns(e) ==
  /\ At(e, "cmp")
  /\ IF loc[e].runs # 2 THEN Goto(e, "closed", Forget(loc[e]))
     ELSE IF loc[e].ret THEN Return(e)
     ELSE Goto(e, "yield", Forget(loc[e]))
  /\ UNCHANGED <<maps, ring, running>>

-----------------------------------------------------------------------------
(* devpipe_read and devpipe_write. *)

Transfer(e, op, end, i, n) ==
  /\ At(e, "idle") /\ fdpage[<<e, i>>] = end
  /\ Goto(e, op, [Idle EXCEPT !.op = op, !.fd = i, !.n = n])
  /\ UNCHANGED <<maps, ring, running>>

read(i, n) == Transfer(Reader, "read", "r", i, n)

(* Mutant: the ring is taken for empty only when rpos is past wpos. *)
ReadLoop_OffByOne ==
  LET l == loc[Reader]
  IN /\ At(Reader, "read")
     /\ IF l.i = l.n \/ (p_rpos > p_wpos /\ l.i > 0) THEN Return(Reader)
        ELSE Goto(Reader, IF p_rpos > p_wpos THEN "closed" ELSE "take", l)
     /\ UNCHANGED <<maps, ring, running>>

ReadLoop ==
  LET l == loc[Reader]
  IN /\ At(Reader, "read")
     /\ IF l.i = l.n \/ (p_rpos = p_wpos /\ l.i > 0) THEN Return(Reader)
        ELSE Goto(Reader, IF p_rpos = p_wpos THEN "closed" ELSE "take", l)
     /\ UNCHANGED <<maps, ring, running>>

TakeByte ==
  /\ At(Reader, "take")
  /\ Goto(Reader, "rpos",
          [loc[Reader] EXCEPT !.byte = p_buf[p_rpos % PIPEBUFSIZ]])
  /\ UNCHANGED <<maps, ring, running>>

(* Mutant: the read position is kept within the ring. *)
AdvanceRpos_Wraps ==
  /\ At(Reader, "rpos")
  /\ p_rpos' = (p_rpos + 1) % PIPEBUFSIZ
  /\ received' = loc[Reader].byte
  /\ Goto(Reader, "read", [loc[Reader] EXCEPT !.i = @ + 1, !.byte = 0])
  /\ UNCHANGED <<maps, p_wpos, p_buf, running>>

AdvanceRpos ==
  /\ At(Reader, "rpos")
  /\ p_rpos' = p_rpos + 1
  /\ received' = loc[Reader].byte
  /\ Goto(Reader, "read", [loc[Reader] EXCEPT !.i = @ + 1, !.byte = 0])
  /\ UNCHANGED <<maps, p_wpos, p_buf, running>>

write(i, n) == p_wpos + n <= MaxBytes /\ Transfer(Writer, "write", "w", i, n)

WriteLoop ==
  LET l == loc[Writer]
  IN /\ At(Writer, "write")
     /\ IF l.i = l.n THEN Return(Writer)
        ELSE Goto(Writer, IF p_wpos >= p_rpos + PIPEBUFSIZ THEN "closed"
                          ELSE "store", l)
     /\ UNCHANGED <<maps, ring, running>>

(***************************************************************************)
(* The k-th byte of the message has the value k.                           *)
(***************************************************************************)
StoreByte ==
  /\ At(Writer, "store")
  /\ p_buf' = [p_buf EXCEPT ![p_wpos % PIPEBUFSIZ] = p_wpos + 1]
  /\ Goto(Writer, "wpos", loc[Writer])
  /\ UNCHANGED <<maps, p_rpos, p_wpos, received, running>>

AdvanceWpos ==
  /\ At(Writer, "wpos")
  /\ p_wpos' = p_wpos + 1
  /\ Goto(Writer, "write", [loc[Writer] EXCEPT !.i = @ + 1])
  /\ UNCHANGED <<maps, p_rpos, p_buf, received, running>>

-----------------------------------------------------------------------------
(* close, dup, fork and the end of an environment. *)

close(e, i) ==
  /\ At(e, "idle") /\ "close" \in MayCall[e]
  /\ fdpage[<<e, i>>] # "none"
  /\ Goto(e, "unmapfd", [Idle EXCEPT !.op = "close", !.new = i])
  /\ UNCHANGED <<maps, ring, running>>

(* Mutant: the pipe's page is unmapped before the descriptor's. *)
UnmapFd_DataFirst(e) ==
  /\ At(e, "unmapfd")
  /\ datapage' = [datapage EXCEPT ![<<e, loc[e].new>>] = FALSE]
  /\ Goto(e, "unmapdata", loc[e])
  /\ UNCHANGED <<alive, env_parent, fdpage, ring, running>>

UnmapFd(e) ==
  /\ At(e, "unmapfd")
  /\ fdpage' = [fdpage EXCEPT ![<<e, loc[e].new>>] = "none"]
  /\ Goto(e, "unmapdata", loc[e])
  /\ UNCHANGED <<alive, env_parent, datapage, ring, running>>

(***************************************************************************)
(* The second half of devpipe_close, and fd_close's own unmapping of the   *)
(* descriptor, which finds nothing more to do.                             *)
(***************************************************************************)
UnmapData(e) ==
  /\ At(e, "unmapdata")
  /\ datapage' = [datapage EXCEPT ![<<e, loc[e].new>>] = FALSE]
  /\ fdpage' = [fdpage EXCEPT ![<<e, loc[e].new>>] = "none"]
  /\ IF loc[e].op = "dup" THEN Goto(e, "dupdata", loc[e]) ELSE Return(e)
  /\ UNCHANGED <<alive, env_parent, ring, running>>

dup(e, i, j) ==
  /\ At(e, "idle") /\ "dup" \in MayCall[e]
  /\ fdpage[<<e, i>>] # "none"
  /\ Goto(e, IF fdpage[<<e, j>>] # "none" THEN "unmapfd" ELSE "dupdata",
          [Idle EXCEPT !.op = "dup", !.fd = i, !.new = j])
  /\ UNCHANGED <<maps, ring, running>>

DupData(e) ==
  /\ At(e, "dupdata")
  /\ datapage' = [datapage EXCEPT ![<<e, loc[e].new>>] =
                    @ \/ datapage[<<e, loc[e].fd>>]]
  /\ Goto(e, "dupfd", loc[e])
  /\ UNCHANGED <<alive, env_parent, fdpage, ring, running>>

(***************************************************************************)
(* The descriptor page itself.  It is gone when a descriptor was           *)
(* duplicated onto itself: then dup undoes its work and fails.             *)
(***************************************************************************)
DupFd(e) ==
  LET page == fdpage[<<e, loc[e].fd>>]
  IN /\ At(e, "dupfd")
     /\ fdpage' = [fdpage EXCEPT ![<<e, loc[e].new>>] = page]
     /\ IF page # "none" THEN Return(e)
        ELSE Goto(e, "unmapdata", [loc[e] EXCEPT !.op = "close"])
     /\ UNCHANGED <<alive, env_parent, datapage, ring, running>>

(***************************************************************************)
(* fork: sys_copy_shared_pages maps every descriptor and data page in the  *)
(* child within one system call.                                           *)
(***************************************************************************)
fork(e, child) ==
  /\ At(e, "idle") /\ "fork" \in MayCall[e] /\ child \notin alive
  /\ alive' = alive \cup {child}
  /\ env_parent' = [env_parent EXCEPT ![child] = e]
  /\ fdpage' = [x \in Env \X Fds |-> IF x[1] = child THEN fdpage[<<e, x[2]>>]
                                     ELSE fdpage[x]]
  /\ datapage' = [x \in Env \X Fds |-> IF x[1] = child THEN datapage[<<e, x[2]>>]
                                       ELSE datapage[x]]
  /\ UNCHANGED <<ring, running, pc, loc>>

(***************************************************************************)
(* sys_env_destroy of itself or of a child, wherever that one is: env_free *)
(* unmaps everything.                                                      *)
(***************************************************************************)
env_destroy(k, e) ==
  /\ At(k, "idle") /\ "kill" \in MayCall[k]
  /\ e \in alive /\ (e = k \/ env_parent[e] = k)
  /\ alive' = alive \ {e}
  /\ fdpage' = [x \in Env \X Fds |-> IF x[1] = e THEN "none" ELSE fdpage[x]]
  /\ datapage' = [x \in Env \X Fds |-> x[1] # e /\ datapage[x]]
  /\ Return(e)
  /\ running' = IF SMP \/ k # e THEN running ELSE "none"
  /\ UNCHANGED <<env_parent, ring>>

-----------------------------------------------------------------------------
(***************************************************************************)
(* After pipe(): both ends open in the environment that called it.         *)
(***************************************************************************)
Init ==
  /\ alive = {Creator} /\ running = Creator
  /\ env_parent = [e \in Env |-> e]
  /\ fdpage = [x \in Env \X Fds |-> CASE x = <<Creator, 0>> -> "r"
                                      [] x = <<Creator, 1>> -> "w"
                                      [] OTHER -> "none"]
  /\ datapage = [x \in Env \X Fds |-> x \in {<<Creator, 0>>, <<Creator, 1>>}]
  /\ p_rpos = 0 /\ p_wpos = 0 /\ p_buf = [k \in Slots |-> 0]
  /\ pc = [e \in Env |-> "idle"] /\ loc = [e \in Env |-> Idle]
  /\ received = 0

Next ==
  \/ \E i \in Fds, n \in Sizes : read(i, n) \/ write(i, n)
  \/ ReadLoop \/ TakeByte \/ AdvanceRpos
  \/ WriteLoop \/ StoreByte \/ AdvanceWpos
  \/ \E e \in Env :
       \/ env_run(e) \/ SysYield(e)
       \/ ReadRuns(e) \/ PagerefFd(e) \/ PagerefPipe(e) \/ CompareRuns(e)
       \/ \E i \in Fds : close(e, i)
       \/ UnmapFd(e) \/ UnmapData(e)
       \/ \E i, j \in Fds : dup(e, i, j)
       \/ DupData(e) \/ DupFd(e)
       \/ \E f \in Env : fork(e, f) \/ env_destroy(e, f)

Spec == Init /\ [][Next]_vars

-----------------------------------------------------------------------------
(* Properties. *)

Labels == {"idle", "yield", "closed", "fdref", "piperef", "cmp", "read", "take",
           "rpos", "write", "store", "wpos", "unmapfd", "unmapdata", "dupdata",
           "dupfd"}

Locals == [op : {"none", "read", "write", "close", "dup"}, fd : Fds, new : Fds,
           n : Nat, i : Nat, byte : Nat, ref : Nat, ret : BOOLEAN, runs : 0 .. 3]

(* Types; and the ring never holds less than nothing nor more than its     *)
(* size, however read and write interleave (devpipe_read, devpipe_write).  *)
TypeOK ==
  /\ alive \subseteq Env /\ running \in Env \cup {"none"}
  /\ env_parent \in [Env -> Env]
  /\ fdpage \in [Env \X Fds -> {"r", "w", "none"}]
  /\ datapage \in [Env \X Fds -> BOOLEAN]
  /\ p_rpos \in Nat /\ p_wpos \in p_rpos .. p_rpos + PIPEBUFSIZ
  /\ p_buf \in [Slots -> Nat] /\ received \in Nat
  /\ pc \in [Env -> Labels] /\ loc \in [Env -> Locals]

Other(end) == IF end = "r" THEN "w" ELSE "r"

SaysClosed(e) ==
  pc[e] = "cmp" /\ loc[e].ret /\ pc'[e] = "idle" /\ e \in alive'

(* _pipeisclosed says that the other end is closed only when no environment *)
(* has it open, although descriptors are duplicated, inherited, closed and *)
(* lost with their environments while it counts references.                *)
ClosedIsTrue ==
  [][\A e \in Env : SaysClosed(e) =>
       \A x \in Env \X Fds : fdpage[x] # Other(fdpage[<<e, loc[e].fd>>])]_vars

(* When read reports the end of the file, every byte written has been      *)
(* read: the message of testpipe.c arrives whole.                          *)
EofMeansDrained ==
  [][SaysClosed(Reader) /\ loc[Reader].op = "read" => p_rpos = p_wpos]_vars

(***************************************************************************)
(* The ring implements a bounded first-in first-out channel.               *)
(***************************************************************************)
InFlight == [k \in 1 .. p_wpos - p_rpos |-> p_buf[(p_rpos + k - 1) % PIPEBUFSIZ]]

Channel == INSTANCE ByteChannel
  WITH Capacity <- PIPEBUFSIZ, chan <- InFlight, put <- p_wpos, got <- received

(* Bytes come out in the order they went in, each once and unchanged, and  *)
(* never more than PIPEBUFSIZ are under way.                               *)
IsChannel == Channel!Spec
=============================================================================
