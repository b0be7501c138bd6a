----------------------------- MODULE PipeProofs -----------------------------
(***************************************************************************)
(* Proofs about Pipe, for every ring size, every set of environments and   *)
(* every mixture of its calls.  First, that the ring implements            *)
(* ByteChannel: the bytes are delivered in order.  Then, that who is told  *)
(* that the other end is closed is told the truth.                         *)
(***************************************************************************)
EXTENDS Pipe, TLAPS, FiniteSetTheorems

(* A leaf is for Zenon, unless it names the SMT solver. *)
USE ZenonT(60)

(***************************************************************************)
(* The inductive invariant.  A byte under way is at its slot; an           *)
(* environment between its test of the ring and its update still has the   *)
(* room, or the byte, that it saw, because only the other end's progress   *)
(* changed anything since.                                                 *)
(***************************************************************************)
RingInv ==
  /\ \A k \in p_rpos .. p_wpos - 1 : p_buf[k % PIPEBUFSIZ] = k + 1
  /\ pc[Writer] \in {"store", "wpos"} => p_wpos < p_rpos + PIPEBUFSIZ
  /\ pc[Writer] = "wpos" => p_buf[p_wpos % PIPEBUFSIZ] = p_wpos + 1
  /\ pc[Reader] \in {"take", "rpos"} => p_rpos < p_wpos
  /\ pc[Reader] = "rpos" => loc[Reader].byte = p_rpos + 1

Elsewhere == {"idle", "unmapfd", "unmapdata", "dupdata", "dupfd"}

Transfers(e) == pc[e] \notin Elsewhere => loc[e].op \in {"read", "write"}

IInv == TypeOK /\ RingInv /\ \A e \in Env : Transfers(e)

-----------------------------------------------------------------------------
(* Arithmetic of the ring. *)

(* The quotient and remainder that index the ring (p_buf[pos % PIPEBUFSIZ]). *)
LEMMA ModBase ==
  ASSUME NEW S \in Nat \ {0}, NEW a \in Nat
  PROVE  /\ a % S \in 0 .. S - 1
         /\ a \div S \in Int
         /\ a = S * (a \div S) + (a % S)
  BY SMTT(60)

(* Two positions less than PIPEBUFSIZ apart have different slots in p_buf. *)
LEMMA ModInjective ==
  ASSUME NEW S \in Nat \ {0}, NEW a \in Nat, NEW b \in Nat,
         a <= b, b < a + S, a % S = b % S
  PROVE  a = b
<1> DEFINE q == a \div S
           r == b \div S
<1>1. q \in Int /\ a = S * q + (a % S) /\ a % S \in Int
  BY SMTT(60), ModBase
<1>2. r \in Int /\ b = S * r + (b % S) /\ b % S \in Int
  BY SMTT(60), ModBase
<1> HIDE DEF q, r
<1>3. b - a = S * (r - q)
  BY SMTT(60), <1>1, <1>2
<1>4. CASE r - q >= 1
  <2>1. S * (r - q) >= S
    BY SMTT(60), <1>1, <1>2, <1>4
  <2> QED
    BY SMTT(60), <1>3, <2>1
<1>5. CASE r - q <= -1
  <2>1. S * (r - q) <= -S
    BY SMTT(60), <1>1, <1>2, <1>5
  <2> QED
    BY SMTT(60), <1>3, <2>1
<1>6. CASE r = q
  BY SMTT(60), <1>1, <1>3, <1>6
<1> QED
  BY SMTT(60), <1>1, <1>2, <1>4, <1>5, <1>6

(* pageref counts finitely many mappings. *)
LEMMA PagerefType == ASSUME NEW end PROVE pageref(end) \in Nat
<1> DEFINE X == {x \in Env \X Fds :
                   IF end = "pipe" THEN datapage[x] ELSE fdpage[x] = end}
<1>1. IsFiniteSet(X)
  <2>1. X \subseteq Env \X Fds
    OBVIOUS
  <2> QED
    BY <2>1, PipeAssumption, FS_Subset
<1> QED
  BY <1>1, FS_CardinalityType DEF pageref

-----------------------------------------------------------------------------
(* The invariant. *)

(* The state after pipe() satisfies the invariant. *)
LEMMA InitInv == Init => IInv
<1> SUFFICES ASSUME Init PROVE IInv
  OBVIOUS
<1>1. Idle \in Locals
  BY SMTT(60), PipeAssumption DEF Idle, Locals
<1>2. TypeOK
  BY SMTT(60), <1>1, PipeAssumption DEF Init, TypeOK, Slots, Labels
<1>3. RingInv
  BY SMTT(60), PipeAssumption DEF Init, RingInv
<1>4. \A e \in Env : Transfers(e)
  BY DEF Init, Transfers, Elsewhere
<1> QED
  BY <1>2, <1>3, <1>4 DEF IInv

Calm == Labels \ {"take", "rpos", "store", "wpos"}

(* The locals and the label of a call move together, and only its caller's. *)
LEMMA GotoMoves ==
  ASSUME TypeOK, NEW e \in Env, NEW label \in Labels, NEW l \in Locals,
         Goto(e, label, l)
  PROVE  /\ pc' \in [Env -> Labels] /\ loc' \in [Env -> Locals]
         /\ pc'[e] = label /\ loc'[e] = l
         /\ \A f \in Env \ {e} : pc'[f] = pc[f] /\ loc'[f] = loc[f]
  BY DEF TypeOK, Goto

(* A step of a call that leaves the ring alone, and is not the one that    *)
(* decides to store or to take a byte, keeps the invariant of the ring.    *)
LEMMA CalmStep ==
  ASSUME IInv, NEW e \in Env, NEW label \in Calm, NEW l \in Locals,
         label \notin Elsewhere => l.op \in {"read", "write"},
         Goto(e, label, l), UNCHANGED ring
  PROVE  /\ pc' \in [Env -> Labels] /\ loc' \in [Env -> Locals]
         /\ RingInv' /\ \A f \in Env : Transfers(f)'
<1>1. label \in Labels /\ TypeOK
  BY DEF Calm, IInv
<1>2. /\ pc' \in [Env -> Labels] /\ loc' \in [Env -> Locals]
      /\ pc'[e] = label /\ loc'[e] = l
      /\ \A f \in Env \ {e} : pc'[f] = pc[f] /\ loc'[f] = loc[f]
  BY <1>1, GotoMoves
<1>3. RingInv'
  <2>1. /\ p_rpos' = p_rpos /\ p_wpos' = p_wpos /\ p_buf' = p_buf
        /\ label \notin {"take", "rpos", "store", "wpos"}
    BY DEF ring, Calm
  <2> QED
    BY <1>2, <2>1, PipeAssumption DEF IInv, RingInv
<1>4. \A f \in Env : Transfers(f)'
  BY <1>2 DEF IInv, Transfers
<1> QED
  BY <1>2, <1>3, <1>4

(* Assigning a value of its type to one local variable of a call. *)
LEMMA FieldTyped ==
  ASSUME NEW l \in Locals
  PROVE  /\ \A x \in Nat : [l EXCEPT !.ref = x] \in Locals
         /\ \A x \in Nat : [l EXCEPT !.byte = x] \in Locals
         /\ \A x \in Nat : [l EXCEPT !.i = x] \in Locals
         /\ \A x \in Nat : [l EXCEPT !.n = x] \in Locals
         /\ \A x \in Fds : [l EXCEPT !.fd = x] \in Locals
         /\ \A x \in Fds : [l EXCEPT !.new = x] \in Locals
         /\ \A x \in BOOLEAN : [l EXCEPT !.ret = x] \in Locals
         /\ \A x \in 0 .. 3 : [l EXCEPT !.runs = x] \in Locals
         /\ \A x \in {"none", "read", "write", "close", "dup"} :
               [l EXCEPT !.op = x] \in Locals
<1>1. \A x \in Nat : [l EXCEPT !.ref = x] \in Locals
  BY DEF Locals
<1>2. \A x \in Nat : [l EXCEPT !.byte = x] \in Locals
  BY DEF Locals
<1>3. \A x \in Nat : [l EXCEPT !.i = x] \in Locals
  BY DEF Locals
<1>4. \A x \in Nat : [l EXCEPT !.n = x] \in Locals
  BY DEF Locals
<1>5. \A x \in Fds : [l EXCEPT !.fd = x] \in Locals
  BY DEF Locals
<1>6. \A x \in Fds : [l EXCEPT !.new = x] \in Locals
  BY DEF Locals
<1>7. \A x \in BOOLEAN : [l EXCEPT !.ret = x] \in Locals
  BY DEF Locals
<1>8. \A x \in 0 .. 3 : [l EXCEPT !.runs = x] \in Locals
  BY DEF Locals
<1>9. \A x \in {"none", "read", "write", "close", "dup"} :
        [l EXCEPT !.op = x] \in Locals
  BY DEF Locals
<1> QED
  BY <1>1, <1>2, <1>3, <1>4, <1>5, <1>6, <1>7, <1>8, <1>9

(* The values that the calls leave in their locals are of their types. *)
LEMMA LocalsTyped ==
  ASSUME TypeOK, NEW e \in Env
  PROVE  /\ Idle \in Locals /\ loc[e] \in Locals
         /\ \A l \in Locals : Bump(l) \in Locals /\ Bump(l).op = l.op
         /\ \A l \in Locals : Forget(l) \in Locals /\ Forget(l).op = l.op
<1>1. Idle \in Locals
  BY SMTT(60), PipeAssumption DEF Idle, Locals
<1>2. loc[e] \in Locals
  BY DEF TypeOK
<1>3. ASSUME NEW l \in Locals
      PROVE  Bump(l) \in Locals /\ Bump(l).op = l.op
  <2>1. PICK r \in 0 .. 3 : Bump(l) = [l EXCEPT !.runs = r]
    <3>1. l.runs \in 0 .. 3
      BY DEF Locals
    <3>2. CASE l.runs < 3
      BY SMTT(60), <3>1, <3>2 DEF Bump
    <3>3. CASE ~(l.runs < 3)
      BY <3>1, <3>3 DEF Bump
    <3> QED
      BY <3>2, <3>3
  <2>2. Bump(l) \in Locals
    BY <2>1, FieldTyped
  <2> QED
    BY <2>1, <2>2 DEF Locals
<1>4. ASSUME NEW l \in Locals
      PROVE  Forget(l) \in Locals /\ Forget(l).op = l.op
  <2>1. PICK l1 \in Locals : l1 = [l EXCEPT !.ref = 0]
    BY FieldTyped
  <2>2. PICK l2 \in Locals : l2 = [l1 EXCEPT !.ret = FALSE]
    BY FieldTyped
  <2>3. PICK l3 \in Locals : l3 = [l2 EXCEPT !.runs = 0]
    <3>1. 0 \in 0 .. 3
      BY SMTT(60)
    <3> QED
      BY <3>1, FieldTyped
  <2>4. Forget(l) = l3
    BY <2>1, <2>2, <2>3 DEF Forget
  <2> QED
    BY <2>1, <2>2, <2>3, <2>4 DEF Locals
<1> QED
  BY <1>1, <1>2, <1>3, <1>4

MapsTyped ==
  /\ alive \subseteq Env /\ running \in Env \cup {"none"}
  /\ env_parent \in [Env -> Env]
  /\ fdpage \in [Env \X Fds -> {"r", "w", "none"}]
  /\ datapage \in [Env \X Fds -> BOOLEAN]

(* A calm step that keeps the mappings typed keeps the whole invariant. *)
LEMMA CalmKeeps ==
  ASSUME IInv, NEW e \in Env, NEW label \in Calm, NEW l \in Locals,
         label \notin Elsewhere => l.op \in {"read", "write"},
         Goto(e, label, l), UNCHANGED ring, MapsTyped'
  PROVE  IInv'
<1>1. /\ pc' \in [Env -> Labels] /\ loc' \in [Env -> Locals]
      /\ RingInv' /\ \A f \in Env : Transfers(f)'
  BY CalmStep
<1>2. /\ p_rpos' = p_rpos /\ p_wpos' = p_wpos /\ p_buf' = p_buf
      /\ received' = received
  BY DEF ring
<1>3. TypeOK'
  BY <1>1, <1>2 DEF IInv, TypeOK, MapsTyped
<1> QED
  BY <1>1, <1>3 DEF IInv

(* Mappings that do not change stay typed. *)
LEMMA MapsKept ==
  ASSUME IInv, UNCHANGED maps, running' \in Env \cup {"none"}
  PROVE  MapsTyped'
  BY DEF IInv, TypeOK, MapsTyped, maps

(* The start of read and write (devpipe_read, devpipe_write). *)
LEMMA TransferStep ==
  ASSUME IInv, NEW i \in Fds, NEW n \in Sizes, read(i, n) \/ write(i, n)
  PROVE  IInv'
<1>1. PICK e \in Env, op \in {"read", "write"} :
        /\ Goto(e, op, [Idle EXCEPT !.op = op, !.fd = i, !.n = n])
        /\ UNCHANGED <<maps, ring, running>>
  BY PipeAssumption DEF read, write, Transfer
<1>2. [Idle EXCEPT !.op = op, !.fd = i, !.n = n] \in Locals
  <2>1. PICK l1 \in Locals : l1 = [Idle EXCEPT !.op = op]
    BY FieldTyped, LocalsTyped DEF IInv
  <2>2. PICK l2 \in Locals : l2 = [l1 EXCEPT !.fd = i]
    BY FieldTyped
  <2>3. PICK l3 \in Locals : l3 = [l2 EXCEPT !.n = n]
    BY FieldTyped, PipeAssumption
  <2> QED
    BY <2>1, <2>2, <2>3
<1>3. op \in Calm
  BY DEF Calm, Labels
<1>4. MapsTyped'
  BY <1>1, MapsKept DEF IInv, TypeOK
<1>5. [Idle EXCEPT !.op = op, !.fd = i, !.n = n].op = op
  BY DEF Idle
<1> QED
  BY <1>1, <1>2, <1>3, <1>4, <1>5, CalmKeeps

(* The steps of _pipeisclosed, and the yield after it. *)
LEMMA ClosedStep ==
  ASSUME IInv, NEW e \in Env,
         \/ SysYield(e) \/ ReadRuns(e) \/ PagerefFd(e) \/ PagerefPipe(e)
         \/ CompareRuns(e)
  PROVE  IInv'
<1>0. TypeOK /\ loc[e] \in Locals /\ Idle \in Locals
  BY LocalsTyped DEF IInv
<1>1. CASE SysYield(e)
  <2>1. MapsTyped'
    BY <1>1, MapsKept DEF SysYield, IInv, TypeOK
  <2>2. loc[e].op \in {"read", "write"}
    BY <1>1 DEF SysYield, At, IInv, Transfers, Elsewhere
  <2>3. loc[e].op \in Calm
    BY <2>2 DEF Calm, Labels
  <2> QED
    BY <1>0, <1>1, <2>1, <2>2, <2>3, CalmKeeps DEF SysYield
<1> SUFFICES ASSUME ReadRuns(e) \/ PagerefFd(e) \/ PagerefPipe(e)
                    \/ CompareRuns(e)
             PROVE  IInv'
  BY <1>1
<1>2. MapsTyped'
  BY MapsKept DEF ReadRuns, PagerefFd, PagerefPipe, CompareRuns, IInv, TypeOK
<1>3. loc[e].op \in {"read", "write"}
  BY DEF ReadRuns, PagerefFd, PagerefPipe, CompareRuns, At, IInv, Transfers,
         Elsewhere
<1>4. {"fdref", "piperef", "cmp", "closed", "yield", "idle"} \subseteq Calm
  BY DEF Calm, Labels
<1>5. CASE ReadRuns(e)
  <2>1. PICK l \in Locals : l = [loc[e] EXCEPT !.runs = 0]
    <3>1. 0 \in 0 .. 3
      BY SMTT(60)
    <3> QED
      BY <1>0, <3>1, FieldTyped
  <2>2. l.op = loc[e].op
    BY <1>0, <2>1 DEF Locals
  <2> QED
    BY <1>2, <1>3, <1>4, <1>5, <2>1, <2>2, CalmKeeps DEF ReadRuns
<1>6. CASE PagerefFd(e)
  <2>1. pageref(fdpage[<<e, loc[e].fd>>]) \in Nat
    BY PagerefType
  <2>2. PICK l \in Locals :
          l = [loc[e] EXCEPT !.ref = pageref(fdpage[<<e, loc[e].fd>>])]
    BY <1>0, <2>1, FieldTyped
  <2>3. l.op = loc[e].op
    BY <1>0, <2>2 DEF Locals
  <2>4. Bump(l) \in Locals /\ Bump(l).op = l.op
    BY <1>0, LocalsTyped
  <2> QED
    BY <1>2, <1>3, <1>4, <1>6, <2>2, <2>3, <2>4, CalmKeeps DEF PagerefFd
<1>7. CASE PagerefPipe(e)
  <2>1. PICK l \in Locals :
          l = [loc[e] EXCEPT !.ret = (loc[e].ref = pageref("pipe"))]
    BY <1>0, FieldTyped
  <2>2. l.op = loc[e].op
    BY <1>0, <2>1 DEF Locals
  <2>3. Bump(l) \in Locals /\ Bump(l).op = l.op
    BY <1>0, LocalsTyped
  <2> QED
    BY <1>2, <1>3, <1>4, <1>7, <2>1, <2>2, <2>3, CalmKeeps DEF PagerefPipe
<1>8. CASE CompareRuns(e)
  <2>1. Forget(loc[e]) \in Locals /\ Forget(loc[e]).op = loc[e].op
    BY <1>0, LocalsTyped
  <2>2. \/ Goto(e, "closed", Forget(loc[e]))
        \/ Goto(e, "idle", Idle)
        \/ Goto(e, "yield", Forget(loc[e]))
    BY <1>8 DEF CompareRuns, Return
  <2>3. UNCHANGED ring
    BY <1>8 DEF CompareRuns
  <2>4. "idle" \in Elsewhere
    BY DEF Elsewhere
  <2> QED
    BY <1>0, <1>2, <1>3, <1>4, <2>1, <2>2, <2>3, <2>4, CalmKeeps
<1> QED
  BY <1>5, <1>6, <1>7, <1>8

(* close, dup and the unmapping and mapping of one descriptor. *)
LEMMA DescriptorStep ==
  ASSUME IInv, NEW e \in Env,
         \/ \E i \in Fds : close(e, i)
         \/ UnmapFd(e) \/ UnmapData(e)
         \/ \E i, j \in Fds : dup(e, i, j)
         \/ DupData(e) \/ DupFd(e)
  PROVE  IInv'
<1>0. TypeOK /\ loc[e] \in Locals /\ Idle \in Locals
  BY LocalsTyped DEF IInv
<1>1. /\ {"unmapfd", "unmapdata", "dupdata", "dupfd", "idle"} \subseteq Calm
      /\ {"unmapfd", "unmapdata", "dupdata", "dupfd", "idle"} \subseteq Elsewhere
  BY DEF Calm, Labels, Elsewhere
<1>2. loc[e].new \in Fds /\ loc[e].fd \in Fds
  BY <1>0 DEF Locals
<1>3. ASSUME NEW i \in Fds, close(e, i)
      PROVE  IInv'
  <2>1. PICK l1 \in Locals : l1 = [Idle EXCEPT !.op = "close"]
    BY <1>0, FieldTyped
  <2>2. PICK l2 \in Locals : l2 = [l1 EXCEPT !.new = i]
    BY FieldTyped
  <2>3. MapsTyped'
    BY <1>0, <1>3, MapsKept DEF close, TypeOK
  <2>4. Goto(e, "unmapfd", l2) /\ UNCHANGED ring
    BY <1>3, <2>1, <2>2 DEF close
  <2> QED
    BY <1>1, <2>3, <2>4, CalmKeeps
<1>4. ASSUME NEW i \in Fds, NEW j \in Fds, dup(e, i, j)
      PROVE  IInv'
  <2>1. PICK l1 \in Locals : l1 = [Idle EXCEPT !.op = "dup"]
    BY <1>0, FieldTyped
  <2>2. PICK l2 \in Locals : l2 = [l1 EXCEPT !.fd = i]
    BY FieldTyped
  <2>3. PICK l3 \in Locals : l3 = [l2 EXCEPT !.new = j]
    BY FieldTyped
  <2>4. MapsTyped'
    BY <1>0, <1>4, MapsKept DEF dup, TypeOK
  <2>5. /\ Goto(e, "unmapfd", l3) \/ Goto(e, "dupdata", l3)
        /\ UNCHANGED ring
    BY <1>4, <2>1, <2>2, <2>3 DEF dup
  <2> QED
    BY <1>1, <2>4, <2>5, CalmKeeps
<1>5. CASE UnmapFd(e)
  <2>1. MapsTyped'
    BY <1>0, <1>5 DEF UnmapFd, TypeOK, MapsTyped
  <2> QED
    BY <1>0, <1>1, <1>5, <2>1, CalmKeeps DEF UnmapFd
<1>6. CASE UnmapData(e)
  <2>1. MapsTyped'
    BY <1>0, <1>6 DEF UnmapData, TypeOK, MapsTyped
  <2>2. /\ Goto(e, "dupdata", loc[e]) \/ Goto(e, "idle", Idle)
        /\ UNCHANGED ring
    BY <1>6 DEF UnmapData, Return
  <2> QED
    BY <1>0, <1>1, <2>1, <2>2, CalmKeeps
<1>7. CASE DupData(e)
  <2>1. datapage' \in [Env \X Fds -> BOOLEAN]
    BY <1>0, <1>7 DEF DupData, TypeOK
  <2>2. MapsTyped'
    BY <1>0, <1>7, <2>1 DEF DupData, TypeOK, MapsTyped
  <2> QED
    BY <1>0, <1>1, <1>7, <2>2, CalmKeeps DEF DupData
<1>8. CASE DupFd(e)
  <2>1. fdpage[<<e, loc[e].fd>>] \in {"r", "w", "none"}
    BY <1>0, <1>2 DEF TypeOK
  <2>2. MapsTyped'
    BY <1>0, <1>8, <2>1 DEF DupFd, TypeOK, MapsTyped
  <2>3. PICK l \in Locals : l = [loc[e] EXCEPT !.op = "close"]
    BY <1>0, FieldTyped
  <2>4. /\ Goto(e, "idle", Idle) \/ Goto(e, "unmapdata", l)
        /\ UNCHANGED ring
    BY <1>8, <2>3 DEF DupFd, Return
  <2> QED
    BY <1>0, <1>1, <2>2, <2>4, CalmKeeps
<1> QED
  BY <1>3, <1>4, <1>5, <1>6, <1>7, <1>8

(* Running, forking and ending an environment. *)
LEMMA EnvStep ==
  ASSUME IInv, NEW e \in Env,
         env_run(e) \/ (\E f \in Env : fork(e, f) \/ env_destroy(e, f))
  PROVE  IInv'
<1>0. TypeOK /\ Idle \in Locals /\ "idle" \in Calm /\ "idle" \in Elsewhere
  BY LocalsTyped DEF IInv, Calm, Labels, Elsewhere
<1>1. CASE env_run(e)
  <2>1. Bump(loc[e]) \in Locals /\ Bump(loc[e]).op = loc[e].op
        /\ Bump(loc[e]).byte = loc[e].byte
    <3>1. loc[e] \in Locals
      BY <1>0 DEF TypeOK
    <3>2. Bump(loc[e]).byte = loc[e].byte
      BY <3>1 DEF Bump, Locals
    <3> QED
      BY <1>0, <3>1, <3>2, LocalsTyped
  <2>2. /\ loc' \in [Env -> Locals]
        /\ \A f \in Env : /\ loc'[f].op = loc[f].op
                           /\ loc'[f].byte = loc[f].byte
    BY <1>0, <1>1, <2>1 DEF env_run, TypeOK
  <2>3. /\ p_rpos' = p_rpos /\ p_wpos' = p_wpos /\ p_buf' = p_buf
        /\ received' = received /\ pc' = pc
    BY <1>1 DEF env_run, ring
  <2>4. MapsTyped'
    BY <1>0, <1>1, MapsKept DEF env_run, TypeOK
  <2>5. TypeOK'
    BY <1>0, <2>2, <2>3, <2>4 DEF TypeOK, MapsTyped
  <2>6. RingInv'
    BY <2>2, <2>3, PipeAssumption DEF IInv, RingInv
  <2>7. \A f \in Env : Transfers(f)'
    BY <2>2, <2>3 DEF IInv, Transfers
  <2> QED
    BY <2>5, <2>6, <2>7 DEF IInv
<1>2. ASSUME NEW f \in Env, fork(e, f)
      PROVE  IInv'
  <2>1. MapsTyped'
    BY <1>0, <1>2 DEF fork, TypeOK, MapsTyped
  <2>2. UNCHANGED <<ring, pc, loc>>
    BY <1>2 DEF fork
  <2>3. TypeOK' /\ RingInv' /\ \A g \in Env : Transfers(g)'
    BY <1>0, <2>1, <2>2 DEF IInv, TypeOK, MapsTyped, RingInv, Transfers, ring
  <2> QED
    BY <2>3 DEF IInv
<1>3. ASSUME NEW f \in Env, env_destroy(e, f)
      PROVE  IInv'
  <2>1. MapsTyped'
    BY <1>0, <1>3 DEF env_destroy, TypeOK, MapsTyped
  <2> QED
    BY <1>0, <1>3, <2>1, CalmKeeps DEF env_destroy, Return
<1> QED
  BY <1>1, <1>2, <1>3

(* What a step of a call leaves to be shown when it moves the ring. *)
LEMMA RingKeeps ==
  ASSUME IInv, NEW e \in Env, NEW label \in Labels, NEW l \in Locals,
         Goto(e, label, l), l.op = loc[e].op, pc[e] \notin Elsewhere,
         UNCHANGED <<maps, running>>, RingInv',
         p_rpos' \in Nat, p_wpos' \in p_rpos' .. p_rpos' + PIPEBUFSIZ,
         p_buf' \in [Slots -> Nat], received' \in Nat
  PROVE  IInv'
<1>0. TypeOK
  BY DEF IInv
<1>1. /\ pc' \in [Env -> Labels] /\ loc' \in [Env -> Locals]
      /\ pc'[e] = label /\ loc'[e] = l
      /\ \A f \in Env \ {e} : pc'[f] = pc[f] /\ loc'[f] = loc[f]
  BY <1>0, GotoMoves
<1>2. MapsTyped'
  BY <1>0, MapsKept DEF TypeOK
<1>3. TypeOK'
  BY <1>1, <1>2 DEF TypeOK, MapsTyped
<1>4. \A f \in Env : Transfers(f)'
  BY <1>1 DEF IInv, Transfers
<1> QED
  BY <1>3, <1>4 DEF IInv

(* devpipe_read: it takes the byte at the read position, which stays there *)
(* until the position has moved.                                           *)
LEMMA ReadStep ==
  ASSUME IInv, ReadLoop \/ TakeByte \/ AdvanceRpos
  PROVE  IInv'
<1> DEFINE l == loc[Reader]
<1>0. TypeOK /\ RingInv /\ Reader \in Env /\ Writer \in Env
      /\ PIPEBUFSIZ \in Nat \ {0}
  BY PipeAssumption DEF IInv
<1>1. l \in Locals /\ Idle \in Locals
  BY <1>0, LocalsTyped
<1>2. pc[Reader] \notin Elsewhere /\ l.op \in {"read", "write"}
  BY <1>0 DEF ReadLoop, TakeByte, AdvanceRpos, At, Elsewhere, IInv, Transfers
<1>3. {"idle", "closed", "read"} \subseteq Calm /\ "idle" \in Elsewhere
      /\ {"take", "rpos", "read"} \subseteq Labels
  BY DEF Calm, Labels, Elsewhere
<1>t. /\ p_rpos \in Nat /\ p_wpos \in Nat /\ p_rpos <= p_wpos
      /\ p_wpos <= p_rpos + PIPEBUFSIZ
      /\ p_buf \in [Slots -> Nat] /\ received \in Nat
      /\ p_wpos \in p_rpos .. p_rpos + PIPEBUFSIZ
  BY SMTT(60), <1>0 DEF TypeOK
<1>4. CASE ReadLoop
  <2>1. UNCHANGED <<maps, ring, running>> /\ pc[Reader] = "read"
    BY <1>4 DEF ReadLoop, At
  <2>2. CASE Goto(Reader, "idle", Idle) \/ Goto(Reader, "closed", l)
    <3>1. MapsTyped'
      BY <1>0, <2>1, MapsKept DEF TypeOK
    <3> QED
      BY <1>0, <1>1, <1>2, <1>3, <2>1, <2>2, <3>1, CalmKeeps
  <2>3. CASE Goto(Reader, "take", l) /\ p_rpos # p_wpos
    <3>1. /\ pc'[Reader] = "take"
          /\ \A f \in Env \ {Reader} : pc'[f] = pc[f] /\ loc'[f] = loc[f]
      BY <1>0, <1>1, <1>3, <2>3, GotoMoves
    <3>2. RingInv'
      BY SMTT(60), <1>0, <1>t, <2>1, <2>3, <3>1 DEF RingInv, ring
    <3>3. /\ p_rpos' = p_rpos /\ p_wpos' = p_wpos /\ p_buf' = p_buf
          /\ received' = received
      BY <2>1 DEF ring
    <3> QED
      BY <1>0, <1>1, <1>2, <1>3, <1>t, <2>1, <2>3, <3>2, <3>3, RingKeeps
  <2> QED
    BY <1>4, <2>2, <2>3 DEF ReadLoop, Return
<1>5. CASE TakeByte
  <2>1. UNCHANGED <<maps, ring, running>> /\ pc[Reader] = "take"
    BY <1>5 DEF TakeByte, At
  <2>2. p_buf[p_rpos % PIPEBUFSIZ] = p_rpos + 1
    BY SMTT(60), <1>0, <1>t, <2>1 DEF RingInv
  <2>3. PICK m \in Locals : m = [l EXCEPT !.byte = p_rpos + 1]
    <3>1. p_rpos + 1 \in Nat
      BY SMTT(60), <1>t
    <3> QED
      BY <1>1, <3>1, FieldTyped
  <2>4. m.op = l.op /\ m.byte = p_rpos + 1
    BY <1>1, <2>3 DEF Locals
  <2>5. Goto(Reader, "rpos", m)
    BY <1>5, <2>2, <2>3 DEF TakeByte
  <2>6. /\ pc'[Reader] = "rpos" /\ loc'[Reader] = m
        /\ \A f \in Env \ {Reader} : pc'[f] = pc[f] /\ loc'[f] = loc[f]
    BY <1>0, <1>3, <2>5, GotoMoves
  <2>7. /\ p_rpos' = p_rpos /\ p_wpos' = p_wpos /\ p_buf' = p_buf
        /\ received' = received
    BY <2>1 DEF ring
  <2>8. RingInv'
    BY <1>0, <1>t, <2>1, <2>4, <2>6, <2>7 DEF RingInv
  <2> QED
    BY <1>0, <1>2, <1>3, <1>t, <2>1, <2>4, <2>5, <2>7, <2>8, RingKeeps
<1>6. CASE AdvanceRpos
  <2>1. /\ UNCHANGED <<maps, p_wpos, p_buf, running>> /\ pc[Reader] = "rpos"
        /\ p_rpos' = p_rpos + 1 /\ received' = l.byte
    BY <1>6 DEF AdvanceRpos, At
  <2>2. p_rpos < p_wpos /\ l.byte \in Nat /\ l.i \in Nat
    BY <1>0, <1>1, <2>1 DEF RingInv, Locals
  <2>3. PICK m1 \in Locals : m1 = [l EXCEPT !.i = l.i + 1]
    <3>1. l.i + 1 \in Nat
      BY SMTT(60), <2>2
    <3> QED
      BY <1>1, <3>1, FieldTyped
  <2>4. PICK m \in Locals : m = [m1 EXCEPT !.byte = 0]
    BY FieldTyped
  <2>5. m.op = l.op
    BY <1>1, <2>3, <2>4 DEF Locals
  <2>6. Goto(Reader, "read", m)
    BY <1>6, <2>3, <2>4 DEF AdvanceRpos
  <2>7. /\ pc'[Reader] = "read"
        /\ \A f \in Env \ {Reader} : pc'[f] = pc[f] /\ loc'[f] = loc[f]
    BY <1>0, <1>3, <2>6, GotoMoves
  <2>8. RingInv'
    <3>1. \A k \in p_rpos' .. p_wpos' - 1 : p_buf'[k % PIPEBUFSIZ] = k + 1
      <4>1. p_rpos' .. p_wpos' - 1 \subseteq p_rpos .. p_wpos - 1
        BY SMTT(60), <1>t, <2>1
      <4>2. p_buf' = p_buf
        BY <2>1
      <4> QED
        BY <1>0, <4>1, <4>2 DEF RingInv
    <3>2. pc'[Writer] \in {"store", "wpos"} => p_wpos' < p_rpos' + PIPEBUFSIZ
      BY SMTT(60), <1>0, <1>t, <2>1, <2>7 DEF RingInv
    <3>3. pc'[Writer] = "wpos" => p_buf'[p_wpos' % PIPEBUFSIZ] = p_wpos' + 1
      BY <1>0, <2>1, <2>7 DEF RingInv
    <3> QED
      BY <2>7, <3>1, <3>2, <3>3 DEF RingInv
  <2>9. /\ p_rpos' \in Nat /\ p_wpos' \in p_rpos' .. p_rpos' + PIPEBUFSIZ
        /\ p_buf' \in [Slots -> Nat] /\ received' \in Nat
    BY SMTT(60), <1>0, <1>t, <2>1, <2>2
  <2> QED
    BY <1>0, <1>2, <1>3, <2>1, <2>5, <2>6, <2>8, <2>9, RingKeeps
<1> QED
  BY <1>4, <1>5, <1>6

(* devpipe_write: it stores beyond the bytes under way, because the ring   *)
(* has room when it looks and only gets emptier until it advances.         *)
LEMMA WriteStep ==
  ASSUME IInv, WriteLoop \/ StoreByte \/ AdvanceWpos
  PROVE  IInv'
<1> DEFINE l == loc[Writer]
<1>0. TypeOK /\ RingInv /\ Reader \in Env /\ Writer \in Env
      /\ PIPEBUFSIZ \in Nat \ {0}
  BY PipeAssumption DEF IInv
<1>1. l \in Locals /\ Idle \in Locals
  BY <1>0, LocalsTyped
<1>2. pc[Writer] \notin Elsewhere /\ l.op \in {"read", "write"}
  BY <1>0 DEF WriteLoop, StoreByte, AdvanceWpos, At, Elsewhere, IInv, Transfers
<1>3. {"idle", "closed"} \subseteq Calm /\ "idle" \in Elsewhere
      /\ {"store", "wpos", "write"} \subseteq Labels
  BY DEF Calm, Labels, Elsewhere
<1>t. /\ p_rpos \in Nat /\ p_wpos \in Nat /\ p_rpos <= p_wpos
      /\ p_wpos <= p_rpos + PIPEBUFSIZ
      /\ p_buf \in [Slots -> Nat] /\ received \in Nat
      /\ p_wpos \in p_rpos .. p_rpos + PIPEBUFSIZ
  BY SMTT(60), <1>0 DEF TypeOK
<1>4. CASE WriteLoop
  <2>1. UNCHANGED <<maps, ring, running>> /\ pc[Writer] = "write"
    BY <1>4 DEF WriteLoop, At
  <2>2. CASE Goto(Writer, "idle", Idle) \/ Goto(Writer, "closed", l)
    <3>1. MapsTyped'
      BY <1>0, <2>1, MapsKept DEF TypeOK
    <3> QED
      BY <1>0, <1>1, <1>2, <1>3, <2>1, <2>2, <3>1, CalmKeeps
  <2>3. CASE Goto(Writer, "store", l) /\ ~(p_wpos >= p_rpos + PIPEBUFSIZ)
    <3>1. /\ pc'[Writer] = "store"
          /\ \A f \in Env \ {Writer} : pc'[f] = pc[f] /\ loc'[f] = loc[f]
      BY <1>0, <1>1, <1>3, <2>3, GotoMoves
    <3>2. /\ p_rpos' = p_rpos /\ p_wpos' = p_wpos /\ p_buf' = p_buf
          /\ received' = received
      BY <2>1 DEF ring
    <3>3. RingInv'
      BY SMTT(60), <1>0, <1>t, <2>1, <2>3, <3>1, <3>2 DEF RingInv
    <3> QED
      BY <1>0, <1>1, <1>2, <1>3, <1>t, <2>1, <2>3, <3>2, <3>3, RingKeeps
  <2> QED
    BY <1>4, <2>2, <2>3 DEF WriteLoop, Return
<1>5. CASE StoreByte
  <2>1. /\ UNCHANGED <<maps, p_rpos, p_wpos, received, running>>
        /\ pc[Writer] = "store" /\ Goto(Writer, "wpos", l)
        /\ p_buf' = [p_buf EXCEPT ![p_wpos % PIPEBUFSIZ] = p_wpos + 1]
    BY <1>5 DEF StoreByte, At
  <2>2. p_wpos < p_rpos + PIPEBUFSIZ
    BY <1>0, <2>1 DEF RingInv
  <2>3. p_wpos % PIPEBUFSIZ \in Slots
    BY <1>0, <1>t, ModBase DEF Slots
  <2>4. /\ p_buf' \in [Slots -> Nat]
        /\ p_buf'[p_wpos % PIPEBUFSIZ] = p_wpos + 1
    BY SMTT(60), <1>t, <2>1, <2>3
  <2>5. ASSUME NEW k \in p_rpos .. p_wpos - 1
        PROVE  p_buf'[k % PIPEBUFSIZ] = k + 1
    <3>1. k \in Nat /\ k <= p_wpos /\ p_wpos < k + PIPEBUFSIZ /\ k # p_wpos
      BY SMTT(60), <1>0, <1>t, <2>2
    <3>2. k % PIPEBUFSIZ # p_wpos % PIPEBUFSIZ
      BY <1>0, <1>t, <3>1, ModInjective
    <3>3. k % PIPEBUFSIZ \in Slots
      BY <1>0, <3>1, ModBase DEF Slots
    <3>4. p_buf[k % PIPEBUFSIZ] = k + 1
      BY <1>0 DEF RingInv
    <3> QED
      BY <1>t, <2>1, <3>2, <3>3, <3>4
  <2>6. /\ pc'[Writer] = "wpos" /\ loc'[Writer] = l
        /\ \A f \in Env \ {Writer} : pc'[f] = pc[f] /\ loc'[f] = loc[f]
    BY <1>0, <1>1, <1>3, <2>1, GotoMoves
  <2>7. RingInv'
    BY <1>0, <1>t, <2>1, <2>2, <2>4, <2>5, <2>6 DEF RingInv
  <2> QED
    BY <1>0, <1>1, <1>2, <1>3, <1>t, <2>1, <2>4, <2>7, RingKeeps
<1>6. CASE AdvanceWpos
  <2>1. /\ UNCHANGED <<maps, p_rpos, p_buf, received, running>>
        /\ pc[Writer] = "wpos" /\ p_wpos' = p_wpos + 1
    BY <1>6 DEF AdvanceWpos, At
  <2>2. p_wpos < p_rpos + PIPEBUFSIZ
    BY <1>0, <2>1 DEF RingInv
  <2>3. PICK m \in Locals : m = [l EXCEPT !.i = l.i + 1]
    <3>1. l.i + 1 \in Nat
      BY SMTT(60), <1>1 DEF Locals
    <3> QED
      BY <1>1, <3>1, FieldTyped
  <2>4. m.op = l.op
    BY <1>1, <2>3 DEF Locals
  <2>5. Goto(Writer, "write", m)
    BY <1>6, <2>3 DEF AdvanceWpos
  <2>6. /\ pc'[Writer] = "write"
        /\ \A f \in Env \ {Writer} : pc'[f] = pc[f] /\ loc'[f] = loc[f]
    BY <1>0, <1>3, <2>5, GotoMoves
  <2>7. RingInv'
    <3>1. ASSUME NEW k \in p_rpos' .. p_wpos' - 1
          PROVE  p_buf'[k % PIPEBUFSIZ] = k + 1
      <4>1. k \in p_rpos .. p_wpos - 1 \/ k = p_wpos
        BY SMTT(60), <1>t, <2>1
      <4> QED
        BY <1>0, <2>1, <4>1 DEF RingInv
    <3>2. pc'[Reader] \in {"take", "rpos"} => p_rpos' < p_wpos'
      BY SMTT(60), <1>0, <1>t, <2>1, <2>6 DEF RingInv
    <3>3. pc'[Reader] = "rpos" => loc'[Reader].byte = p_rpos' + 1
      BY <1>0, <2>1, <2>6 DEF RingInv
    <3> QED
      BY <2>6, <3>1, <3>2, <3>3 DEF RingInv
  <2>8. /\ p_rpos' \in Nat /\ p_wpos' \in p_rpos' .. p_rpos' + PIPEBUFSIZ
        /\ p_buf' \in [Slots -> Nat] /\ received' \in Nat
    BY SMTT(60), <1>0, <1>t, <2>1, <2>2
  <2> QED
    BY <1>0, <1>2, <1>3, <2>1, <2>4, <2>5, <2>7, <2>8, RingKeeps
<1> QED
  BY <1>4, <1>5, <1>6

(* Every step keeps the invariant. *)
LEMMA NextInv == IInv /\ [Next]_vars => IInv'
<1> SUFFICES ASSUME IInv, [Next]_vars PROVE IInv'
  OBVIOUS
<1>1. CASE UNCHANGED vars
  BY <1>1 DEF IInv, TypeOK, RingInv, Transfers, vars, maps, ring
<1>2. CASE Next
  BY <1>2, TransferStep, ReadStep, WriteStep, EnvStep, ClosedStep, DescriptorStep
     DEF Next
<1> QED
  BY <1>1, <1>2

(* The invariant holds in every reachable state of the pipe. *)
THEOREM InvariantHolds == Spec => []IInv
  BY InitInv, NextInv, PTL DEF Spec

(* The types, and the bounds of the ring: p_rpos <= p_wpos <= p_rpos +     *)
(* PIPEBUFSIZ in every state, whatever the interleaving of devpipe_read    *)
(* and devpipe_write.                                                      *)
THEOREM RingBounded == Spec => []TypeOK
  BY InvariantHolds, PTL DEF IInv

-----------------------------------------------------------------------------
(* The refinement: the bytes under way are those from p_rpos to p_wpos. *)

Run(r, w) == [k \in 1 .. w - r |-> r + k]

(* What the operators on sequences do to the numbered bytes under way. *)
LEMMA RunAsSequence ==
  ASSUME NEW r \in Nat, NEW w \in Nat, r <= w
  PROVE  /\ Run(r, w) \in Seq(Nat) /\ Len(Run(r, w)) = w - r
         /\ Run(r, w + 1) = Append(Run(r, w), w + 1)
         /\ r < w => /\ Run(r, w) # << >>
                     /\ Head(Run(r, w)) = r + 1
                     /\ Tail(Run(r, w)) = Run(r + 1, w)
<1>1. Run(r, w) \in Seq(Nat) /\ Len(Run(r, w)) = w - r
  BY SMTT(60) DEF Run
<1>2. Run(r, w + 1) = Append(Run(r, w), w + 1)
  BY SMTT(60) DEF Run
<1>3. r < w => Run(r, w) # << >> /\ Head(Run(r, w)) = r + 1
  BY SMTT(60), <1>1 DEF Run
<1>4. r < w => Tail(Run(r, w)) = Run(r + 1, w)
  BY SMTT(60) DEF Run
<1> QED
  BY <1>1, <1>2, <1>3, <1>4

(* The contents of the ring in terms of the two positions. *)
LEMMA InFlightRun == IInv => InFlight = Run(p_rpos, p_wpos)
<1> SUFFICES ASSUME IInv PROVE InFlight = Run(p_rpos, p_wpos)
  OBVIOUS
<1>1. p_rpos \in Nat /\ p_wpos \in Nat
  BY SMTT(60), PipeAssumption DEF IInv, TypeOK
<1>2. ASSUME NEW k \in 1 .. p_wpos - p_rpos
      PROVE  p_buf[(p_rpos + k - 1) % PIPEBUFSIZ] = p_rpos + k
  <2>1. p_rpos + k - 1 \in p_rpos .. p_wpos - 1
    BY SMTT(60), <1>1
  <2>2. p_buf[(p_rpos + k - 1) % PIPEBUFSIZ] = (p_rpos + k - 1) + 1
    BY <2>1 DEF IInv, RingInv
  <2> QED
    BY SMTT(60), <1>1, <2>2
<1> QED
  BY <1>1, <1>2 DEF InFlight, Run

(* Every step of the pipe is a step of the channel or changes nothing of   *)
(* it: devpipe_write puts a byte when it advances p_wpos, devpipe_read     *)
(* gets one when it advances p_rpos.                                       *)
LEMMA StepRefines ==
  ASSUME IInv, IInv', [Next]_vars
  PROVE  [Channel!Put \/ Channel!Get]_<<InFlight, p_wpos, received>>
<1>0. /\ p_rpos \in Nat /\ p_wpos \in Nat /\ p_rpos <= p_wpos
      /\ PIPEBUFSIZ \in Nat
  BY SMTT(60), PipeAssumption DEF IInv, TypeOK
<1>1. InFlight = Run(p_rpos, p_wpos) /\ InFlight' = Run(p_rpos', p_wpos')
  <2>1. InFlight = Run(p_rpos, p_wpos)
    BY InFlightRun
  <2>2. (InFlight = Run(p_rpos, p_wpos))'
    BY InFlightRun, PTL
  <2>3. InFlight' = Run(p_rpos', p_wpos')
    BY <2>2 DEF Run
  <2> QED
    BY <2>1, <2>3
<1>2. CASE AdvanceRpos
  <2>1. /\ p_rpos' = p_rpos + 1 /\ p_wpos' = p_wpos
        /\ received' = loc[Reader].byte /\ pc[Reader] = "rpos"
    BY <1>2 DEF AdvanceRpos, At
  <2>2. p_rpos < p_wpos /\ received' = p_rpos + 1
    BY <2>1 DEF IInv, RingInv
  <2>3. Channel!Get
    BY <1>0, <1>1, <2>1, <2>2, RunAsSequence DEF Channel!Get
  <2> QED
    BY <2>3
<1>3. CASE AdvanceWpos
  <2>1. /\ p_rpos' = p_rpos /\ p_wpos' = p_wpos + 1
        /\ received' = received /\ pc[Writer] = "wpos"
    BY <1>3 DEF AdvanceWpos, At
  <2>2. p_wpos < p_rpos + PIPEBUFSIZ
    BY <2>1 DEF IInv, RingInv
  <2>3. Len(Run(p_rpos, p_wpos)) < PIPEBUFSIZ
    <3>1. Len(Run(p_rpos, p_wpos)) = p_wpos - p_rpos
      BY <1>0, RunAsSequence
    <3> QED
      BY SMTT(60), <1>0, <2>2, <3>1
  <2>4. Channel!Put
    BY <1>0, <1>1, <2>1, <2>3, RunAsSequence DEF Channel!Put
  <2> QED
    BY <2>4
<1>4. CASE p_rpos' = p_rpos /\ p_wpos' = p_wpos /\ received' = received
  BY <1>1, <1>4
<1>5. CASE UNCHANGED vars
  BY <1>4, <1>5 DEF vars, ring
<1>6. CASE Next
  <2>1. CASE \E i \in Fds, n \in Sizes : read(i, n) \/ write(i, n)
    BY <1>4, <2>1 DEF read, write, Transfer, ring
  <2>2. CASE ReadLoop \/ TakeByte \/ WriteLoop \/ StoreByte
    BY <1>4, <2>2 DEF ReadLoop, TakeByte, WriteLoop, StoreByte, ring
  <2>3. ASSUME NEW e \in Env,
               \/ env_run(e) \/ SysYield(e)
               \/ ReadRuns(e) \/ PagerefFd(e) \/ PagerefPipe(e) \/ CompareRuns(e)
        PROVE  p_rpos' = p_rpos /\ p_wpos' = p_wpos /\ received' = received
    BY <2>3 DEF env_run, SysYield, ReadRuns, PagerefFd, PagerefPipe,
                CompareRuns, ring
  <2>4. ASSUME NEW e \in Env,
               \/ \E i \in Fds : close(e, i)
               \/ UnmapFd(e) \/ UnmapData(e)
               \/ \E i, j \in Fds : dup(e, i, j)
               \/ DupData(e) \/ DupFd(e)
        PROVE  p_rpos' = p_rpos /\ p_wpos' = p_wpos /\ received' = received
    BY <2>4 DEF close, UnmapFd, UnmapData, dup, DupData, DupFd, ring
  <2>5. ASSUME NEW e \in Env, \E f \in Env : fork(e, f) \/ env_destroy(e, f)
        PROVE  p_rpos' = p_rpos /\ p_wpos' = p_wpos /\ received' = received
    BY <2>5 DEF fork, env_destroy, ring
  <2> QED
    BY <1>2, <1>3, <1>4, <1>6, <2>1, <2>2, <2>3, <2>4, <2>5 DEF Next
<1> QED
  BY <1>5, <1>6

(* The pipe implements the bounded channel for every PIPEBUFSIZ and every  *)
(* set of environments: bytes come out in the order they went in, each     *)
(* once and unchanged.                                                     *)
THEOREM PipeIsChannel == Spec => IsChannel
<1>1. Init => Channel!Init
  <2> SUFFICES ASSUME Init PROVE Channel!Init
    OBVIOUS
  <2>1. p_rpos = 0 /\ p_wpos = 0 /\ received = 0
    BY DEF Init
  <2>2. 1 .. p_wpos - p_rpos = {}
    BY SMTT(60), <2>1
  <2>3. InFlight = << >>
    BY SMTT(60), <2>2 DEF InFlight
  <2> QED
    BY <2>1, <2>3 DEF Channel!Init
<1>2. IInv /\ IInv' /\ [Next]_vars =>
        [Channel!Put \/ Channel!Get]_<<InFlight, p_wpos, received>>
  BY StepRefines
<1> QED
  BY <1>1, <1>2, InvariantHolds, PTL DEF Spec, IsChannel, Channel!Spec

-----------------------------------------------------------------------------
(***************************************************************************)
(* Why _pipeisclosed is right on one CPU.  A descriptor page is never      *)
(* mapped without the pipe's page beside it, so the pipe's page has at     *)
(* least as many references as both ends together; and a check that ends   *)
(* with env_runs two above its start was never preempted, so that its two  *)
(* counts are of one moment.                                               *)
(***************************************************************************)

Backed == \A x \in Env \X Fds : fdpage[x] # "none" => datapage[x]

Holds(e) == pc[e] \notin Elsewhere => fdpage[<<e, loc[e].fd>>] \in {"r", "w"}

Copies(e) ==
  pc[e] = "dupfd" /\ fdpage[<<e, loc[e].fd>>] # "none" =>
    datapage[<<e, loc[e].new>>]

Counted(e) ==
  /\ pc[e] = "piperef" =>
       /\ loc[e].runs >= 1
       /\ running = e /\ loc[e].runs = 1 =>
            loc[e].ref = pageref(fdpage[<<e, loc[e].fd>>])
  /\ pc[e] = "cmp" =>
       /\ loc[e].runs >= 2
       /\ running = e /\ loc[e].runs = 2 /\ loc[e].ret =>
            pageref(fdpage[<<e, loc[e].fd>>]) = pageref("pipe")

Sound(e) ==
  /\ e \notin alive => pc[e] = "idle"
  /\ Holds(e) /\ Copies(e) /\ Counted(e)

CInv == IInv /\ Backed /\ \A e \in Env : Sound(e)

(* After pipe() nothing is half done. *)
LEMMA InitSound == Init => CInv
<1> SUFFICES ASSUME Init PROVE CInv
  OBVIOUS
<1>1. Backed
  BY DEF Init, Backed
<1>2. \A e \in Env : pc[e] = "idle"
  BY DEF Init
<1>3. \A e \in Env : Sound(e)
  BY <1>2 DEF Sound, Holds, Copies, Counted, Elsewhere
<1> QED
  BY <1>1, <1>3, InitInv DEF CInv

(* While one environment takes a step of its own, what the others know     *)
(* stays true: they own their descriptors, and none of them is running.    *)
LEMMA OthersSound ==
  ASSUME CInv, NEW e \in Env, running = e, running' \in {e, "none"},
         alive' = alive,
         \A f \in Env \ {e} : pc'[f] = pc[f] /\ loc'[f] = loc[f],
         \A f \in Env \ {e}, i \in Fds :
            /\ fdpage'[<<f, i>>] = fdpage[<<f, i>>]
            /\ datapage'[<<f, i>>] = datapage[<<f, i>>]
  PROVE  \A f \in Env \ {e} : Sound(f)'
<1> SUFFICES ASSUME NEW f \in Env \ {e}
             PROVE  Sound(f)'
  OBVIOUS
<1>1. Sound(f) /\ loc[f] \in Locals /\ running' # f
  BY PipeAssumption, LocalsTyped DEF CInv, IInv
<1>2. loc[f].fd \in Fds /\ loc[f].new \in Fds
  BY <1>1 DEF Locals
<1>3. Holds(f)'
  BY <1>1, <1>2 DEF Sound, Holds
<1>4. Copies(f)'
  BY <1>1, <1>2 DEF Sound, Copies
<1>5. Counted(f)'
  BY <1>1 DEF Sound, Counted
<1> QED
  BY <1>1, <1>3, <1>4, <1>5 DEF Sound

(* A step that ends outside read and write leaves nothing to remember. *)
LEMMA SettleStep ==
  ASSUME CInv, NEW e \in Env, e \in alive, running = e,
         running' \in {e, "none"}, alive' = alive,
         NEW label \in Elsewhere \ {"dupfd"}, NEW l \in Locals, Goto(e, label, l),
         \A f \in Env \ {e}, i \in Fds :
            /\ fdpage'[<<f, i>>] = fdpage[<<f, i>>]
            /\ datapage'[<<f, i>>] = datapage[<<f, i>>]
  PROVE  \A f \in Env : Sound(f)'
<1>1. label \in Labels
  BY DEF Elsewhere, Labels
<1>2. /\ pc'[e] = label
      /\ \A f \in Env \ {e} : pc'[f] = pc[f] /\ loc'[f] = loc[f]
  BY <1>1, GotoMoves DEF CInv, IInv
<1>3. \A f \in Env \ {e} : Sound(f)'
  BY <1>2, OthersSound
<1>4. Sound(e)'
  BY <1>2 DEF Sound, Holds, Copies, Counted, Elsewhere
<1> QED
  BY <1>3, <1>4

Plain == Labels \ {"dupfd", "piperef", "cmp"}

(* A step of read or write keeps its descriptor. *)
LEMMA HoldStep ==
  ASSUME CInv, NEW e \in Env, e \in alive, running = e,
         running' \in {e, "none"}, UNCHANGED maps,
         NEW label \in Plain, NEW l \in Locals,
         Goto(e, label, l), fdpage[<<e, l.fd>>] \in {"r", "w"}
  PROVE  \A f \in Env : Sound(f)'
<1>0. alive' = alive /\ fdpage' = fdpage /\ datapage' = datapage
  BY DEF maps
<1>1. /\ pc'[e] = label /\ loc'[e] = l
      /\ \A f \in Env \ {e} : pc'[f] = pc[f] /\ loc'[f] = loc[f]
  BY GotoMoves DEF CInv, IInv, Plain
<1>2. \A f \in Env \ {e} : Sound(f)'
  BY <1>0, <1>1, OthersSound
<1>3. Sound(e)'
  BY <1>0, <1>1 DEF Sound, Holds, Copies, Counted, Plain
<1> QED
  BY <1>2, <1>3

(* The pages keep each other company when none is mapped or unmapped. *)
LEMMA BackedKept == ASSUME CInv, UNCHANGED maps PROVE Backed'
  BY DEF CInv, Backed, maps

(* The steps of devpipe_read and devpipe_write. *)
LEMMA TransferSound ==
  ASSUME CInv, ~SMP,
         \/ \E i \in Fds, n \in Sizes : read(i, n) \/ write(i, n)
         \/ ReadLoop \/ TakeByte \/ AdvanceRpos
         \/ WriteLoop \/ StoreByte \/ AdvanceWpos
  PROVE  Backed' /\ \A f \in Env : Sound(f)'
<1>0. Reader \in Env /\ Writer \in Env /\ TypeOK /\ RingInv /\ Idle \in Locals
  BY PipeAssumption, LocalsTyped DEF CInv, IInv
<1>1. UNCHANGED <<maps, running>>
  BY DEF read, write, Transfer, ReadLoop, TakeByte, AdvanceRpos, WriteLoop,
         StoreByte, AdvanceWpos
<1>2. Backed'
  BY <1>1, BackedKept
<1>3. ASSUME NEW i \in Fds, NEW n \in Sizes, read(i, n) \/ write(i, n)
      PROVE  \A f \in Env : Sound(f)'
  <2>1. PICK e \in Env, op \in {"read", "write"} :
          /\ Goto(e, op, [Idle EXCEPT !.op = op, !.fd = i, !.n = n])
          /\ Runs(e) /\ fdpage[<<e, i>>] \in {"r", "w"}
    BY <1>0, <1>3 DEF read, write, Transfer, At
  <2>2. PICK l1 \in Locals : l1 = [Idle EXCEPT !.op = op]
    BY <1>0, FieldTyped
  <2>3. PICK l2 \in Locals : l2 = [l1 EXCEPT !.fd = i]
    BY FieldTyped
  <2>4. PICK l \in Locals : l = [l2 EXCEPT !.n = n]
    BY FieldTyped, PipeAssumption
  <2>5. l.fd = i
    BY <2>3, <2>4 DEF Locals
  <2>6. Goto(e, op, l) /\ op \in Plain
    BY <2>1, <2>2, <2>3, <2>4 DEF Plain, Labels
  <2> QED
    BY <1>1, <2>1, <2>5, <2>6, HoldStep DEF Runs
<1>4. ASSUME NEW e \in Env, Runs(e), pc[e] \notin Elsewhere,
             NEW label \in Plain,
             NEW l \in Locals, Goto(e, label, l), l.fd = loc[e].fd
      PROVE  \A f \in Env : Sound(f)'
  <2>1. fdpage[<<e, l.fd>>] \in {"r", "w"}
    BY <1>4 DEF CInv, Sound, Holds
  <2> QED
    BY <1>1, <1>4, <2>1, HoldStep DEF Runs
<1>5. ASSUME NEW e \in Env, Runs(e), Goto(e, "idle", Idle)
      PROVE  \A f \in Env : Sound(f)'
  <2>1. alive' = alive /\ fdpage' = fdpage /\ datapage' = datapage
    BY <1>1 DEF maps
  <2>2. "idle" \in Elsewhere \ {"dupfd"}
    BY DEF Elsewhere
  <2> QED
    BY <1>0, <1>1, <1>5, <2>1, <2>2, SettleStep DEF Runs
<1>6. {"closed", "take", "rpos", "read", "store", "wpos", "write"}
        \subseteq Plain
  BY DEF Plain, Labels
<1>7. loc[Reader] \in Locals /\ loc[Writer] \in Locals
  BY <1>0, LocalsTyped
<1>8. CASE ReadLoop
  <2>1. Runs(Reader) /\ pc[Reader] \notin Elsewhere
    BY <1>8 DEF ReadLoop, At, Elsewhere
  <2>2. \/ Goto(Reader, "idle", Idle)
        \/ \E label \in {"closed", "take", "store"} :
             Goto(Reader, label, loc[Reader])
    BY <1>8 DEF ReadLoop, Return
  <2> QED
    BY <1>0, <1>2, <1>4, <1>5, <1>6, <1>7, <2>1, <2>2
<1>9. CASE WriteLoop
  <2>1. Runs(Writer) /\ pc[Writer] \notin Elsewhere
    BY <1>9 DEF WriteLoop, At, Elsewhere
  <2>2. \/ Goto(Writer, "idle", Idle)
        \/ \E label \in {"closed", "take", "store"} :
             Goto(Writer, label, loc[Writer])
    BY <1>9 DEF WriteLoop, Return
  <2> QED
    BY <1>0, <1>2, <1>4, <1>5, <1>6, <1>7, <2>1, <2>2
<1>10. CASE TakeByte
  <2>1. p_buf[p_rpos % PIPEBUFSIZ] \in Nat
    <3>1. p_rpos % PIPEBUFSIZ \in Slots
      BY <1>0, PipeAssumption, ModBase DEF TypeOK, Slots
    <3> QED
      BY <1>0, <3>1 DEF TypeOK
  <2>2. PICK l \in Locals :
          l = [loc[Reader] EXCEPT !.byte = p_buf[p_rpos % PIPEBUFSIZ]]
    BY <1>7, <2>1, FieldTyped
  <2>3. l.fd = loc[Reader].fd
    BY <1>7, <2>2 DEF Locals
  <2>4. Runs(Reader) /\ pc[Reader] \notin Elsewhere
    BY <1>10 DEF TakeByte, At, Elsewhere
  <2>5. Goto(Reader, "rpos", l)
    BY <1>10, <2>2 DEF TakeByte
  <2> QED
    BY <1>0, <1>2, <1>4, <1>6, <2>3, <2>4, <2>5
<1>11. CASE AdvanceRpos
  <2>1. loc[Reader].i + 1 \in Nat
    BY SMTT(60), <1>7 DEF Locals
  <2>2. PICK l1 \in Locals : l1 = [loc[Reader] EXCEPT !.i = loc[Reader].i + 1]
    BY <1>7, <2>1, FieldTyped
  <2>3. PICK l \in Locals : l = [l1 EXCEPT !.byte = 0]
    BY FieldTyped
  <2>4. l.fd = loc[Reader].fd
    BY <1>7, <2>2, <2>3 DEF Locals
  <2>5. Goto(Reader, "read", l)
    BY <1>11, <2>2, <2>3 DEF AdvanceRpos
  <2>6. Runs(Reader) /\ pc[Reader] \notin Elsewhere
    BY <1>11 DEF AdvanceRpos, At, Elsewhere
  <2> QED
    BY <1>0, <1>2, <1>4, <1>6, <2>4, <2>5, <2>6
<1>12. CASE StoreByte
  <2>1. /\ Runs(Writer) /\ pc[Writer] \notin Elsewhere
        /\ Goto(Writer, "wpos", loc[Writer])
    BY <1>12 DEF StoreByte, At, Elsewhere
  <2> QED
    BY <1>0, <1>2, <1>4, <1>6, <1>7, <2>1
<1>13. CASE AdvanceWpos
  <2>1. loc[Writer].i + 1 \in Nat
    BY SMTT(60), <1>7 DEF Locals
  <2>2. PICK l \in Locals : l = [loc[Writer] EXCEPT !.i = loc[Writer].i + 1]
    BY <1>7, <2>1, FieldTyped
  <2>3. l.fd = loc[Writer].fd
    BY <1>7, <2>2 DEF Locals
  <2>4. Goto(Writer, "write", l)
    BY <1>13, <2>2 DEF AdvanceWpos
  <2>5. Runs(Writer) /\ pc[Writer] \notin Elsewhere
    BY <1>13 DEF AdvanceWpos, At, Elsewhere
  <2> QED
    BY <1>0, <1>2, <1>4, <1>6, <2>3, <2>4, <2>5
<1> QED
  BY <1>2, <1>3, <1>8, <1>9, <1>10, <1>11, <1>12, <1>13

(* The steps of _pipeisclosed: the two counts it compares are of the same  *)
(* moment when env_runs has gone up by two.                                *)
LEMMA ClosedSound ==
  ASSUME CInv, ~SMP, NEW e \in Env,
         \/ SysYield(e) \/ ReadRuns(e) \/ PagerefFd(e) \/ PagerefPipe(e)
         \/ CompareRuns(e)
  PROVE  Backed' /\ \A f \in Env : Sound(f)'
<1>0. TypeOK /\ loc[e] \in Locals /\ Idle \in Locals
  BY LocalsTyped DEF CInv, IInv
<1>1. /\ e \in alive /\ running = e /\ running' \in {e, "none"}
      /\ UNCHANGED maps /\ pc[e] \notin Elsewhere
  BY DEF SysYield, ReadRuns, PagerefFd, PagerefPipe, CompareRuns, At, Runs,
         Elsewhere
<1>2. Backed'
  BY <1>1, BackedKept
<1>3. loc[e].op \in {"read", "write"} /\ fdpage[<<e, loc[e].fd>>] \in {"r", "w"}
  BY <1>1 DEF CInv, IInv, Transfers, Sound, Holds
<1>4. alive' = alive /\ fdpage' = fdpage /\ datapage' = datapage
  BY <1>1 DEF maps
<1>5. \A end : pageref(end)' = pageref(end)
  BY <1>4 DEF pageref
<1>6. {"read", "write", "fdref", "closed", "yield"} \subseteq Plain
  BY DEF Plain, Labels
<1>7. CASE SysYield(e)
  <2>1. loc[e].op \in Plain /\ Goto(e, loc[e].op, loc[e])
    BY <1>3, <1>6, <1>7 DEF SysYield
  <2> QED
    BY <1>0, <1>1, <1>2, <1>3, <2>1, HoldStep
<1>8. CASE ReadRuns(e)
  <2>1. PICK l \in Locals : l = [loc[e] EXCEPT !.runs = 0]
    <3>1. 0 \in 0 .. 3
      BY SMTT(60)
    <3> QED
      BY <1>0, <3>1, FieldTyped
  <2>2. l.fd = loc[e].fd
    BY <1>0, <2>1 DEF Locals
  <2>3. Goto(e, "fdref", l)
    BY <1>8, <2>1 DEF ReadRuns
  <2> QED
    BY <1>1, <1>2, <1>3, <1>6, <2>2, <2>3, HoldStep
<1>9. CASE CompareRuns(e)
  <2>1. Forget(loc[e]) \in Locals
    BY <1>0, LocalsTyped
  <2>2. Forget(loc[e]).fd = loc[e].fd
    BY <1>0 DEF Forget, Locals
  <2>3. CASE Goto(e, "idle", Idle)
    <3>1. "idle" \in Elsewhere \ {"dupfd"}
      BY DEF Elsewhere
    <3> QED
      BY <1>0, <1>1, <1>2, <1>4, <2>3, <3>1, SettleStep
  <2>4. CASE Goto(e, "closed", Forget(loc[e])) \/ Goto(e, "yield", Forget(loc[e]))
    BY <1>1, <1>2, <1>3, <1>6, <2>1, <2>2, <2>4, HoldStep
  <2> QED
    BY <1>9, <2>3, <2>4 DEF CompareRuns, Return
<1>10. CASE PagerefFd(e)
  <2> DEFINE n == pageref(fdpage[<<e, loc[e].fd>>])
  <2>1. n \in Nat
    BY PagerefType
  <2>2. PICK l1 \in Locals : l1 = [loc[e] EXCEPT !.ref = n]
    BY <1>0, <2>1, FieldTyped
  <2>3. PICK l \in Locals : l = Bump(l1)
    BY <1>0, LocalsTyped
  <2>4. l.fd = loc[e].fd /\ l.ref = n /\ l.runs >= 1
    <3>1. l1.fd = loc[e].fd /\ l1.ref = n /\ l1.runs \in 0 .. 3
      BY <1>0, <2>2 DEF Locals
    <3>2. l.fd = l1.fd /\ l.ref = l1.ref
      BY <2>3 DEF Bump, Locals
    <3>3. l.runs = IF l1.runs < 3 THEN l1.runs + 1 ELSE l1.runs
      BY <2>3 DEF Bump, Locals
    <3> QED
      BY SMTT(60), <3>1, <3>2, <3>3
  <2>5. Goto(e, "piperef", l) /\ "piperef" \in Labels
    BY <1>10, <2>2, <2>3 DEF PagerefFd, Labels
  <2>6. /\ pc'[e] = "piperef" /\ loc'[e] = l
        /\ \A f \in Env \ {e} : pc'[f] = pc[f] /\ loc'[f] = loc[f]
    BY <1>0, <2>5, GotoMoves
  <2>7. \A f \in Env \ {e} : Sound(f)'
    BY <1>1, <1>4, <2>6, OthersSound
  <2>8. Holds(e)' /\ Copies(e)'
    BY <1>3, <1>4, <2>4, <2>6 DEF Holds, Copies
  <2>9. Counted(e)'
    <3>1. pageref(fdpage[<<e, loc[e].fd>>])' = n
      BY <1>4, <2>4, <2>6 DEF pageref
    <3> QED
      BY <2>4, <2>6, <3>1 DEF Counted
  <2> QED
    BY <1>1, <1>2, <1>4, <2>7, <2>8, <2>9 DEF Sound
<1>11. CASE PagerefPipe(e)
  <2> DEFINE b == loc[e].ref = pageref("pipe")
  <2>1. PICK l1 \in Locals : l1 = [loc[e] EXCEPT !.ret = b]
    BY <1>0, FieldTyped
  <2>2. PICK l \in Locals : l = Bump(l1)
    BY <1>0, LocalsTyped
  <2>3. l.fd = loc[e].fd /\ (l.ret <=> b) /\ l.runs >= 2
        /\ (l.runs = 2 => loc[e].runs = 1)
    <3>1. l1.fd = loc[e].fd /\ l1.runs = loc[e].runs /\ l1.runs \in 0 .. 3
      BY <1>0, <2>1 DEF Locals
    <3>2. l1.ret <=> b
      BY <1>0, <2>1 DEF Locals
    <3>3. l.fd = l1.fd /\ l.ret = l1.ret
      BY <2>2 DEF Bump, Locals
    <3>4. l.runs = IF l1.runs < 3 THEN l1.runs + 1 ELSE l1.runs
      BY <2>2 DEF Bump, Locals
    <3>5. loc[e].runs >= 1
      BY <1>11 DEF PagerefPipe, At, CInv, Sound, Counted
    <3>6. l.runs >= 2 /\ (l.runs = 2 => loc[e].runs = 1)
      BY SMTT(60), <3>1, <3>4, <3>5
    <3> QED
      BY <3>1, <3>2, <3>3, <3>6
  <2>4. Goto(e, "cmp", l) /\ "cmp" \in Labels /\ running' = running
        /\ pc[e] = "piperef"
    BY <1>11, <2>1, <2>2 DEF PagerefPipe, Labels, At
  <2>5. /\ pc'[e] = "cmp" /\ loc'[e] = l
        /\ \A f \in Env \ {e} : pc'[f] = pc[f] /\ loc'[f] = loc[f]
    BY <1>0, <2>4, GotoMoves
  <2>6. \A f \in Env \ {e} : Sound(f)'
    BY <1>1, <1>4, <2>5, OthersSound
  <2>7. Holds(e)' /\ Copies(e)'
    BY <1>3, <1>4, <2>3, <2>5 DEF Holds, Copies
  <2>8. Counted(e)'
    <3>1. /\ pageref(fdpage[<<e, loc[e].fd>>])' = pageref(fdpage[<<e, loc[e].fd>>])
          /\ pageref("pipe")' = pageref("pipe")
      BY <1>4, <2>3, <2>5 DEF pageref
    <3>2. loc[e].runs = 1 => loc[e].ref = pageref(fdpage[<<e, loc[e].fd>>])
      BY <1>1, <2>4 DEF CInv, Sound, Counted
    <3> QED
      BY <2>3, <2>5, <3>1, <3>2 DEF Counted
  <2> QED
    BY <1>1, <1>2, <1>4, <2>6, <2>7, <2>8 DEF Sound
<1> QED
  BY <1>7, <1>8, <1>9, <1>10, <1>11

(* close and dup unmap the descriptor before the pipe's page and map it    *)
(* after, so that it is never without.                                     *)
LEMMA DescriptorSound ==
  ASSUME CInv, ~SMP, NEW e \in Env,
         \/ \E i \in Fds : close(e, i)
         \/ UnmapFd(e) \/ UnmapData(e)
         \/ \E i, j \in Fds : dup(e, i, j)
         \/ DupData(e) \/ DupFd(e)
  PROVE  Backed' /\ \A f \in Env : Sound(f)'
<1> DEFINE fd == <<e, loc[e].fd>>
           new == <<e, loc[e].new>>
<1>0. /\ TypeOK /\ loc[e] \in Locals /\ Idle \in Locals
      /\ loc[e].fd \in Fds /\ loc[e].new \in Fds
  BY LocalsTyped DEF CInv, IInv, Locals
<1>1. e \in alive /\ running = e /\ running' = e /\ alive' = alive
  BY DEF close, UnmapFd, UnmapData, dup, DupData, DupFd, At, Runs, maps
<1>2. \A f \in Env \ {e}, i \in Fds :
        /\ fdpage'[<<f, i>>] = fdpage[<<f, i>>]
        /\ datapage'[<<f, i>>] = datapage[<<f, i>>]
  BY <1>0 DEF close, UnmapFd, UnmapData, dup, DupData, DupFd, maps, TypeOK
<1>3. {"unmapfd", "unmapdata", "dupdata", "idle"} \subseteq Elsewhere \ {"dupfd"}
  BY DEF Elsewhere
<1>4. ASSUME NEW label \in {"unmapfd", "unmapdata", "dupdata", "idle"},
             NEW l \in Locals, Goto(e, label, l)
      PROVE  \A f \in Env : Sound(f)'
  BY <1>1, <1>2, <1>3, <1>4, SettleStep
<1>5. ASSUME NEW i \in Fds, close(e, i)
      PROVE  Backed' /\ \A f \in Env : Sound(f)'
  <2>1. PICK l1 \in Locals : l1 = [Idle EXCEPT !.op = "close"]
    BY <1>0, FieldTyped
  <2>2. PICK l2 \in Locals : l2 = [l1 EXCEPT !.new = i]
    BY FieldTyped
  <2>3. Goto(e, "unmapfd", l2) /\ UNCHANGED maps
    BY <1>5, <2>1, <2>2 DEF close
  <2> QED
    BY <1>4, <2>3, BackedKept
<1>6. ASSUME NEW i \in Fds, NEW j \in Fds, dup(e, i, j)
      PROVE  Backed' /\ \A f \in Env : Sound(f)'
  <2>1. PICK l1 \in Locals : l1 = [Idle EXCEPT !.op = "dup"]
    BY <1>0, FieldTyped
  <2>2. PICK l2 \in Locals : l2 = [l1 EXCEPT !.fd = i]
    BY FieldTyped
  <2>3. PICK l3 \in Locals : l3 = [l2 EXCEPT !.new = j]
    BY FieldTyped
  <2>4. /\ Goto(e, "unmapfd", l3) \/ Goto(e, "dupdata", l3)
        /\ UNCHANGED maps
    BY <1>6, <2>1, <2>2, <2>3 DEF dup
  <2> QED
    BY <1>4, <2>4, BackedKept
<1>7. CASE UnmapFd(e)
  <2>1. Backed'
    BY <1>0, <1>7 DEF UnmapFd, CInv, Backed, TypeOK
  <2> QED
    BY <1>0, <1>4, <1>7, <2>1 DEF UnmapFd
<1>8. CASE UnmapData(e)
  <2>1. Backed'
    BY <1>0, <1>8 DEF UnmapData, CInv, Backed, TypeOK
  <2>2. Goto(e, "dupdata", loc[e]) \/ Goto(e, "idle", Idle)
    BY <1>8 DEF UnmapData, Return
  <2> QED
    BY <1>0, <1>4, <2>1, <2>2
<1>9. CASE DupData(e)
  <2>1. /\ Goto(e, "dupfd", loc[e]) /\ "dupfd" \in Labels /\ fdpage' = fdpage
        /\ datapage' = [datapage EXCEPT ![new] = datapage[new] \/ datapage[fd]]
    BY <1>9 DEF DupData, Labels
  <2>2. /\ new \in Env \X Fds /\ fd \in Env \X Fds
        /\ datapage \in [Env \X Fds -> BOOLEAN]
    BY <1>0 DEF TypeOK
  <2>3. /\ datapage'[new] <=> (datapage[new] \/ datapage[fd])
        /\ \A x \in Env \X Fds : datapage[x] => datapage'[x]
    BY <2>1, <2>2
  <2>4. Backed'
    BY <2>1, <2>3 DEF CInv, Backed
  <2>5. /\ pc'[e] = "dupfd" /\ loc'[e] = loc[e]
        /\ \A f \in Env \ {e} : pc'[f] = pc[f] /\ loc'[f] = loc[f]
    BY <1>0, <2>1, GotoMoves
  <2>6. \A f \in Env \ {e} : Sound(f)'
    BY <1>1, <1>2, <2>5, OthersSound
  <2>7. Copies(e)'
    BY <2>1, <2>2, <2>3, <2>5 DEF Copies, CInv, Backed
  <2>8. Sound(e)'
    BY <1>1, <2>5, <2>7 DEF Sound, Holds, Counted, Elsewhere
  <2> QED
    BY <2>4, <2>6, <2>8
<1>10. CASE DupFd(e)
  <2>1. PICK l \in Locals : l = [loc[e] EXCEPT !.op = "close"]
    BY <1>0, FieldTyped
  <2>2. /\ Goto(e, "idle", Idle) \/ Goto(e, "unmapdata", l)
        /\ fdpage' = [fdpage EXCEPT ![new] = fdpage[fd]] /\ datapage' = datapage
        /\ pc[e] = "dupfd"
    BY <1>10, <2>1 DEF DupFd, Return, At
  <2>3. fdpage[fd] # "none" => datapage[new]
    BY <2>2 DEF CInv, Sound, Copies
  <2>4. Backed'
    BY <1>0, <2>2, <2>3 DEF CInv, Backed, TypeOK
  <2> QED
    BY <1>0, <1>4, <2>2, <2>4
<1> QED
  BY <1>5, <1>6, <1>7, <1>8, <1>9, <1>10

(* Running another environment, fork and the end of an environment.  The   *)
(* one that is resumed in the middle of _pipeisclosed sees its env_runs go *)
(* up once more than it accounts for.                                      *)
LEMMA EnvSound ==
  ASSUME CInv, ~SMP, NEW e \in Env,
         env_run(e) \/ (\E f \in Env : fork(e, f) \/ env_destroy(e, f))
  PROVE  Backed' /\ \A g \in Env : Sound(g)'
<1>0. TypeOK /\ Idle \in Locals /\ \A g \in Env : loc[g] \in Locals
  BY LocalsTyped DEF CInv, IInv
<1>1. CASE env_run(e)
  <2>1. /\ e \in alive /\ running' = e /\ UNCHANGED <<maps, pc>>
        /\ loc' = [loc EXCEPT ![e] = IF Counting(e) THEN Bump(loc[e]) ELSE loc[e]]
    BY <1>1 DEF env_run
  <2>2. alive' = alive /\ fdpage' = fdpage /\ datapage' = datapage /\ pc' = pc
    BY <2>1 DEF maps
  <2>3. Backed'
    BY <2>1, BackedKept
  <2>4. ASSUME NEW g \in Env \ {e} PROVE Sound(g)'
    <3>1. loc'[g] = loc[g] /\ running' # g /\ Sound(g)
      BY <1>0, <2>1 DEF TypeOK, CInv
    <3> QED
      BY <2>2, <3>1 DEF Sound, Holds, Copies, Counted
  <2>5. Sound(e)'
    <3>1. Sound(e) /\ loc[e] \in Locals /\ loc[e].runs \in 0 .. 3
      BY <1>0 DEF CInv, Locals
    <3>2. CASE ~Counting(e)
      <4>1. loc'[e] = loc[e] /\ pc[e] \notin {"piperef", "cmp"}
        BY <1>0, <2>1, <3>2 DEF TypeOK, Counting
      <4> QED
        BY <2>2, <3>1, <4>1 DEF Sound, Holds, Copies, Counted
    <3>3. CASE Counting(e)
      <4>1. loc'[e] = Bump(loc[e])
        BY <1>0, <2>1, <3>3 DEF TypeOK
      <4>2. /\ Bump(loc[e]).fd = loc[e].fd /\ Bump(loc[e]).new = loc[e].new
            /\ Bump(loc[e]).runs = IF loc[e].runs < 3 THEN loc[e].runs + 1
                                   ELSE loc[e].runs
        BY <3>1 DEF Bump, Locals
      <4>3. Holds(e)' /\ Copies(e)'
        BY <2>2, <3>1, <4>1, <4>2 DEF Sound, Holds, Copies
      <4>4. pc[e] = "piperef" => loc'[e].runs >= 2
        BY SMTT(60), <3>1, <4>1, <4>2 DEF Sound, Counted
      <4>5. pc[e] = "cmp" => loc'[e].runs >= 3
        BY SMTT(60), <3>1, <4>1, <4>2 DEF Sound, Counted
      <4>6. loc'[e].runs \in Int
        BY SMTT(60), <3>1, <4>1, <4>2
      <4>7. Counted(e)'
        BY SMTT(60), <2>2, <4>4, <4>5, <4>6 DEF Counted
      <4> QED
        BY <2>1, <2>2, <4>3, <4>7 DEF Sound
    <3> QED
      BY <3>2, <3>3
  <2> QED
    BY <2>3, <2>4, <2>5
<1>2. ASSUME NEW f \in Env, fork(e, f)
      PROVE  Backed' /\ \A g \in Env : Sound(g)'
  <2>1. /\ e \in alive /\ running = e /\ pc[e] = "idle" /\ f \notin alive
        /\ pc' = pc /\ loc' = loc /\ running' = running
        /\ alive' = alive \cup {f}
    BY <1>2 DEF fork, At, Runs
  <2>2. \A g \in Env, i \in Fds :
          /\ fdpage'[<<g, i>>] = IF g = f THEN fdpage[<<e, i>>] ELSE fdpage[<<g, i>>]
          /\ datapage'[<<g, i>>] = IF g = f THEN datapage[<<e, i>>]
                                   ELSE datapage[<<g, i>>]
    BY <1>2 DEF fork
  <2>3. Backed'
    <3>1. ASSUME NEW g \in Env, NEW i \in Fds, fdpage'[<<g, i>>] # "none"
          PROVE  datapage'[<<g, i>>]
      <4>1. CASE g = f
        <5>1. fdpage[<<e, i>>] # "none"
          BY <2>2, <3>1, <4>1
        <5>2. datapage[<<e, i>>]
          BY <5>1 DEF CInv, Backed
        <5> QED
          BY <2>2, <4>1, <5>2
      <4>2. CASE g # f
        <5>1. fdpage[<<g, i>>] # "none"
          BY <2>2, <3>1, <4>2
        <5>2. datapage[<<g, i>>]
          BY <5>1 DEF CInv, Backed
        <5> QED
          BY <2>2, <4>2, <5>2
      <4> QED
        BY <4>1, <4>2
    <3> QED
      BY SMTT(60), <3>1 DEF Backed
  <2>4. ASSUME NEW g \in Env, pc[g] = "idle" PROVE Sound(g)'
    BY <2>1, <2>4 DEF Sound, Holds, Copies, Counted, Elsewhere
  <2>5. ASSUME NEW g \in Env, pc[g] # "idle" PROVE Sound(g)'
    <3>1. /\ g # f /\ g # e /\ running' # g /\ Sound(g) /\ g \in alive
          /\ loc[g].fd \in Fds /\ loc[g].new \in Fds
      BY <1>0, <2>1, <2>5 DEF CInv, Sound, Locals
    <3>2. Holds(g)' /\ Copies(g)'
      BY <2>1, <2>2, <3>1 DEF Sound, Holds, Copies
    <3>3. Counted(g)'
      BY <2>1, <3>1 DEF Sound, Counted
    <3> QED
      BY <2>1, <3>1, <3>2, <3>3 DEF Sound
  <2> QED
    BY <2>3, <2>4, <2>5
<1>3. ASSUME NEW f \in Env, env_destroy(e, f)
      PROVE  Backed' /\ \A g \in Env : Sound(g)'
  <2>1. /\ e \in alive /\ running = e /\ pc[e] = "idle"
        /\ alive' = alive \ {f} /\ running' \in {e, "none"}
        /\ Goto(f, "idle", Idle) /\ "idle" \in Labels
    BY <1>3 DEF env_destroy, At, Runs, Return, Labels
  <2>2. \A g \in Env, i \in Fds :
          /\ fdpage'[<<g, i>>] = IF g = f THEN "none" ELSE fdpage[<<g, i>>]
          /\ g # f => datapage'[<<g, i>>] = datapage[<<g, i>>]
    BY <1>0, <1>3 DEF env_destroy, TypeOK
  <2>3. Backed'
    <3>1. ASSUME NEW g \in Env, NEW i \in Fds, fdpage'[<<g, i>>] # "none"
          PROVE  datapage'[<<g, i>>]
      <4>1. g # f /\ fdpage[<<g, i>>] # "none"
        BY <2>2, <3>1
      <4>2. datapage[<<g, i>>]
        BY <4>1 DEF CInv, Backed
      <4> QED
        BY <2>2, <4>1, <4>2
    <3> QED
      BY SMTT(60), <3>1 DEF Backed
  <2>4. /\ pc'[f] = "idle"
        /\ \A g \in Env \ {f} : pc'[g] = pc[g] /\ loc'[g] = loc[g]
    BY <1>0, <2>1, GotoMoves
  <2>5. ASSUME NEW g \in Env, pc'[g] = "idle" PROVE Sound(g)'
    BY <2>5 DEF Sound, Holds, Copies, Counted, Elsewhere
  <2>6. ASSUME NEW g \in Env, pc'[g] # "idle" PROVE Sound(g)'
    <3>1. /\ g # f /\ pc'[g] = pc[g] /\ loc'[g] = loc[g] /\ Sound(g)
          /\ loc[g].fd \in Fds /\ loc[g].new \in Fds
      BY <1>0, <2>4, <2>6 DEF CInv, Locals
    <3>2. running' # g
      BY <2>1, <2>6, <3>1, PipeAssumption
    <3>3. Holds(g)' /\ Copies(g)'
      BY SMTT(60), <2>2, <3>1 DEF Sound, Holds, Copies
    <3>4. Counted(g)'
      BY <3>1, <3>2 DEF Sound, Counted
    <3> QED
      BY <2>1, <3>1, <3>3, <3>4 DEF Sound
  <2> QED
    BY <2>3, <2>5, <2>6
<1> QED
  BY <1>1, <1>2, <1>3

(* Every step keeps the invariant of _pipeisclosed on one CPU. *)
LEMMA NextSound == ASSUME ~SMP PROVE CInv /\ [Next]_vars => CInv'
<1> SUFFICES ASSUME CInv, [Next]_vars PROVE CInv'
  OBVIOUS
<1>1. IInv'
  BY NextInv DEF CInv
<1>2. CASE UNCHANGED vars
  <2>1. UNCHANGED <<maps, running, pc, loc>>
    BY <1>2 DEF vars
  <2>2. Backed'
    BY <2>1, BackedKept
  <2>3. ASSUME NEW e \in Env PROVE Sound(e)'
    <3>1. /\ alive' = alive /\ fdpage' = fdpage /\ datapage' = datapage
          /\ running' = running /\ pc' = pc /\ loc' = loc
      BY <2>1 DEF maps
    <3>2. /\ pageref(fdpage[<<e, loc[e].fd>>])' = pageref(fdpage[<<e, loc[e].fd>>])
          /\ pageref("pipe")' = pageref("pipe")
      BY <3>1 DEF pageref
    <3>3. Sound(e)
      BY DEF CInv
    <3> QED
      BY <3>1, <3>2, <3>3 DEF Sound, Holds, Copies, Counted
  <2> QED
    BY <1>1, <2>2, <2>3 DEF CInv
<1>3. CASE Next
  <2>1. Backed' /\ \A e \in Env : Sound(e)'
    BY <1>3, TransferSound, ClosedSound, DescriptorSound, EnvSound DEF Next
  <2> QED
    BY <1>1, <2>1 DEF CInv
<1> QED
  BY <1>2, <1>3

(* Equal counts mean that the other end is gone: the pages of the caller's *)
(* end account for every mapping of the pipe.                              *)
LEMMA EqualCounts ==
  ASSUME TypeOK, Backed, NEW end \in {"r", "w"}, pageref(end) = pageref("pipe")
  PROVE  \A x \in Env \X Fds : fdpage[x] # Other(end)
<1> DEFINE E == {x \in Env \X Fds : fdpage[x] = end}
           D == {x \in Env \X Fds : datapage[x]}
<1>1. pageref(end) = Cardinality(E) /\ pageref("pipe") = Cardinality(D)
  BY DEF pageref
<1>2. E \in SUBSET D /\ D \subseteq Env \X Fds
  BY DEF Backed
<1>3. IsFiniteSet(D)
  BY <1>2, PipeAssumption, FS_Subset
<1>4. D = E
  BY <1>1, <1>2, <1>3, FS_Subset
<1>5. ASSUME NEW x \in Env \X Fds, fdpage[x] = Other(end)
      PROVE  FALSE
  <2>1. Other(end) # end /\ Other(end) # "none"
    BY DEF Other
  <2>2. x \in D
    BY <1>5, <2>1 DEF Backed
  <2> QED
    BY <1>4, <1>5, <2>1, <2>2
<1> QED
  BY <1>5

(* _pipeisclosed returns nowhere else. *)
LEMMA OnlyCompare ==
  ASSUME TypeOK, Next, NEW e \in Env, pc[e] = "cmp", pc'[e] = "idle", e \in alive'
  PROVE  CompareRuns(e)
<1>0. Reader \in Env /\ Writer \in Env
  BY PipeAssumption
<1>1. ASSUME NEW f \in Env, NEW label, NEW l, Goto(f, label, l)
      PROVE  f = e
  BY <1>1 DEF Goto, TypeOK
<1>2. CASE \E i \in Fds, n \in Sizes : read(i, n) \/ write(i, n)
  <2>1. PICK f \in Env : pc[f] = "idle" /\ \E op, l : Goto(f, op, l)
    BY <1>0, <1>2 DEF read, write, Transfer, At
  <2>2. PICK op, l : Goto(f, op, l)
    BY <2>1
  <2> QED
    BY <1>1, <2>1, <2>2
<1>3. CASE ReadLoop \/ TakeByte \/ AdvanceRpos
  <2>1. PICK op, l : Goto(Reader, op, l) /\ pc[Reader] # "cmp"
    BY <1>3 DEF ReadLoop, TakeByte, AdvanceRpos, At, Return
  <2> QED
    BY <1>0, <1>1, <2>1
<1>4. CASE WriteLoop \/ StoreByte \/ AdvanceWpos
  <2>1. PICK op, l : Goto(Writer, op, l) /\ pc[Writer] # "cmp"
    BY <1>4 DEF WriteLoop, StoreByte, AdvanceWpos, At, Return
  <2> QED
    BY <1>0, <1>1, <2>1
<1>5. ASSUME NEW f \in Env,
             SysYield(f) \/ ReadRuns(f) \/ PagerefFd(f) \/ PagerefPipe(f)
      PROVE  FALSE
  <2>1. PICK op, l : Goto(f, op, l) /\ pc[f] # "cmp"
    BY <1>5 DEF SysYield, ReadRuns, PagerefFd, PagerefPipe, At
  <2> QED
    BY <1>1, <2>1
<1>6. ASSUME NEW f \in Env, CompareRuns(f)
      PROVE  f = e
  <2>1. PICK op, l : Goto(f, op, l)
    BY <1>6 DEF CompareRuns, Return
  <2> QED
    BY <1>1, <2>1
<1>7. ASSUME NEW f \in Env,
             \/ \E i \in Fds : close(f, i)
             \/ UnmapFd(f) \/ UnmapData(f)
             \/ \E i, j \in Fds : dup(f, i, j)
             \/ DupData(f) \/ DupFd(f)
      PROVE  FALSE
  <2>1. PICK op, l : Goto(f, op, l) /\ pc[f] # "cmp"
    BY <1>7 DEF close, UnmapFd, UnmapData, dup, DupData, DupFd, At, Return
  <2> QED
    BY <1>1, <2>1
<1>8. ASSUME NEW f \in Env, NEW g \in Env, env_destroy(f, g)
      PROVE  FALSE
  <2>1. Goto(g, "idle", Idle) /\ alive' = alive \ {g}
    BY <1>8 DEF env_destroy, Return
  <2> QED
    BY <1>1, <2>1
<1>9. ASSUME NEW f \in Env, NEW g \in Env, env_run(f) \/ fork(f, g)
      PROVE  FALSE
  BY <1>9 DEF env_run, fork
<1> QED
  BY <1>2, <1>3, <1>4, <1>5, <1>6, <1>7, <1>8, <1>9 DEF Next

(* On one CPU _pipeisclosed never reports an end closed that some          *)
(* environment has open, for any number of environments and descriptors    *)
(* and any interleaving of fork, dup, close, exit and preemption.          *)
THEOREM ClosedSaysTrue == ASSUME ~SMP PROVE Spec => ClosedIsTrue
<1> DEFINE A == \A e \in Env : SaysClosed(e) =>
                  \A x \in Env \X Fds : fdpage[x] # Other(fdpage[<<e, loc[e].fd>>])
<1>1. Spec => []CInv
  BY InitSound, NextSound, PTL DEF Spec
<1>2. ASSUME CInv, [Next]_vars PROVE [A]_vars
  <2>1. SUFFICES ASSUME Next, NEW e \in Env, SaysClosed(e)
                 PROVE  \A x \in Env \X Fds :
                          fdpage[x] # Other(fdpage[<<e, loc[e].fd>>])
    BY <1>2
  <2>2. CASE CompareRuns(e)
    <3>1. /\ running = e /\ loc[e].runs = 2 /\ loc[e].ret /\ pc[e] = "cmp"
      <4>1. pc[e] = "cmp" /\ loc[e].ret /\ pc'[e] = "idle"
        BY <2>1 DEF SaysClosed
      <4>2. loc[e].runs = 2
        BY <1>2, <2>2, <4>1 DEF CompareRuns, Goto, CInv, IInv, TypeOK
      <4> QED
        BY <2>2, <4>1, <4>2 DEF CompareRuns, At, Runs
    <3>2. pageref(fdpage[<<e, loc[e].fd>>]) = pageref("pipe")
      BY <1>2, <3>1 DEF CInv, Sound, Counted
    <3>3. fdpage[<<e, loc[e].fd>>] \in {"r", "w"}
      BY <1>2, <3>1 DEF CInv, Sound, Holds, Elsewhere
    <3> QED
      BY <1>2, <3>2, <3>3, EqualCounts DEF CInv, IInv
  <2>3. CASE ~CompareRuns(e)
    <3>1. pc[e] = "cmp" /\ pc'[e] = "idle" /\ e \in alive' /\ e \in Env
      BY <2>1 DEF SaysClosed
    <3> QED
      BY <1>2, <2>1, <2>3, <3>1, OnlyCompare DEF CInv, IInv
  <2> QED
    BY <2>2, <2>3
<1> QED
  BY <1>1, <1>2, PTL DEF Spec, ClosedIsTrue
=============================================================================
