-------------------------- MODULE NetServerProofs ---------------------------
(***************************************************************************)
(* Proofs about NetServer, for any number of clients, buffers and slots    *)
(* and however late the threads get their turns: the threads, semaphores   *)
(* and mailboxes are each in one place, and no request buffer is lost that *)
(* serve() does not lose itself.                                           *)
(*                                                                         *)
(* What a connection takes is there and is nobody else's                   *)
(* (NetServerPoolProofs) because the requests of one client come one at a  *)
(* time (Asked).                                                           *)
(***************************************************************************)
EXTENDS NetServerPoolProofs

(* A leaf is for Zenon, unless it names the SMT solver. *)
USE ZenonT(60)

Live == {cur} \cup Range(queue)

(* Every thread that exists is in one place, and the two that never end    *)
(* exist.                                                                  *)
Queued ==
  /\ cur \in Thread /\ kill \in Worker \cup {None}
  /\ queue \in Seq(Thread) /\ IsInjective(queue) /\ cur \notin Range(queue)
  /\ {Main, Tcpip} \subseteq Live

(* Where a thread may be. *)
Roles ==
  /\ th[Main].pc \in {"flush", "recv", "timer"}
  /\ th[Tcpip].pc \in {"sem", "asleep", "fetch", "api"}
  /\ th[Tcpip].pc \in {"sem", "asleep"} => th[Tcpip].then = "fetch"
  /\ \A t \in Worker \cap Live :
       /\ th[t].pc \in {"start", "sem", "asleep", "post", "fetch", "done"}
       /\ th[t].pc \in {"sem", "asleep"} => th[t].then # "none"
       /\ th[t].req.kind \in Request /\ th[t].req.who \in Client

(* The buffers of the live threads are in use, and nobody else's. *)
Held ==
  /\ th[Main].pc = "flush" <=> th[Main].buf = 0
  /\ th[Main].buf # 0 => th[Main].buf \in buse
  /\ \A t \in Worker \cap Live :
       th[t].buf \in buse /\ th[t].buf # th[Main].buf
  /\ \A t, u \in Worker \cap Live : th[t].buf = th[u].buf => t = u

(* A client that asked for something waits for it, and what it asked for   *)
(* fits the state of its socket.                                           *)
Asked ==
  /\ \A t \in Worker \cap Live :
       LET r == th[t].req IN
       /\ r.kind # "input" => r.who \in busy
       /\ r.kind = "socket" => (conn[r.who].alive <=> th[t].pc # "start")
       /\ r.kind \in {"send", "recv", "close"} => conn[r.who].alive
  /\ \A t, u \in Worker \cap Live :
       /\ th[t].req.kind # "input" /\ th[u].req.kind # "input"
       /\ th[t].req.who = th[u].req.who
       => t = u

IInv ==
  /\ Typed /\ Queued /\ Roles /\ Held /\ BuffersAccounted /\ Asked
  /\ Owned /\ Listed /\ Counted

-----------------------------------------------------------------------------
(* Entering a wait for a semaphore leaves a thread its request and its     *)
(* buffer (sys_arch_sem_wait).                                             *)
LEMMA WaitTyped ==
  ASSUME Typed, NEW r \in ThreadRec, NEW s \in Sem,
         NEW p \in {"none", "post", "fetch", "done"}
  PROVE  /\ Wait(r, s, p) \in ThreadRec
         /\ Wait(r, s, p).req = r.req /\ Wait(r, s, p).buf = r.buf
         /\ Wait(r, s, p).pc = "sem" /\ Wait(r, s, p).then = p
<1>1. sems[s].gen \in Nat
  BY DEF Typed, SemRec
<1> QED
  BY <1>1 DEF Wait, ThreadRec

(* So does the return from it.                                             *)
LEMMA BackTyped ==
  ASSUME NEW r \in ThreadRec, NEW ok \in BOOLEAN
  PROVE  /\ Back(r, ok) \in ThreadRec
         /\ Back(r, ok).req = r.req /\ Back(r, ok).buf = r.buf
         /\ Back(r, ok).pc = r.then
<1>1. 0 \in Nat /\ 0 \in Sem
  BY SMTT(60), Constants
<1>2. r.then \in {"none", "post", "fetch", "done"}
  BY DEF ThreadRec
<1> QED
  BY <1>1, <1>2 DEF Back, ThreadRec

(* So does the start of sys_mbox_trypost.                                  *)
LEMMA PostTyped ==
  ASSUME Typed, NEW r \in ThreadRec, NEW b \in Mbox, NEW x \in Msg
  PROVE  /\ PostTo(r, b, x) \in ThreadRec
         /\ PostTo(r, b, x).req = r.req /\ PostTo(r, b, x).buf = r.buf
         /\ PostTo(r, b, x).pc = "sem" /\ PostTo(r, b, x).then = "post"
<1> DEFINE w == Wait(r, mboxes[b].free, "post")
<1>1. mboxes[b].free \in Sem
  BY DEF Typed, MboxRec
<1>2. w \in ThreadRec /\ w.req = r.req /\ w.buf = r.buf /\ w.pc = "sem"
      /\ w.then = "post"
  BY <1>1, WaitTyped
<1>3. PostTo(r, b, x) = [w EXCEPT !.mbox = b, !.msg = x]
  BY DEF PostTo
<1> HIDE DEF w
<1> QED
  BY <1>2, <1>3 DEF ThreadRec

(* And that of sys_arch_mbox_fetch.                                        *)
LEMMA FetchTyped ==
  ASSUME Typed, NEW r \in ThreadRec, NEW b \in Mbox
  PROVE  /\ FetchFrom(r, b) \in ThreadRec
         /\ FetchFrom(r, b).req = r.req /\ FetchFrom(r, b).buf = r.buf
         /\ FetchFrom(r, b).pc = "sem" /\ FetchFrom(r, b).then = "fetch"
<1> DEFINE w == Wait(r, mboxes[b].queued, "fetch")
<1>1. mboxes[b].queued \in Sem
  BY DEF Typed, MboxRec
<1>2. w \in ThreadRec /\ w.req = r.req /\ w.buf = r.buf /\ w.pc = "sem"
      /\ w.then = "fetch"
  BY <1>1, WaitTyped
<1>3. FetchFrom(r, b) = [w EXCEPT !.mbox = b, !.msg = NoMsg]
  BY DEF FetchFrom
<1>4. NoMsg \in Msg
  BY SMTT(60) DEF NoMsg, Msg
<1> HIDE DEF w
<1> QED
  BY <1>2, <1>3, <1>4 DEF ThreadRec

(* A signal keeps the semaphores, and which of them are free.              *)
LEMMA SignalledTyped ==
  ASSUME Typed, NEW s
  PROVE  /\ Signalled(sems, s) \in [Sem -> SemRec]
         /\ \A z \in Sem : Signalled(sems, s)[z].freed = sems[z].freed
<1>1. ASSUME NEW e \in SemRec
      PROVE  /\ [e EXCEPT !.counter = e.counter + 1] \in SemRec
             /\ [e EXCEPT !.counter = e.counter + 1].freed = e.freed
             /\ [e EXCEPT !.waiters = 0] \in SemRec
             /\ [e EXCEPT !.waiters = 0].freed = e.freed
  <2>1. \A k \in Nat : k + 1 \in Nat
    BY SMTT(60)
  <2> QED
    BY <2>1 DEF SemRec
<1> DEFINE A == [sems EXCEPT ![s].counter = @ + 1]
<1>2. sems \in [Sem -> SemRec]
  BY DEF Typed
<1>3. A \in [Sem -> SemRec] /\ \A z \in Sem : A[z].freed = sems[z].freed
  BY <1>1, <1>2
<1>4. Signalled(sems, s) = [A EXCEPT ![s].waiters = 0]
  BY DEF Signalled
<1>5. ASSUME NEW z \in Sem PROVE [A EXCEPT ![s].waiters = 0][z] \in SemRec
                                /\ [A EXCEPT ![s].waiters = 0][z].freed = sems[z].freed
  <2> HIDE DEF A
  <2>1. [A EXCEPT ![s].waiters = 0][z]
          = IF z = s THEN [A[z] EXCEPT !.waiters = 0] ELSE A[z]
    BY <1>3
  <2> QED
    BY <1>1, <1>3, <2>1
<1>6. [A EXCEPT ![s].waiters = 0] \in [Sem -> SemRec]
  <2> HIDE DEF A
  <2> QED
    BY <1>1, <1>3
<1> QED
  BY <1>4, <1>5, <1>6

(* A mailbox that is posted to keeps its type and its semaphores.          *)
LEMMA PutTyped ==
  ASSUME NEW m \in MboxRec, NEW x \in Msg
  PROVE  /\ Put(m, x) \in MboxRec /\ Put(m, x).freed = m.freed
         /\ Put(m, x).queued = m.queued /\ Put(m, x).free = m.free
<1>1. /\ m.nextq \in 0 .. MBOXSLOTS - 1 /\ m.nextq \in -1 .. MBOXSLOTS - 1
      /\ (m.nextq + 1) % MBOXSLOTS \in 0 .. MBOXSLOTS - 1
      /\ (IF m.head = -1 THEN m.nextq ELSE m.head) \in -1 .. MBOXSLOTS - 1
  BY RingPlaces DEF MboxRec
<1>2. [m.msg EXCEPT ![m.nextq] = x] \in [0 .. MBOXSLOTS - 1 -> Msg]
  BY DEF MboxRec
<1> QED
  BY <1>1, <1>2 DEF Put, MboxRec

(* So does one that is fetched from.                                       *)
LEMMA TookTyped ==
  ASSUME NEW m \in MboxRec
  PROVE  /\ Took(m) \in MboxRec /\ Took(m).freed = m.freed
         /\ Took(m).queued = m.queued /\ Took(m).free = m.free
<1>1. /\ (m.head + 1) % MBOXSLOTS \in -1 .. MBOXSLOTS - 1
      /\ -1 \in -1 .. MBOXSLOTS - 1
  BY RingPlaces DEF MboxRec
<1>2. NoMsg \in Msg
  BY SMTT(60) DEF NoMsg, Msg
<1>3. [m.msg EXCEPT ![m.head] = NoMsg] \in [0 .. MBOXSLOTS - 1 -> Msg]
  BY <1>2 DEF MboxRec
<1> QED
  BY <1>1, <1>3 DEF Took, MboxRec

-----------------------------------------------------------------------------
(* Turns. *)

(* thread_yield changes whose turn it is, and nothing else.                *)
LEMMA Yields ==
  ASSUME Queued, thread_yield
  PROVE  Queued' /\ Live' = Live
<1>1. queue # << >>
  <2>1. Main \in Range(queue) \/ Tcpip \in Range(queue)
    BY Constants DEF Queued, Live
  <2>2. Range(<< >>) = {}
    BY SMTT(60) DEF Range
  <2> QED
    BY <2>1, <2>2
<1>2. /\ queue' \in Seq(Thread) /\ cur' \in Thread
      /\ IsInjective(queue') /\ cur' \notin Range(queue')
      /\ {cur'} \cup Range(queue') = {cur} \cup Range(queue)
  BY <1>1, Rotates DEF Queued, thread_yield
<1> QED
  BY <1>2 DEF Queued, Live, thread_yield

(* The running thread ends (thread_halt).                                  *)
LEMMA Halts ==
  ASSUME Queued, thread_halt, cur \in Worker
  PROVE  Queued' /\ Live' = Live \ {cur}
<1>1. queue # << >>
  <2>1. Main \in Range(queue)
    BY Constants DEF Queued, Live
  <2>2. Range(<< >>) = {}
    BY SMTT(60) DEF Range
  <2> QED
    BY <2>1, <2>2
<1>2. /\ queue' \in Seq(Thread) /\ cur' \in Thread
      /\ IsInjective(queue') /\ cur' \notin Range(queue')
      /\ {cur'} \cup Range(queue') = Range(queue)
  BY <1>1, Shrinks DEF Queued, thread_halt
<1>3. Live' = Live \ {cur}
  BY <1>2 DEF Queued, Live
<1>4. Main # cur /\ Tcpip # cur
  BY Constants
<1> QED
  BY <1>2, <1>3, <1>4 DEF Queued, thread_halt

(* A new thread joins the others (thread_create).                          *)
LEMMA Creates ==
  ASSUME Queued, NEW t \in Worker, t \notin Live,
         cur' = Head(Append(queue, t)),
         queue' = Append(Tail(Append(queue, t)), cur), kill' = kill
  PROVE  Queued' /\ Live' = Live \cup {t}
<1>1. PICK p : p = Append(queue, t)
  OBVIOUS
<1>2. t \in Thread /\ t \notin Range(queue) /\ t # cur
  BY Constants DEF Live
<1>3. p \in Seq(Thread) /\ p # << >> /\ IsInjective(p) /\ Range(p) = Range(queue) \cup {t}
  <2>1. queue \in Seq(Thread) /\ IsInjective(queue)
    BY DEF Queued
  <2>2. /\ Append(queue, t) \in Seq(Thread) /\ Append(queue, t) # << >>
        /\ IsInjective(Append(queue, t))
        /\ Range(Append(queue, t)) = Range(queue) \cup {t}
    BY SMTT(60), <1>2, <2>1, Grows
  <2> QED
    BY <1>1, <2>2
<1>4. cur \in Thread /\ cur \notin Range(p)
  BY <1>2, <1>3 DEF Queued
<1>5. /\ queue' \in Seq(Thread) /\ cur' \in Thread
      /\ IsInjective(queue') /\ cur' \notin Range(queue')
      /\ {cur'} \cup Range(queue') = {cur} \cup Range(p)
  <2>1. cur' = Head(p) /\ queue' = Append(Tail(p), cur)
    BY <1>1
  <2>2. \A q \in Seq(Thread) :
          q # << >> /\ IsInjective(q) /\ cur \notin Range(q) =>
            /\ Append(Tail(q), cur) \in Seq(Thread) /\ Head(q) \in Thread
            /\ IsInjective(Append(Tail(q), cur))
            /\ Head(q) \notin Range(Append(Tail(q), cur))
            /\ {Head(q)} \cup Range(Append(Tail(q), cur)) = {cur} \cup Range(q)
    BY <1>4, Rotates
  <2>3. /\ Append(Tail(p), cur) \in Seq(Thread) /\ Head(p) \in Thread
        /\ IsInjective(Append(Tail(p), cur))
        /\ Head(p) \notin Range(Append(Tail(p), cur))
        /\ {Head(p)} \cup Range(Append(Tail(p), cur)) = {cur} \cup Range(p)
    BY <1>3, <1>4, <2>2
  <2> QED
    BY <2>1, <2>3
<1>6. Live' = Live \cup {t}
  BY <1>3, <1>5 DEF Live
<1> QED
  BY <1>5, <1>6 DEF Queued

-----------------------------------------------------------------------------
(* Who works for which request with which buffer stays as it is.           *)
SameWork ==
  /\ Live' = Live /\ busy' = busy /\ buse' = buse /\ lost' = lost
  /\ \A u \in Thread : th'[u].req = th[u].req /\ th'[u].buf = th[u].buf
  /\ th'[Main].pc = "flush" <=> th[Main].pc = "flush"
  /\ \A u \in Worker \cap Live : th[u].req.kind = "socket" =>
       (th'[u].pc = "start" <=> th[u].pc = "start")

(* The buffers depend on who has which.                                    *)
LEMMA HeldKept ==
  ASSUME Held, BuffersAccounted, Live' = Live, buse' = buse, lost' = lost,
         \A u \in Thread : th'[u].buf = th[u].buf,
         th'[Main].pc = "flush" <=> th[Main].pc = "flush"
  PROVE  Held' /\ BuffersAccounted'
<1>1. Main \in Thread /\ \A u \in Worker \cap Live : u \in Thread
  BY Constants
<1>2. Held'
  <2>1. /\ th'[Main].pc = "flush" <=> th'[Main].buf = 0
        /\ th'[Main].buf # 0 => th'[Main].buf \in buse
    BY <1>1 DEF Held
  <2>2. \A t \in Worker \cap Live : th'[t].buf \in buse /\ th'[t].buf # th'[Main].buf
    BY <1>1 DEF Held
  <2>3. \A t, u \in Worker \cap Live : th'[t].buf = th'[u].buf => t = u
    BY <1>1 DEF Held
  <2> QED
    BY <2>1, <2>2, <2>3 DEF Held
<1>3. BuffersAccounted'
  BY <1>1 DEF BuffersAccounted, Live
<1> QED
  BY <1>2, <1>3

(* And so does what is asked.                                              *)
LEMMA WorkKept ==
  ASSUME Roles, Held, BuffersAccounted, Asked, SameWork,
         \A c \in Client : conn'[c].alive = conn[c].alive
  PROVE  Held' /\ BuffersAccounted' /\ Asked'
<1>1. Main \in Thread /\ \A u \in Worker \cap Live : u \in Thread
  BY Constants
<1>2. Held' /\ BuffersAccounted'
  BY HeldKept DEF SameWork
<1>4. Asked'
  <2>1. ASSUME NEW t \in Worker \cap Live
        PROVE  LET r == th'[t].req IN
               /\ r.kind # "input" => r.who \in busy'
               /\ r.kind = "socket" => (conn'[r.who].alive <=> th'[t].pc # "start")
               /\ r.kind \in {"send", "recv", "close"} => conn'[r.who].alive
    <3>1. /\ th'[t].req = th[t].req /\ th[t].req.who \in Client
          /\ busy' = busy /\ conn'[th[t].req.who].alive = conn[th[t].req.who].alive
          /\ (th[t].req.kind = "socket" => (th'[t].pc = "start" <=> th[t].pc = "start"))
      BY <1>1 DEF SameWork, Roles
    <3> QED
      BY <3>1 DEF Asked
  <2>2. \A t, u \in Worker \cap Live :
          /\ th'[t].req.kind # "input" /\ th'[u].req.kind # "input"
          /\ th'[t].req.who = th'[u].req.who
          => t = u
    BY <1>1 DEF SameWork, Asked
  <2> QED
    BY <2>1, <2>2 DEF SameWork, Asked
<1> QED
  BY <1>2, <1>4

(* A thread other than the main one goes on with the same request and the  *)
(* same buffer.                                                            *)
Goes(t) ==
  /\ t \in Live \ {Main}
  /\ \A u \in Thread : th'[u].req = th[u].req /\ th'[u].buf = th[u].buf
  /\ \A u \in Thread \ {t} : th'[u].pc = th[u].pc /\ th'[u].then = th[u].then
  /\ t = Tcpip => /\ th'[t].pc \in {"sem", "asleep", "fetch", "api"}
                  /\ th'[t].pc \in {"sem", "asleep"} => th'[t].then = "fetch"
  /\ t # Tcpip => /\ th'[t].pc \in {"sem", "asleep", "post", "fetch", "done"}
                  /\ th'[t].pc \in {"sem", "asleep"} => th'[t].then # "none"
  /\ Queued' /\ Live' = Live

Moves(t) ==
  /\ Goes(t)
  /\ th[t].pc # "start" \/ th[t].req.kind # "socket"

(* Only threads are queued.                                                *)
LEMMA LiveThreads ==
  ASSUME Queued
  PROVE  Live \subseteq Thread
<1>1. \A k \in DOMAIN queue : queue[k] \in Thread
  BY SMTT(60) DEF Queued
<1> QED
  BY <1>1 DEF Live, Queued, Range

(* It is then where such a thread may be.                                  *)
LEMMA GoesRoles ==
  ASSUME IInv, NEW t, Goes(t)
  PROVE  Roles'
<1>1. /\ Main \in Thread /\ Tcpip \in Thread /\ Main # Tcpip /\ t \in Thread
      /\ t # Main /\ Main \notin Worker /\ Tcpip \notin Worker
      /\ Worker \subseteq Thread
  BY Constants, LiveThreads DEF Goes, IInv
<1>2. th'[Main].pc \in {"flush", "recv", "timer"}
  BY <1>1 DEF IInv, Roles, Goes
<1>3. /\ th'[Tcpip].pc \in {"sem", "asleep", "fetch", "api"}
      /\ th'[Tcpip].pc \in {"sem", "asleep"} => th'[Tcpip].then = "fetch"
  <2>1. CASE t = Tcpip
    BY <2>1 DEF Goes
  <2>2. CASE t # Tcpip
    BY <1>1, <2>2 DEF IInv, Roles, Goes
  <2> QED
    BY <2>1, <2>2
<1>4. ASSUME NEW u \in Worker \cap Live
      PROVE  /\ th'[u].pc \in {"start", "sem", "asleep", "post", "fetch", "done"}
             /\ th'[u].pc \in {"sem", "asleep"} => th'[u].then # "none"
             /\ th'[u].req.kind \in Request /\ th'[u].req.who \in Client
  <2>1. u \in Thread /\ u # Tcpip /\ th'[u].req = th[u].req
    BY <1>1 DEF Goes
  <2>2. th'[u].req.kind \in Request /\ th'[u].req.who \in Client
    BY <2>1 DEF IInv, Roles
  <2>3. CASE u = t
    BY <2>1, <2>2, <2>3 DEF Goes
  <2>4. CASE u # t
    <3>1. th'[u].pc = th[u].pc /\ th'[u].then = th[u].then
      BY <2>1, <2>4 DEF Goes
    <3> QED
      BY <2>2, <3>1 DEF IInv, Roles
  <2> QED
    BY <2>3, <2>4
<1> QED
  BY <1>2, <1>3, <1>4 DEF Roles, Goes

(* That keeps the invariant, if nothing is allocated or freed.             *)
LEMMA MovesInv ==
  ASSUME IInv, NEW t, Moves(t), Typed', SamePools,
         UNCHANGED <<busy, buse, lost>>
  PROVE  IInv'
<1>1. /\ Main \in Thread /\ Tcpip \in Thread /\ Main # Tcpip /\ t \in Thread
      /\ t # Main /\ Main \notin Worker /\ Tcpip \notin Worker
      /\ Worker \subseteq Thread
  BY Constants, LiveThreads DEF Moves, Goes, IInv
<1>2. Roles'
  BY GoesRoles DEF Moves
<1>3. SameWork
  <2>1. th'[Main].pc = "flush" <=> th[Main].pc = "flush"
    BY <1>1 DEF Moves, Goes
  <2>2. ASSUME NEW u \in Worker \cap Live, th[u].req.kind = "socket"
        PROVE  th'[u].pc = "start" <=> th[u].pc = "start"
    <3>1. u \in Thread /\ u # Tcpip
      BY <1>1
    <3>2. CASE u = t
      BY <2>2, <3>1, <3>2 DEF Moves, Goes
    <3>3. CASE u # t
      BY <3>1, <3>3 DEF Moves, Goes
    <3> QED
      BY <3>2, <3>3
  <2> QED
    BY <2>1, <2>2 DEF SameWork, Moves, Goes
<1>4. \A c \in Client : conn'[c].alive = conn[c].alive
  BY DEF SamePools
<1>5. Held' /\ BuffersAccounted' /\ Asked'
  BY <1>3, <1>4, WorkKept DEF IInv
<1>6. Owned' /\ Listed' /\ Counted'
  BY PoolsKept DEF IInv
<1> QED
  BY <1>2, <1>5, <1>6 DEF IInv, Moves, Goes

(* Where the running thread can be, and that it is one of the threads.     *)
LEMMA RunningThread ==
  ASSUME IInv, NEW t \in Thread, Running(t)
  PROVE  /\ t = cur /\ t \in Live /\ th[t] \in ThreadRec
         /\ t \in {Main, Tcpip} \/ t \in Worker \cap Live
         /\ th[t].pc \notin {"flush", "recv", "timer"} => t # Main
BY DEF Running, Live, IInv, Typed, Roles, Thread

(* A turn of the loop of sys_arch_sem_wait: the semaphore is taken, or the *)
(* thread goes to sleep.                                                   *)
LEMMA SemWaitInv ==
  ASSUME IInv, NEW t \in Thread, sys_arch_sem_wait(t)
  PROVE  IInv'
<1> DEFINE s == th[t].sem
<1>1. /\ t \in Live /\ th[t] \in ThreadRec /\ t # Main /\ th[t].pc = "sem"
      /\ t = Tcpip => th[t].then = "fetch"
      /\ t # Tcpip => th[t].then # "none"
      /\ t = Tcpip \/ t \in Worker \cap Live
  <2>1. Running(t) /\ th[t].pc = "sem"
    BY DEF sys_arch_sem_wait
  <2>2. /\ t \in Live /\ th[t] \in ThreadRec /\ t # Main
        /\ t \in {Main, Tcpip} \/ t \in Worker \cap Live
    BY <2>1, RunningThread
  <2> QED
    BY <2>1, <2>2 DEF IInv, Roles
<1>2. s \in Sem /\ sems[s] \in SemRec /\ sems \in [Sem -> SemRec]
      /\ th \in [Thread -> ThreadRec] /\ Queued
  BY <1>1 DEF ThreadRec, IInv, Typed
<1>3. UNCHANGED <<sem_free, mboxes, mbox_free, conn, buse, yields, busy, lost,
                  arrived, got, panicked>>
  BY DEF sys_arch_sem_wait
<1>4. CASE /\ sems[s].counter > 0
           /\ sems' = [sems EXCEPT ![s].counter = @ - 1]
           /\ th' = [th EXCEPT ![t] = Back(@, TRUE)]
           /\ UNCHANGED sched
  <2>1. sems' \in [Sem -> SemRec] /\ \A z \in Sem : sems'[z].freed = sems[z].freed
    <3>1. sems[s].counter - 1 \in Nat
      <4>1. sems[s].counter \in Nat
        BY <1>2 DEF SemRec
      <4> QED
        BY SMTT(60), <4>1, <1>4
    <3>2. sems' = [sems EXCEPT ![s] = [sems[s] EXCEPT !.counter = sems[s].counter - 1]]
      BY <1>4
    <3>3. LET e == [sems[s] EXCEPT !.counter = sems[s].counter - 1] IN
          e \in SemRec /\ e.freed = sems[s].freed
      BY <1>2, <3>1 DEF SemRec
    <3> QED
      BY <1>2, <3>2, <3>3
  <2>2. PICK r \in ThreadRec : /\ r = Back(th[t], TRUE)
                               /\ r.req = th[t].req /\ r.buf = th[t].buf
                               /\ r.pc = th[t].then
    BY <1>1, BackTyped
  <2>3. th' = [th EXCEPT ![t] = r]
    BY <1>4, <2>2
  <2>4. /\ th' \in [Thread -> ThreadRec] /\ th'[t] = r
        /\ \A u \in Thread \ {t} : th'[u] = th[u]
    BY <1>2, <2>2, <2>3
  <2>5. Queued' /\ Live' = Live
    BY <1>2, <1>4 DEF Queued, Live, sched
  <2>6. th[t].then \in {"none", "post", "fetch", "done"}
    BY <1>1 DEF ThreadRec
  <2>7. Moves(t)
    BY <1>1, <2>2, <2>4, <2>5, <2>6 DEF Moves, Goes
  <2>8. SamePools
    BY <1>3, <2>1 DEF SamePools
  <2>9. Typed'
    BY <1>3, <2>1, <2>4 DEF IInv, Typed
  <2> QED
    BY <1>3, <2>7, <2>8, <2>9, MovesInv
<1>5. CASE /\ sems' = [sems EXCEPT ![s].waiters = 1]
           /\ th' = [th EXCEPT ![t].pc = "asleep", ![t].v = <<0, 1>>,
                               ![t].wakeup = FALSE]
           /\ thread_yield
  <2>1. sems' \in [Sem -> SemRec] /\ \A z \in Sem : sems'[z].freed = sems[z].freed
    <3>1. sems' = [sems EXCEPT ![s] = [sems[s] EXCEPT !.waiters = 1]]
      BY <1>5
    <3>2. LET e == [sems[s] EXCEPT !.waiters = 1] IN
          e \in SemRec /\ e.freed = sems[s].freed
      BY <1>2 DEF SemRec
    <3> QED
      BY <1>2, <3>1, <3>2
  <2>2. PICK r : r = [th[t] EXCEPT !.pc = "asleep", !.v = <<0, 1>>, !.wakeup = FALSE]
    OBVIOUS
  <2>3. /\ r \in ThreadRec /\ r.req = th[t].req /\ r.buf = th[t].buf
        /\ r.pc = "asleep" /\ r.then = th[t].then
    BY <1>1, <2>2 DEF ThreadRec
  <2>4. th' = [th EXCEPT ![t] = r]
    BY <1>2, <1>5, <2>2
  <2>5. /\ th' \in [Thread -> ThreadRec] /\ th'[t] = r
        /\ \A u \in Thread \ {t} : th'[u] = th[u]
    BY <1>2, <2>3, <2>4
  <2>6. Queued' /\ Live' = Live
    BY <1>2, <1>5, Yields
  <2>7. Moves(t)
    BY <1>1, <2>3, <2>5, <2>6 DEF Moves, Goes
  <2>8. SamePools
    BY <1>3, <2>1 DEF SamePools
  <2>9. Typed'
    BY <1>3, <2>1, <2>5 DEF IInv, Typed
  <2> QED
    BY <1>3, <2>7, <2>8, <2>9, MovesInv
<1> QED
  BY <1>4, <1>5 DEF sys_arch_sem_wait

(* thread_wait goes round, or goes back to the loop above it.              *)
LEMMA ThreadWaitInv ==
  ASSUME IInv, NEW t \in Thread, thread_wait(t)
  PROVE  IInv'
<1>1. /\ t \in Live /\ th[t] \in ThreadRec /\ t # Main /\ th[t].pc = "asleep"
      /\ t = Tcpip => th[t].then = "fetch"
      /\ t # Tcpip => th[t].then # "none"
  <2>1. Running(t) /\ th[t].pc = "asleep"
    BY DEF thread_wait
  <2>2. /\ t \in Live /\ th[t] \in ThreadRec /\ t # Main
        /\ t \in {Main, Tcpip} \/ t \in Worker \cap Live
    BY <2>1, RunningThread
  <2> QED
    BY <2>1, <2>2 DEF IInv, Roles
<1>2. th \in [Thread -> ThreadRec] /\ Queued
  BY DEF IInv, Typed
<1>3. UNCHANGED <<sems, sem_free, mboxes, mbox_free, conn, buse, yields, busy,
                  lost, arrived, got, panicked>>
  BY DEF thread_wait
<1>4. SamePools
  BY <1>3 DEF SamePools
<1>5. CASE thread_yield /\ UNCHANGED th
  <2>1. Queued' /\ Live' = Live
    BY <1>2, <1>5, Yields
  <2>2. Moves(t)
    BY <1>1, <1>5, <2>1 DEF Moves, Goes
  <2>3. Typed'
    BY <1>3, <1>5 DEF IInv, Typed
  <2> QED
    BY <1>3, <1>4, <2>2, <2>3, MovesInv
<1>6. ASSUME NEW timeout \in BOOLEAN,
             th' = [th EXCEPT ![t] = IF timeout THEN Back(@, FALSE)
                                     ELSE [@ EXCEPT !.pc = "sem", !.wakeup = FALSE,
                                                    !.v = <<0, 0>>]],
             UNCHANGED sched
      PROVE  IInv'
  <2>1. PICK r \in ThreadRec :
          /\ th' = [th EXCEPT ![t] = r]
          /\ r.req = th[t].req /\ r.buf = th[t].buf
          /\ \/ r.pc = th[t].then
             \/ r.pc = "sem" /\ r.then = th[t].then
    <3>1. CASE timeout
      <4>1. th' = [th EXCEPT ![t] = Back(th[t], FALSE)]
        BY <1>6, <3>1
      <4> QED
        BY <1>1, <4>1, BackTyped
    <3>2. CASE ~timeout
      <4>1. PICK r : r = [th[t] EXCEPT !.pc = "sem", !.wakeup = FALSE, !.v = <<0, 0>>]
        OBVIOUS
      <4>2. /\ r \in ThreadRec /\ r.req = th[t].req /\ r.buf = th[t].buf
            /\ r.pc = "sem" /\ r.then = th[t].then
        BY <1>1, <4>1 DEF ThreadRec
      <4>3. th' = [th EXCEPT ![t] = r]
        BY <1>6, <3>2, <4>1
      <4> QED
        BY <4>2, <4>3
    <3> QED
      BY <3>1, <3>2
  <2>2. /\ th' \in [Thread -> ThreadRec] /\ th'[t] = r
        /\ \A u \in Thread \ {t} : th'[u] = th[u]
    BY <1>2, <2>1
  <2>3. Queued' /\ Live' = Live
    BY <1>2, <1>6 DEF Queued, Live, sched
  <2>4. th[t].then \in {"none", "post", "fetch", "done"}
    BY <1>1 DEF ThreadRec
  <2>5. Moves(t)
    BY <1>1, <2>1, <2>2, <2>3, <2>4 DEF Moves, Goes
  <2>6. Typed'
    BY <1>3, <2>2 DEF IInv, Typed
  <2> QED
    BY <1>3, <1>4, <2>5, <2>6, MovesInv
<1>7. PICK late \in {FALSE, Timed(t)} :
        \/ thread_yield /\ UNCHANGED th
        \/ /\ LET timeout == th[t].gen # sems[th[t].sem].gen \/ late IN
              th' = [th EXCEPT ![t] = IF timeout THEN Back(@, FALSE)
                                      ELSE [@ EXCEPT !.pc = "sem", !.wakeup = FALSE,
                                                     !.v = <<0, 0>>]]
           /\ UNCHANGED sched
  BY DEF thread_wait
<1>8. (th[t].gen # sems[th[t].sem].gen \/ late) \in BOOLEAN
  OBVIOUS
<1> QED
  BY <1>5, <1>6, <1>7, <1>8

(* A thread that signals a semaphore moves on, and others are told.        *)
LEMMA Tells ==
  ASSUME th \in [Thread -> ThreadRec], NEW t \in Thread, NEW r \in ThreadRec,
         r.req = th[t].req, r.buf = th[t].buf, NEW s,
         th' = Woken([th EXCEPT ![t] = r], sems, s)
  PROVE  /\ th' \in [Thread -> ThreadRec]
         /\ \A u \in Thread : th'[u].req = th[u].req /\ th'[u].buf = th[u].buf
         /\ \A u \in Thread \ {t} : th'[u].pc = th[u].pc /\ th'[u].then = th[u].then
         /\ th'[t].pc = r.pc /\ th'[t].then = r.then
<1>1. PICK T : T = [th EXCEPT ![t] = r]
  OBVIOUS
<1>2. T \in [Thread -> ThreadRec] /\ T[t] = r /\ \A u \in Thread \ {t} : T[u] = th[u]
  BY <1>1
<1> DEFINE W == Woken(T, sems, s)
<1>3. /\ W \in [Thread -> ThreadRec]
      /\ \A u \in Thread : /\ W[u].req = T[u].req /\ W[u].buf = T[u].buf
                           /\ W[u].pc = T[u].pc /\ W[u].then = T[u].then
  BY SMTT(60), <1>2, WokenKeeps
<1>4. th' = W
  BY <1>1
<1> HIDE DEF W
<1> QED
  BY <1>2, <1>3, <1>4

(* The rest of sys_mbox_trypost.                                           *)
LEMMA TrypostInv ==
  ASSUME IInv, NEW t \in Thread, sys_mbox_trypost(t)
  PROVE  IInv'
<1> DEFINE b == th[t].mbox
           q == mboxes[b].queued
           w == [th[t] EXCEPT !.msg = NoMsg]
           next == IF w.req.kind = "input" THEN [w EXCEPT !.pc = "done"]
                   ELSE Wait(w, conn[w.req.who].op, "done")
<1>1. /\ t \in Worker \cap Live /\ th[t] \in ThreadRec /\ t # Main /\ t # Tcpip
      /\ th[t].pc = "post" /\ th[t].req.who \in Client
  <2>1. Running(t) /\ th[t].pc = "post"
    BY DEF sys_mbox_trypost
  <2>2. /\ t \in Live /\ th[t] \in ThreadRec /\ t # Main
        /\ t \in {Main, Tcpip} \/ t \in Worker \cap Live
    BY <2>1, RunningThread
  <2> QED
    BY <2>1, <2>2, Constants DEF IInv, Roles
<1>2. /\ mboxes' = [mboxes EXCEPT ![b] = Put(@, th[t].msg)]
      /\ sems' = Signalled(sems, q)
      /\ th' = Woken([th EXCEPT ![t] = next], sems, q)
      /\ UNCHANGED <<cur, queue, kill, sem_free, mbox_free, conn, buse, yields,
                     busy, lost, arrived, got, panicked>>
  BY DEF sys_mbox_trypost
<1>3. /\ b \in Mbox /\ th[t].msg \in Msg /\ mboxes \in [Mbox -> MboxRec]
      /\ th \in [Thread -> ThreadRec] /\ Typed /\ Queued
  BY <1>1 DEF ThreadRec, IInv, Typed
<1>4. /\ next \in ThreadRec /\ next.req = th[t].req /\ next.buf = th[t].buf
      /\ next.pc = "done" \/ (next.pc = "sem" /\ next.then = "done")
  <2>1. NoMsg \in Msg
    BY SMTT(60) DEF NoMsg, Msg
  <2>2. w \in ThreadRec /\ w.req = th[t].req /\ w.buf = th[t].buf
    BY <1>1, <2>1 DEF ThreadRec
  <2>3. conn[w.req.who].op \in Sem
    BY <1>1, <1>3, <2>2 DEF Typed, ConnRec
  <2> HIDE DEF w
  <2>4. CASE w.req.kind = "input"
    BY <2>2, <2>4 DEF ThreadRec
  <2>5. CASE w.req.kind # "input"
    <3>1. PICK s \in Sem : s = conn[w.req.who].op
      BY <2>3
    <3>2. next = Wait(w, s, "done")
      BY <2>5, <3>1
    <3>3. /\ Wait(w, s, "done") \in ThreadRec
          /\ Wait(w, s, "done").req = w.req /\ Wait(w, s, "done").buf = w.buf
          /\ Wait(w, s, "done").pc = "sem" /\ Wait(w, s, "done").then = "done"
      BY <1>3, <2>2, WaitTyped
    <3> QED
      BY <2>2, <3>2, <3>3
  <2> QED
    BY <2>4, <2>5
<1> HIDE DEF next, w, q
<1>5. PICK r \in ThreadRec : r = next
  BY <1>4
<1>6. r.req = th[t].req /\ r.buf = th[t].buf /\ th' = Woken([th EXCEPT ![t] = r], sems, q)
  BY <1>2, <1>4, <1>5
<1>7. /\ th' \in [Thread -> ThreadRec]
      /\ \A u \in Thread : th'[u].req = th[u].req /\ th'[u].buf = th[u].buf
      /\ \A u \in Thread \ {t} : th'[u].pc = th[u].pc /\ th'[u].then = th[u].then
      /\ th'[t].pc = r.pc /\ th'[t].then = r.then
  BY <1>3, <1>6, Tells
<1>8. /\ sems' \in [Sem -> SemRec] /\ \A z \in Sem : sems'[z].freed = sems[z].freed
  BY <1>2, <1>3, SignalledTyped
<1>9. /\ mboxes' \in [Mbox -> MboxRec]
      /\ \A z \in Mbox : /\ mboxes'[z].freed = mboxes[z].freed
                         /\ mboxes'[z].queued = mboxes[z].queued
                         /\ mboxes'[z].free = mboxes[z].free
  <2>1. PICK m \in MboxRec :
          /\ m = Put(mboxes[b], th[t].msg) /\ m.freed = mboxes[b].freed
          /\ m.queued = mboxes[b].queued /\ m.free = mboxes[b].free
    BY <1>3, PutTyped
  <2>2. mboxes' = [mboxes EXCEPT ![b] = m]
    BY <1>2, <2>1
  <2> QED
    BY <1>3, <2>1, <2>2
<1>10. Queued' /\ Live' = Live
  BY <1>2, <1>3 DEF Queued, Live
<1>11. Moves(t)
  BY <1>1, <1>4, <1>5, <1>7, <1>10 DEF Moves, Goes
<1>12. SamePools
  BY <1>2, <1>8, <1>9 DEF SamePools
<1>13. Typed'
  BY <1>2, <1>3, <1>7, <1>8, <1>9 DEF Typed
<1> QED
  BY <1>2, <1>11, <1>12, <1>13, MovesInv

(* The rest of sys_arch_mbox_fetch: a message, or after a timeout again.   *)
LEMMA MboxFetchInv ==
  ASSUME IInv, NEW t \in Thread, sys_arch_mbox_fetch(t)
  PROVE  IInv'
<1> DEFINE b == th[t].mbox
           x == mboxes[b].msg[mboxes[b].head]
<1>1. /\ t \in Live /\ th[t] \in ThreadRec /\ t # Main /\ th[t].pc = "fetch"
      /\ UNCHANGED <<cur, queue, kill, sem_free, mbox_free, conn, buse, yields,
                     busy, lost, arrived, panicked>>
  <2>1. Running(t) /\ th[t].pc = "fetch"
    BY DEF sys_arch_mbox_fetch
  <2>2. t \in Live /\ th[t] \in ThreadRec /\ t # Main
    BY <2>1, RunningThread
  <2> QED
    BY <2>1, <2>2 DEF sys_arch_mbox_fetch
<1>2. /\ b \in Mbox /\ mboxes \in [Mbox -> MboxRec] /\ mboxes[b] \in MboxRec
      /\ th \in [Thread -> ThreadRec] /\ Typed /\ Queued
  BY <1>1 DEF ThreadRec, IInv, Typed
<1>3. Queued' /\ Live' = Live
  BY <1>1, <1>2 DEF Queued, Live
<1>4. CASE /\ th[t].ok
           /\ mboxes' = [mboxes EXCEPT ![b] = Took(@)]
           /\ sems' = Signalled(sems, mboxes[b].free)
           /\ th' = Woken([th EXCEPT ![t].pc = IF t = Tcpip THEN "api" ELSE "done",
                                     ![t].msg = x], sems, mboxes[b].free)
           /\ got' = IF t = Tcpip THEN got ELSE [got EXCEPT ![x.who] = x.n]
  <2>1. x \in Msg
    <3>1. mboxes[b].head # -1
      BY <1>1, <1>4 DEF sys_arch_mbox_fetch, Asserted
    <3>2. mboxes[b].head \in 0 .. MBOXSLOTS - 1
      BY <1>2, <3>1, RingPlaces DEF MboxRec
    <3> QED
      BY <1>2, <3>2 DEF MboxRec
  <2> DEFINE p == IF t = Tcpip THEN "api" ELSE "done"
  <2>2. PICK r : r = [th[t] EXCEPT !.pc = p, !.msg = x]
    OBVIOUS
  <2> HIDE DEF x
  <2>3. /\ r \in ThreadRec /\ r.req = th[t].req /\ r.buf = th[t].buf
        /\ r.pc = IF t = Tcpip THEN "api" ELSE "done"
    BY <1>1, <2>1, <2>2 DEF ThreadRec
  <2>4. th' = Woken([th EXCEPT ![t] = r], sems, mboxes[b].free)
    BY <1>2, <1>4, <2>2
  <2>5. /\ th' \in [Thread -> ThreadRec]
        /\ \A u \in Thread : th'[u].req = th[u].req /\ th'[u].buf = th[u].buf
        /\ \A u \in Thread \ {t} : th'[u].pc = th[u].pc /\ th'[u].then = th[u].then
        /\ th'[t].pc = r.pc /\ th'[t].then = r.then
    BY <1>2, <2>3, <2>4, Tells
  <2>6. /\ sems' \in [Sem -> SemRec] /\ \A z \in Sem : sems'[z].freed = sems[z].freed
    BY <1>2, <1>4, SignalledTyped
  <2>7. /\ mboxes' \in [Mbox -> MboxRec]
        /\ \A z \in Mbox : /\ mboxes'[z].freed = mboxes[z].freed
                           /\ mboxes'[z].queued = mboxes[z].queued
                           /\ mboxes'[z].free = mboxes[z].free
    <3>1. PICK m \in MboxRec :
            /\ m = Took(mboxes[b]) /\ m.freed = mboxes[b].freed
            /\ m.queued = mboxes[b].queued /\ m.free = mboxes[b].free
      BY <1>2, TookTyped
    <3>2. mboxes' = [mboxes EXCEPT ![b] = m]
      BY <1>4, <3>1
    <3> QED
      BY <1>2, <3>1, <3>2
  <2>8. got' \in [Client -> Nat]
    <3>1. got \in [Client -> Nat] /\ x.n \in Nat
      BY <1>2, <2>1 DEF Typed, Msg
    <3> QED
      BY <1>4, <3>1
  <2>9. Moves(t)
    BY <1>1, <1>3, <2>3, <2>5 DEF Moves, Goes
  <2>10. SamePools
    BY <1>1, <2>6, <2>7 DEF SamePools
  <2>11. Typed'
    BY <1>1, <1>2, <2>5, <2>6, <2>7, <2>8 DEF Typed
  <2> QED
    BY <1>1, <2>9, <2>10, <2>11, MovesInv
<1>5. CASE /\ t = Tcpip /\ th' = [th EXCEPT ![t] = FetchFrom(@, b)]
           /\ UNCHANGED <<mboxes, sems, got>>
  <2>1. PICK r \in ThreadRec : /\ r = FetchFrom(th[t], b)
                               /\ r.req = th[t].req /\ r.buf = th[t].buf
                               /\ r.pc = "sem" /\ r.then = "fetch"
    BY <1>1, <1>2, FetchTyped
  <2>2. th' = [th EXCEPT ![t] = r]
    BY <1>5, <2>1
  <2>3. /\ th' \in [Thread -> ThreadRec] /\ th'[t] = r
        /\ \A u \in Thread \ {t} : th'[u] = th[u]
    BY <1>2, <2>1, <2>2
  <2>4. Moves(t)
    BY <1>1, <1>3, <1>5, <2>1, <2>3 DEF Moves, Goes
  <2>5. SamePools
    BY <1>1, <1>5 DEF SamePools
  <2>6. Typed'
    BY <1>1, <1>2, <1>5, <2>3 DEF Typed
  <2> QED
    BY <1>1, <2>4, <2>5, <2>6, MovesInv
<1> QED
  BY <1>4, <1>5 DEF sys_arch_mbox_fetch

(* The tcpip thread carries out a request and fetches the next.            *)
LEMMA TcpipInv ==
  ASSUME IInv, tcpip_thread
  PROVE  IInv'
<1> DEFINE t == Tcpip
           x == th[t].msg
           c == x.who
           v == CASE x.kind = "socket" -> TRUE
                  [] x.kind = "close"  -> FALSE
                  [] OTHER             -> conn[c].pcb
<1>1. /\ t \in Thread /\ t \in Live /\ th[t] \in ThreadRec /\ t # Main /\ th[t].pc = "api"
  <2>1. Running(t) /\ th[t].pc = "api"
    BY DEF tcpip_thread
  <2>2. t \in Live /\ th[t] \in ThreadRec /\ t # Main
    BY <2>1, RunningThread, Constants
  <2> QED
    BY <2>1, <2>2, Constants
<1>2. /\ conn' = [conn EXCEPT ![c] = [conn[c] EXCEPT !.pcb = v]]
      /\ arrived' = IF x.kind = "socket" THEN [arrived EXCEPT ![c] = 0] ELSE arrived
      /\ got' = IF x.kind = "socket" THEN [got EXCEPT ![c] = 0] ELSE got
      /\ sems' = Signalled(sems, conn[c].op)
      /\ th' = Woken([th EXCEPT ![t] = FetchFrom(@, Box0)], sems, conn[c].op)
      /\ UNCHANGED <<sched, sem_free, mboxes, mbox_free, buse, yields, busy, lost,
                     panicked>>
  BY DEF tcpip_thread
<1>3. /\ Box0 \in Mbox /\ th \in [Thread -> ThreadRec] /\ Typed /\ Queued
      /\ conn \in [Client -> ConnRec] /\ arrived \in [Client -> Nat]
      /\ got \in [Client -> Nat] /\ 0 \in Nat
  BY SMTT(60), Constants DEF Box0, IInv, Typed
<1>4. Queued' /\ Live' = Live
  BY <1>2, <1>3 DEF Queued, Live, sched
<1>5. PICK r \in ThreadRec : /\ r = FetchFrom(th[t], Box0)
                             /\ r.req = th[t].req /\ r.buf = th[t].buf
                             /\ r.pc = "sem" /\ r.then = "fetch"
  BY <1>1, <1>3, FetchTyped
<1>6. th' = Woken([th EXCEPT ![t] = r], sems, conn[c].op)
  BY <1>2, <1>5
<1>7. /\ th' \in [Thread -> ThreadRec]
      /\ \A u \in Thread : th'[u].req = th[u].req /\ th'[u].buf = th[u].buf
      /\ \A u \in Thread \ {t} : th'[u].pc = th[u].pc /\ th'[u].then = th[u].then
      /\ th'[t].pc = r.pc /\ th'[t].then = r.then
  BY <1>1, <1>3, <1>5, <1>6, Tells
<1>8. /\ sems' \in [Sem -> SemRec] /\ \A z \in Sem : sems'[z].freed = sems[z].freed
  BY <1>2, <1>3, SignalledTyped
<1>9. /\ conn' \in [Client -> ConnRec]
      /\ \A d \in Client : /\ conn'[d].alive = conn[d].alive /\ conn'[d].op = conn[d].op
                           /\ conn'[d].recvmbox = conn[d].recvmbox
  <2>1. CASE c \in Client
    <3>1. conn[c] \in ConnRec /\ conn[c].pcb \in BOOLEAN
      BY <1>3, <2>1 DEF ConnRec
    <3>2. v \in BOOLEAN
      BY <3>1
    <3> HIDE DEF v
    <3>3. PICK e : e = [conn[c] EXCEPT !.pcb = v]
      OBVIOUS
    <3>4. /\ e \in ConnRec /\ e.alive = conn[c].alive /\ e.op = conn[c].op
          /\ e.recvmbox = conn[c].recvmbox
      BY <3>1, <3>2, <3>3 DEF ConnRec
    <3> QED
      BY <1>2, <1>3, <3>3, <3>4
  <2>2. CASE c \notin Client
    <3>1. conn' = conn
      BY <1>2, <1>3, <2>2
    <3> QED
      BY <1>3, <3>1
  <2> QED
    BY <2>1, <2>2
<1>10. arrived' \in [Client -> Nat] /\ got' \in [Client -> Nat]
  BY <1>2, <1>3
<1>11. Moves(t)
  BY <1>1, <1>4, <1>5, <1>7 DEF Moves, Goes
<1>12. SamePools
  BY <1>2, <1>8, <1>9 DEF SamePools
<1>13. Typed'
  BY <1>2, <1>3, <1>7, <1>8, <1>9, <1>10 DEF Typed
<1> QED
  BY <1>2, <1>11, <1>12, <1>13, MovesInv

(* The first part of serve_thread, where nothing is allocated.             *)
LEMMA StartsInv ==
  ASSUME IInv, NEW t \in Worker, t \in Live, th[t].req.kind # "socket",
         NEW r \in ThreadRec, r.req = th[t].req, r.buf = th[t].buf,
         r.pc \in {"sem", "done"}, r.pc = "sem" => r.then # "none",
         th' = [th EXCEPT ![t] = r], arrived' \in [Client -> Nat],
         UNCHANGED <<sched, pools, conn, buse, yields, busy, lost, got, panicked>>
  PROVE  IInv'
<1>1. t \in Thread /\ t # Main /\ t # Tcpip
  BY Constants
<1>2. Typed /\ Queued /\ th \in [Thread -> ThreadRec]
  BY DEF IInv, Typed
<1>3. /\ th' \in [Thread -> ThreadRec] /\ th'[t] = r
      /\ \A u \in Thread \ {t} : th'[u] = th[u]
  BY <1>1, <1>2
<1>4. Queued' /\ Live' = Live
  BY <1>2 DEF Queued, Live, sched
<1>5. Moves(t)
  <2>1. \A u \in Thread : th'[u].req = th[u].req /\ th'[u].buf = th[u].buf
    BY <1>3
  <2> QED
    BY <1>1, <1>3, <1>4, <2>1 DEF Moves, Goes
<1>6. SamePools
  BY DEF SamePools, pools
<1>7. Typed'
  BY <1>2, <1>3 DEF Typed, pools
<1> QED
  BY <1>5, <1>6, <1>7, MovesInv

(* The thread that makes a connection is the only one at work for its      *)
(* client, so the others' requests still fit.                              *)
LEMMA OpensInv ==
  ASSUME IInv, NEW t \in Worker, t \in Live, th[t].req.kind = "socket",
         th[t].pc = "start", netconn_alloc(th[t].req.who),
         NEW r \in ThreadRec, r.req = th[t].req, r.buf = th[t].buf,
         r.pc = "sem", r.then # "none", th' = [th EXCEPT ![t] = r],
         UNCHANGED <<sched, buse, yields, busy, lost, arrived, got, panicked>>
  PROVE  IInv'
<1> DEFINE c == th[t].req.who
<1>1. t \in Thread /\ t # Main /\ t # Tcpip /\ Worker \subseteq Thread
  BY Constants
<1>2. /\ Typed /\ Queued /\ th \in [Thread -> ThreadRec] /\ Owned /\ Listed /\ Counted
      /\ Held /\ BuffersAccounted
  BY DEF IInv, Typed
<1>3. c \in Client /\ ~conn[c].alive
  BY DEF IInv, Roles, Asked
<1>4. /\ sems' \in [Sem -> SemRec] /\ mboxes' \in [Mbox -> MboxRec]
      /\ conn' \in [Client -> ConnRec]
      /\ sem_free' \in Seq(Sem) /\ mbox_free' \in Seq(Mbox)
      /\ conn'[c].alive /\ \A d \in Client \ {c} : conn'[d] = conn[d]
      /\ Owned' /\ Listed' /\ Counted'
  BY <1>2, <1>3, AllocPools
<1>5. /\ th' \in [Thread -> ThreadRec] /\ th'[t] = r
      /\ \A u \in Thread \ {t} : th'[u] = th[u]
  BY <1>1, <1>2
<1>6. Queued' /\ Live' = Live
  BY <1>2 DEF Queued, Live, sched
<1>7. \A u \in Thread : th'[u].req = th[u].req /\ th'[u].buf = th[u].buf
  BY <1>5
<1>8. Goes(t)
  BY <1>1, <1>5, <1>6, <1>7 DEF Goes
<1>9. Roles'
  BY <1>8, GoesRoles
<1>10. Held' /\ BuffersAccounted'
  <2>1. Main \in Thread /\ th'[Main] = th[Main]
    BY <1>1, <1>5, Constants
  <2> QED
    BY <1>2, <1>6, <1>7, <2>1, HeldKept
<1>11. Asked'
  <2>1. ASSUME NEW u \in Worker \cap Live
        PROVE  LET q == th'[u].req IN
               /\ q.kind # "input" => q.who \in busy'
               /\ q.kind = "socket" => (conn'[q.who].alive <=> th'[u].pc # "start")
               /\ q.kind \in {"send", "recv", "close"} => conn'[q.who].alive
    <3>1. CASE u = t
      <4>1. /\ th'[u].req = th[t].req /\ th'[u].pc = "sem" /\ conn'[c].alive
            /\ busy' = busy /\ c \in busy /\ th[t].req.kind = "socket"
        <5>1. c \in busy
          BY DEF IInv, Asked
        <5> QED
          BY <1>4, <1>5, <3>1, <5>1
      <4> QED
        BY <4>1
    <3>2. CASE u # t
      <4>1. th'[u] = th[u] /\ th[u].req.who \in Client
        BY <1>1, <1>5, <3>2 DEF IInv, Roles
      <4>2. th[u].req.kind # "input" => th[u].req.who # c
        BY <3>2 DEF IInv, Asked
      <4>3. th[u].req.kind # "input" => conn'[th[u].req.who] = conn[th[u].req.who]
        BY <1>4, <4>1, <4>2
      <4>4. /\ th[u].req.kind # "input" => th[u].req.who \in busy
            /\ th[u].req.kind = "socket"
                 => (conn[th[u].req.who].alive <=> th[u].pc # "start")
            /\ th[u].req.kind \in {"send", "recv", "close"} => conn[th[u].req.who].alive
        BY DEF IInv, Asked
      <4>5. busy' = busy
        OBVIOUS
      <4> QED
        BY SMTT(60), <4>1, <4>3, <4>4, <4>5
    <3> QED
      BY <3>1, <3>2
  <2>2. \A u, w \in Worker \cap Live :
          /\ th'[u].req.kind # "input" /\ th'[w].req.kind # "input"
          /\ th'[u].req.who = th'[w].req.who
          => u = w
    BY <1>1, <1>7 DEF IInv, Asked
  <2> QED
    BY <1>6, <2>1, <2>2 DEF Asked
<1>12. Typed'
  BY <1>2, <1>4, <1>5 DEF Typed
<1> QED
  BY <1>4, <1>6, <1>9, <1>10, <1>11, <1>12 DEF IInv

(* The first part of serve_thread.                                         *)
LEMMA ServeThreadInv ==
  ASSUME IInv, NEW t \in Worker, serve_thread(t)
  PROVE  IInv'
<1> DEFINE q == th[t].req
           c == q.who
<1>1. /\ t \in Live /\ th[t] \in ThreadRec /\ th[t].pc = "start"
      /\ q.kind \in Request /\ c \in Client /\ q \in Msg
  <2>1. t \in Thread /\ Running(t) /\ th[t].pc = "start"
    BY Constants DEF serve_thread
  <2>2. t \in Live /\ th[t] \in ThreadRec
    BY <2>1, RunningThread
  <2> QED
    BY <2>1, <2>2 DEF IInv, Roles, ThreadRec
<1>2. /\ Typed /\ Box0 \in Mbox /\ conn[c].recvmbox \in Mbox /\ arrived \in [Client -> Nat]
  BY <1>1, Constants DEF IInv, Typed, ConnRec, Box0
<1>3. UNCHANGED <<sched, buse, yields, busy, lost, got, panicked>>
  BY DEF serve_thread
<1>4. ASSUME NEW b \in Mbox, NEW x \in Msg
      PROVE  \E r \in ThreadRec :
               /\ r = PostTo(th[t], b, x) /\ r.req = q /\ r.buf = th[t].buf
               /\ r.pc = "sem" /\ r.then = "post"
  BY <1>1, <1>2, PostTyped
<1>5. CASE /\ q.kind = "socket" /\ netconn_alloc(c)
           /\ th' = [th EXCEPT ![t] = PostTo(@, Box0, q)] /\ UNCHANGED arrived
  <2>1. PICK r \in ThreadRec :
           /\ r = PostTo(th[t], Box0, q) /\ r.req = q /\ r.buf = th[t].buf
           /\ r.pc = "sem" /\ r.then = "post"
    BY <1>1, <1>2, <1>4
  <2>2. th' = [th EXCEPT ![t] = r]
    BY <1>5, <2>1
  <2> QED
    BY <1>1, <1>3, <1>5, <2>1, <2>2, OpensInv
<1>6. CASE /\ q.kind \in {"send", "close"}
           /\ th' = [th EXCEPT ![t] = PostTo(@, Box0, q)]
           /\ UNCHANGED <<pools, conn, arrived>>
  <2>1. PICK r \in ThreadRec :
           /\ r = PostTo(th[t], Box0, q) /\ r.req = q /\ r.buf = th[t].buf
           /\ r.pc = "sem" /\ r.then = "post"
    BY <1>1, <1>2, <1>4
  <2>2. th' = [th EXCEPT ![t] = r] /\ arrived' \in [Client -> Nat] /\ q.kind # "socket"
    BY <1>2, <1>6, <2>1
  <2> QED
    BY <1>1, <1>3, <1>6, <2>1, <2>2, StartsInv
<1>7. CASE /\ q.kind = "recv"
           /\ th' = [th EXCEPT ![t] = FetchFrom(@, conn[c].recvmbox)]
           /\ UNCHANGED <<pools, conn, arrived>>
  <2>1. PICK r \in ThreadRec :
           /\ r = FetchFrom(th[t], conn[c].recvmbox) /\ r.req = q /\ r.buf = th[t].buf
           /\ r.pc = "sem" /\ r.then = "fetch"
    BY <1>1, <1>2, FetchTyped
  <2>2. th' = [th EXCEPT ![t] = r] /\ arrived' \in [Client -> Nat] /\ q.kind # "socket"
    BY <1>2, <1>7, <2>1
  <2> QED
    BY <1>1, <1>3, <1>7, <2>1, <2>2, StartsInv
<1>8. CASE /\ q.kind = "input"
           /\ arrived' = [arrived EXCEPT ![c] = @ + 1]
           /\ th' = [th EXCEPT ![t] = PostTo(@, conn[c].recvmbox,
                                        [kind |-> "data", who |-> c,
                                         n |-> arrived[c] + 1])]
           /\ UNCHANGED <<pools, conn>>
  <2>1. arrived[c] + 1 \in Nat
    <3>1. arrived[c] \in Nat
      BY <1>1, <1>2
    <3> QED
      BY SMTT(60), <3>1
  <2>2. PICK x : x = [kind |-> "data", who |-> c, n |-> arrived[c] + 1]
    OBVIOUS
  <2>3. x \in Msg
    BY <1>1, <2>1, <2>2 DEF Msg
  <2>4. PICK r \in ThreadRec :
           /\ r = PostTo(th[t], conn[c].recvmbox, x) /\ r.req = q /\ r.buf = th[t].buf
           /\ r.pc = "sem" /\ r.then = "post"
    BY <1>2, <1>4, <2>3
  <2>5. th' = [th EXCEPT ![t] = r] /\ q.kind # "socket"
    BY <1>8, <2>2, <2>4
  <2>6. arrived' \in [Client -> Nat]
    BY <1>1, <1>2, <1>8, <2>1
  <2> QED
    BY <1>1, <1>3, <1>8, <2>4, <2>5, <2>6, StartsInv
<1>9. CASE /\ q.kind = "input"
           /\ th' = [th EXCEPT ![t].pc = "done"]
           /\ UNCHANGED <<pools, conn, arrived>>
  <2>1. PICK r : r = [th[t] EXCEPT !.pc = "done"]
    OBVIOUS
  <2>2. r \in ThreadRec /\ r.req = q /\ r.buf = th[t].buf /\ r.pc = "done"
    BY <1>1, <2>1 DEF ThreadRec
  <2>3. th' = [th EXCEPT ![t] = r] /\ arrived' \in [Client -> Nat] /\ q.kind # "socket"
    BY <1>2, <1>9, <2>1
  <2> QED
    BY <1>1, <1>3, <1>9, <2>2, <2>3, StartsInv
<1> QED
  BY <1>5, <1>6, <1>7, <1>8, <1>9 DEF serve_thread

(* A thread that ends takes one buffer with it.                            *)
LEMMA EndsAccounted ==
  ASSUME IInv, NEW t \in Worker, t \in Live, Live' = Live \ {t},
         buse' = buse \ {th[t].buf}, lost' = lost, th'[Main].buf = th[Main].buf
  PROVE  BuffersAccounted'
<1>1. IsFiniteSet(buse) /\ th[t].buf \in buse
  <2>1. buse \subseteq Buffer /\ th[t].buf \in buse
    BY DEF IInv, Typed, Held
  <2> QED
    BY <2>1, Constants, FS_Subset
<1>2. Cardinality(buse') = Cardinality(buse) - 1 /\ Cardinality(buse) \in Nat
  BY <1>1, FS_RemoveElement, FS_CardinalityType
<1>3. PICK W : W = Worker \cap Live
  OBVIOUS
<1>4. IsFiniteSet(W) /\ t \in W
  BY <1>3, Constants, FS_Subset
<1>5. Cardinality(W \ {t}) = Cardinality(W) - 1 /\ Cardinality(W) \in Nat
  BY <1>4, FS_RemoveElement, FS_CardinalityType
<1>6. Worker \cap Live' = W \ {t}
  BY <1>3
<1>7. PICK m \in {0, 1} : m = IF th[Main].buf = 0 THEN 0 ELSE 1
  OBVIOUS
<1>8. Cardinality(buse) = lost + m + Cardinality(W) /\ lost \in Nat
  BY <1>3, <1>7 DEF IInv, BuffersAccounted, Live, Typed
<1>9. Cardinality(buse') = lost + m + Cardinality(W \ {t})
  BY SMTT(60), <1>2, <1>5, <1>8
<1> QED
  BY <1>6, <1>7, <1>9 DEF BuffersAccounted, Live

(* What the others ask for is not touched by the end of a thread.          *)
LEMMA EndsInv ==
  ASSUME IInv, NEW t \in Worker, t = cur, thread_halt, Typed',
         \A u \in Thread \ {t} :
           /\ th'[u].req = th[u].req /\ th'[u].buf = th[u].buf
           /\ th'[u].pc = th[u].pc /\ th'[u].then = th[u].then,
         buse' = buse \ {th[t].buf}, lost' = lost,
         busy' = IF th[t].req.kind = "input" THEN busy ELSE busy \ {th[t].req.who},
         \A d \in Client : \/ conn'[d].alive = conn[d].alive
                           \/ th[t].req.kind # "input" /\ d = th[t].req.who,
         Owned', Listed', Counted'
  PROVE  IInv'
<1>1. /\ Main \in Thread \ {t} /\ Tcpip \in Thread \ {t} /\ Worker \subseteq Thread
      /\ t \in Live
  BY Constants DEF Live
<1>2. Queued' /\ Live' = Live \ {t}
  BY Halts DEF IInv
<1>3. \A u \in Worker \cap Live' : u \in Thread \ {t} /\ u \in Worker \cap Live
  BY <1>1, <1>2
<1>4. Roles'
  <2>1. /\ th'[Main].pc = th[Main].pc /\ th'[Tcpip].pc = th[Tcpip].pc
        /\ th'[Tcpip].then = th[Tcpip].then
    BY <1>1
  <2>2. ASSUME NEW u \in Worker \cap Live'
        PROVE  /\ th'[u].pc \in {"start", "sem", "asleep", "post", "fetch", "done"}
               /\ th'[u].pc \in {"sem", "asleep"} => th'[u].then # "none"
               /\ th'[u].req.kind \in Request /\ th'[u].req.who \in Client
    <3>1. /\ th'[u].req = th[u].req /\ th'[u].pc = th[u].pc /\ th'[u].then = th[u].then
          /\ u \in Worker \cap Live
      BY <1>3
    <3> QED
      BY <3>1 DEF IInv, Roles
  <2>3. /\ th[Main].pc \in {"flush", "recv", "timer"}
        /\ th[Tcpip].pc \in {"sem", "asleep", "fetch", "api"}
        /\ th[Tcpip].pc \in {"sem", "asleep"} => th[Tcpip].then = "fetch"
    BY DEF IInv, Roles
  <2> QED
    BY <2>1, <2>2, <2>3 DEF Roles
<1>5. Held'
  <2>1. th'[Main].pc = th[Main].pc /\ th'[Main].buf = th[Main].buf
    BY <1>1
  <2>2. th[t].buf # th[Main].buf /\ \A u \in Worker \cap Live : u # t => th[u].buf # th[t].buf
    BY <1>1 DEF IInv, Held
  <2>3. /\ th'[Main].pc = "flush" <=> th'[Main].buf = 0
        /\ th'[Main].buf # 0 => th'[Main].buf \in buse'
    BY <2>1, <2>2 DEF IInv, Held
  <2>4. ASSUME NEW u \in Worker \cap Live'
        PROVE  th'[u].buf \in buse' /\ th'[u].buf # th'[Main].buf
    <3>1. u \in Worker \cap Live /\ u # t /\ th'[u].buf = th[u].buf
      BY <1>3
    <3>2. th[u].buf \in buse /\ th[u].buf # th[Main].buf
      BY <3>1 DEF IInv, Held
    <3> QED
      BY <2>1, <2>2, <3>1, <3>2
  <2>5. ASSUME NEW u \in Worker \cap Live', NEW w \in Worker \cap Live',
               th'[u].buf = th'[w].buf
        PROVE  u = w
    <3>1. /\ u \in Worker \cap Live /\ th'[u].buf = th[u].buf
          /\ w \in Worker \cap Live /\ th'[w].buf = th[w].buf
      BY <1>3
    <3>2. th[u].buf = th[w].buf
      BY <2>5, <3>1
    <3> QED
      BY <3>1, <3>2 DEF IInv, Held
  <2> QED
    BY <2>3, <2>4, <2>5 DEF Held
<1>6. BuffersAccounted'
  BY <1>1, <1>2, EndsAccounted
<1>7. Asked'
  <2>1. ASSUME NEW u \in Worker \cap Live'
        PROVE  LET q == th'[u].req IN
               /\ q.kind # "input" => q.who \in busy'
               /\ q.kind = "socket" => (conn'[q.who].alive <=> th'[u].pc # "start")
               /\ q.kind \in {"send", "recv", "close"} => conn'[q.who].alive
    <3>1. /\ th'[u].req = th[u].req /\ th'[u].pc = th[u].pc
          /\ u \in Worker \cap Live /\ u # t
      BY <1>3
    <3>2. /\ th[u].req.kind # "input" => th[u].req.who \in busy
          /\ th[u].req.kind = "socket"
               => (conn[th[u].req.who].alive <=> th[u].pc # "start")
          /\ th[u].req.kind \in {"send", "recv", "close"} => conn[th[u].req.who].alive
          /\ th[u].req.who \in Client
      BY <3>1 DEF IInv, Asked, Roles
    <3>3. th[u].req.kind # "input" /\ th[t].req.kind # "input"
            => th[u].req.who # th[t].req.who
      BY <1>1, <3>1 DEF IInv, Asked
    <3>4. th[u].req.kind # "input" => /\ th[u].req.who \in busy'
                                      /\ conn'[th[u].req.who].alive = conn[th[u].req.who].alive
      BY <3>2, <3>3
    <3> QED
      BY SMTT(60), <3>1, <3>2, <3>4
  <2>2. ASSUME NEW u \in Worker \cap Live', NEW w \in Worker \cap Live',
               th'[u].req.kind # "input", th'[w].req.kind # "input",
               th'[u].req.who = th'[w].req.who
        PROVE  u = w
    <3>1. /\ u \in Worker \cap Live /\ th'[u].req = th[u].req
          /\ w \in Worker \cap Live /\ th'[w].req = th[w].req
      BY <1>3
    <3>2. /\ th[u].req.kind # "input" /\ th[w].req.kind # "input"
          /\ th[u].req.who = th[w].req.who
      BY <2>2, <3>1
    <3> QED
      BY <3>1, <3>2 DEF IInv, Asked
  <2> QED
    BY <2>1, <2>2 DEF Asked
<1> QED
  BY <1>2, <1>4, <1>5, <1>6, <1>7 DEF IInv

(* The end of serve_thread.                                                *)
LEMMA ServeThreadEndInv ==
  ASSUME IInv, NEW t \in Worker, serve_thread_end(t)
  PROVE  IInv'
<1> DEFINE r == th[t].req
<1>1. /\ t \in Thread /\ t = cur /\ t \in Live /\ th[t] \in ThreadRec /\ r.kind \in Request
      /\ r.who \in Client /\ th[t].pc = "done"
  <2>1. t \in Thread /\ Running(t) /\ th[t].pc = "done"
    BY Constants DEF serve_thread_end
  <2>2. t \in Live /\ th[t] \in ThreadRec /\ t = cur
    BY <2>1, RunningThread
  <2> QED
    BY <2>1, <2>2 DEF IInv, Roles
<1>2. /\ busy' = IF r.kind = "input" THEN busy ELSE busy \ {r.who}
      /\ buse' = buse \ {th[t].buf} /\ thread_halt
      /\ UNCHANGED <<yields, lost, arrived, got, panicked>>
  BY DEF serve_thread_end
<1>3. Typed /\ th \in [Thread -> ThreadRec] /\ Owned /\ Listed /\ Counted
  BY DEF IInv, Typed
<1>4. NoThread \in ThreadRec
  <2>1. NoMsg \in Msg /\ 0 \in Nat
    BY SMTT(60) DEF NoMsg, Msg
  <2> QED
    BY <2>1, Constants DEF NoThread, ThreadRec
<1>5. PICK T : T = [th EXCEPT ![t] = NoThread]
  OBVIOUS
<1>6. T \in [Thread -> ThreadRec] /\ \A u \in Thread \ {t} : T[u] = th[u]
  BY <1>3, <1>4, <1>5
<1>7. busy' \subseteq Client /\ buse' \subseteq Buffer
  BY <1>2, <1>3 DEF Typed
<1>8. CASE r.kind = "close" /\ netconn_free(T, r.who)
  <2>1. conn[r.who].alive
    BY <1>1, <1>8 DEF IInv, Asked
  <2>2. /\ sems' \in [Sem -> SemRec] /\ mboxes' \in [Mbox -> MboxRec]
        /\ conn' \in [Client -> ConnRec]
        /\ sem_free' \in Seq(Sem) /\ mbox_free' \in Seq(Mbox)
        /\ ~conn'[r.who].alive /\ \A d \in Client \ {r.who} : conn'[d] = conn[d]
        /\ Owned' /\ Listed' /\ Counted'
        /\ th' \in [Thread -> ThreadRec]
        /\ \A u \in Thread :
              /\ th'[u].req = T[u].req /\ th'[u].buf = T[u].buf
              /\ th'[u].pc = T[u].pc /\ th'[u].then = T[u].then
    BY <1>1, <1>3, <1>6, <1>8, <2>1, FreePools
  <2>3. Typed'
    BY <1>2, <1>3, <1>7, <2>2 DEF Typed
  <2>4. \A u \in Thread \ {t} :
           /\ th'[u].req = th[u].req /\ th'[u].buf = th[u].buf
           /\ th'[u].pc = th[u].pc /\ th'[u].then = th[u].then
    BY <1>6, <2>2
  <2>5. \A d \in Client : \/ conn'[d].alive = conn[d].alive
                          \/ r.kind # "input" /\ d = r.who
    BY <1>8, <2>2
  <2> QED
    BY <1>1, <1>2, <2>2, <2>3, <2>4, <2>5, EndsInv
<1>9. CASE r.kind # "close" /\ th' = T /\ UNCHANGED <<pools, conn>>
  <2>1. SamePools
    BY <1>9 DEF SamePools, pools
  <2>2. Owned' /\ Listed' /\ Counted'
    BY <1>3, <2>1, PoolsKept
  <2>3. Typed'
    BY <1>2, <1>3, <1>6, <1>7, <1>9 DEF Typed, pools
  <2>4. \A u \in Thread \ {t} :
           /\ th'[u].req = th[u].req /\ th'[u].buf = th[u].buf
           /\ th'[u].pc = th[u].pc /\ th'[u].then = th[u].then
    BY <1>6, <1>9
  <2>5. \A d \in Client : \/ conn'[d].alive = conn[d].alive
                          \/ r.kind # "input" /\ d = r.who
    BY <1>9
  <2> QED
    BY <1>1, <1>2, <2>2, <2>3, <2>4, <2>5, EndsInv
<1> QED
  BY <1>5, <1>8, <1>9 DEF serve_thread_end

-----------------------------------------------------------------------------
(* The main thread. *)

(* A step of the main thread concerns it and its buffer alone.             *)
LEMMA MainInv ==
  ASSUME IInv, Typed', Queued', Live' = Live, UNCHANGED <<pools, conn, busy>>,
         \A u \in Thread \ {Main} : th'[u] = th[u],
         th'[Main].pc \in {"flush", "recv", "timer"},
         th'[Main].pc = "flush" <=> th'[Main].buf = 0,
         th'[Main].buf # 0 => th'[Main].buf \in buse',
         \A u \in Worker \cap Live : th[u].buf \in buse' /\ th[u].buf # th'[Main].buf,
         BuffersAccounted'
  PROVE  IInv'
<1>1. /\ Tcpip \in Thread \ {Main} /\ Worker \subseteq Thread \ {Main}
  BY Constants
<1>2. th'[Tcpip] = th[Tcpip] /\ \A u \in Worker \cap Live : th'[u] = th[u]
  BY <1>1
<1>3. Roles'
  BY <1>2 DEF IInv, Roles
<1>4. Held'
  <2>1. \A u \in Worker \cap Live : th'[u].buf \in buse' /\ th'[u].buf # th'[Main].buf
    BY <1>2
  <2>2. \A u, w \in Worker \cap Live : th'[u].buf = th'[w].buf => u = w
    BY <1>2 DEF IInv, Held
  <2> QED
    BY <2>1, <2>2 DEF Held
<1>5. Asked'
  <2>1. Asked /\ conn' = conn /\ busy' = busy
    BY DEF IInv
  <2> QED
    BY <1>2, <2>1 DEF Asked
<1>6. SamePools
  BY DEF SamePools, pools
<1>7. Owned' /\ Listed' /\ Counted'
  BY <1>6, PoolsKept DEF IInv
<1> QED
  BY <1>3, <1>4, <1>5, <1>7 DEF IInv

(* What the invariant says of the main thread.                             *)
LEMMA MainState ==
  ASSUME IInv
  PROVE  /\ Main \in Thread /\ th \in [Thread -> ThreadRec] /\ th[Main] \in ThreadRec
         /\ Typed /\ Queued
         /\ th[Main].pc = "flush" <=> th[Main].buf = 0
         /\ th[Main].buf # 0 => th[Main].buf \in buse
         /\ th[Main].pc \in {"flush", "recv", "timer"}
         /\ \A u \in Worker \cap Live : /\ th[u].buf \in buse /\ th[u].buf # th[Main].buf
                                        /\ th[u].buf # 0
         /\ IsFiniteSet(buse) /\ buse \subseteq Buffer /\ Cardinality(buse) \in Nat
         /\ lost \in Nat /\ Cardinality(Worker \cap Live) \in Nat
         /\ Cardinality(buse) = lost + (IF th[Main].buf = 0 THEN 0 ELSE 1)
                                + Cardinality(Worker \cap Live)
<1>1. /\ Main \in Thread /\ th \in [Thread -> ThreadRec] /\ th[Main] \in ThreadRec
      /\ Typed /\ Queued /\ buse \subseteq Buffer /\ lost \in Nat
  BY Constants DEF IInv, Typed
<1>2. /\ th[Main].pc = "flush" <=> th[Main].buf = 0
      /\ th[Main].buf # 0 => th[Main].buf \in buse
      /\ th[Main].pc \in {"flush", "recv", "timer"}
  BY DEF IInv, Held, Roles
<1>3. \A u \in Worker \cap Live : /\ th[u].buf \in buse /\ th[u].buf # th[Main].buf
                                  /\ th[u].buf # 0
  BY <1>1, Constants DEF IInv, Held
<1>4. IsFiniteSet(buse) /\ Cardinality(buse) \in Nat
  BY <1>1, Constants, FS_Subset, FS_CardinalityType
<1>5. Cardinality(Worker \cap Live) \in Nat
  <2>1. IsFiniteSet(Worker \cap Live)
    BY Constants, FS_Subset
  <2> QED
    BY <2>1, FS_CardinalityType
<1>6. Cardinality(buse) = lost + (IF th[Main].buf = 0 THEN 0 ELSE 1)
                          + Cardinality(Worker \cap Live)
  BY DEF IInv, BuffersAccounted, Live
<1> QED
  BY <1>1, <1>2, <1>3, <1>4, <1>5, <1>6

(* flush: the main thread gives way.                                       *)
LEMMA FlushInv ==
  ASSUME IInv, flush
  PROVE  IInv'
<1>1. /\ thread_yield
      /\ UNCHANGED <<th, pools, conn, buse, busy, lost, arrived, got, panicked>>
  BY DEF flush
<1>2. Queued' /\ Live' = Live
  BY <1>1, Yields DEF IInv
<1>3. Typed'
  BY <1>1 DEF IInv, Typed, pools
<1>4. BuffersAccounted'
  BY <1>1, <1>2 DEF IInv, BuffersAccounted, Live
<1> QED
  BY <1>1, <1>2, <1>3, <1>4, MainState, MainInv

(* process_timer gives way with its buffer.                                *)
LEMMA TimerInv ==
  ASSUME IInv, process_timer
  PROVE  IInv'
<1>1. /\ thread_yield /\ th[Main].pc = "recv" /\ th' = [th EXCEPT ![Main].pc = "timer"]
      /\ UNCHANGED <<pools, conn, buse, yields, busy, lost, arrived, got, panicked>>
  BY DEF process_timer
<1>2. Queued' /\ Live' = Live
  BY <1>1, Yields DEF IInv
<1>3. PICK r : r = [th[Main] EXCEPT !.pc = "timer"]
  OBVIOUS
<1>4. r \in ThreadRec /\ r.pc = "timer" /\ r.buf = th[Main].buf
  BY <1>3, MainState DEF ThreadRec
<1>5. /\ th' \in [Thread -> ThreadRec] /\ th'[Main] = r
      /\ \A u \in Thread \ {Main} : th'[u] = th[u]
  BY <1>1, <1>3, <1>4, MainState
<1>6. Typed'
  BY <1>1, <1>5, MainState DEF Typed, pools
<1>7. th'[Main].pc = "timer" /\ th'[Main].buf = th[Main].buf
  BY <1>4, <1>5
<1>8. BuffersAccounted'
  BY <1>1, <1>2, <1>7 DEF IInv, BuffersAccounted, Live
<1>9. /\ th'[Main].pc = "flush" <=> th'[Main].buf = 0
      /\ th'[Main].buf # 0 => th'[Main].buf \in buse'
      /\ th'[Main].pc \in {"flush", "recv", "timer"}
  <2>1. th[Main].buf # 0 /\ th[Main].buf \in buse
    BY <1>1, MainState
  <2> QED
    BY SMTT(60), <1>1, <1>7, <2>1
<1>10. \A u \in Worker \cap Live : th[u].buf \in buse' /\ th[u].buf # th'[Main].buf
  BY <1>1, <1>7, MainState
<1> QED
  BY <1>1, <1>2, <1>5, <1>6, <1>8, <1>9, <1>10, MainInv

(* The main thread's buffer is lost, or given back.                        *)
LEMMA DropInv ==
  ASSUME IInv, th[Main].pc \in {"recv", "timer"},
         th' = [th EXCEPT ![Main].pc = "flush", ![Main].buf = 0],
         UNCHANGED <<sched, pools, conn, busy, arrived, got>>,
         \/ lost' = lost + 1 /\ buse' = buse
         \/ lost' = lost /\ buse' = buse \ {th[Main].buf}
  PROVE  IInv'
<1>1. PICK r : r = [th[Main] EXCEPT !.pc = "flush", !.buf = 0]
  OBVIOUS
<1>2. r \in ThreadRec /\ r.pc = "flush" /\ r.buf = 0
  BY <1>1, MainState, Constants DEF ThreadRec
<1>3. /\ th' \in [Thread -> ThreadRec] /\ th'[Main] = r
      /\ \A u \in Thread \ {Main} : th'[u] = th[u]
  <2>1. th' = [th EXCEPT ![Main] = r]
    BY <1>1, MainState
  <2> QED
    BY <1>2, <2>1, MainState
<1>4. Queued' /\ Live' = Live
  BY MainState DEF Queued, Live, sched
<1>5. buse' \subseteq buse /\ lost' \in Nat
  <2>1. lost + 1 \in Nat
    BY SMTT(60), MainState
  <2> QED
    BY <2>1, MainState
<1>6. Typed'
  BY <1>3, <1>5, MainState DEF Typed, pools
<1>7. th'[Main].pc = "flush" /\ th'[Main].buf = 0
  BY <1>2, <1>3
<1>8. th[Main].buf # 0 /\ th[Main].buf \in buse
  BY MainState
<1>9. \A u \in Worker \cap Live : th[u].buf \in buse' /\ th[u].buf # th'[Main].buf
  BY <1>7, MainState
<1>10. BuffersAccounted'
  <2>1. PICK n \in Nat : n = Cardinality(Worker \cap Live)
    BY MainState
  <2>2. Cardinality(buse) = lost + 1 + n /\ lost \in Nat /\ Cardinality(buse) \in Nat
    BY <1>8, <2>1, MainState
  <2>3. Cardinality(buse') = lost' + n
    <3>1. CASE lost' = lost + 1 /\ buse' = buse
      BY SMTT(60), <2>2, <3>1
    <3>2. CASE lost' = lost /\ buse' = buse \ {th[Main].buf}
      <4>1. Cardinality(buse') = Cardinality(buse) - 1
        BY <1>8, <3>2, MainState, FS_RemoveElement
      <4> QED
        BY SMTT(60), <2>2, <3>2, <4>1
    <3> QED
      BY <3>1, <3>2
  <2>4. Cardinality(buse') = lost' + 0 + n
    BY SMTT(60), <1>5, <2>3
  <2> QED
    BY <1>4, <1>7, <2>1, <2>4 DEF BuffersAccounted, Live
<1> QED
  BY <1>3, <1>4, <1>6, <1>7, <1>9, <1>10, MainInv

(* Steps that change nothing the invariant speaks of.                      *)
LEMMA IdleInv ==
  ASSUME IInv, UNCHANGED <<cur, queue, kill, th, sems, sem_free, mboxes, mbox_free,
                           conn, buse, busy, lost, arrived, got>>
  PROVE  IInv'
<1>1. Typed' /\ Queued' /\ Live' = Live
  BY DEF IInv, Typed, Queued, Live
<1>2. BuffersAccounted' /\ UNCHANGED <<pools, conn, busy>>
  BY DEF IInv, BuffersAccounted, pools
<1> QED
  BY <1>1, <1>2, MainState, MainInv

(* get_buffer takes a buffer nobody has, or panics.                        *)
LEMMA GetBufferInv ==
  ASSUME IInv, get_buffer
  PROVE  IInv'
<1>1. CASE panic("NS: buffer overflow")
  BY <1>1, IdleInv DEF panic
<1>2. ASSUME NEW b \in Buffer, FreeBuffer(b), buse' = buse \cup {b},
             th' = [th EXCEPT ![Main].pc = "recv", ![Main].buf = b],
             UNCHANGED <<sched, pools, conn, busy, lost, arrived, got, panicked>>
      PROVE  IInv'
  <2>1. th[Main].pc = "flush" /\ th[Main].buf = 0 /\ b \notin buse /\ b # 0
        /\ b \in 0 .. QUEUE_SIZE
    BY <1>2, MainState, Constants DEF get_buffer, FreeBuffer
  <2>2. PICK r : r = [th[Main] EXCEPT !.pc = "recv", !.buf = b]
    OBVIOUS
  <2>3. r \in ThreadRec /\ r.pc = "recv" /\ r.buf = b
    BY <2>1, <2>2, MainState DEF ThreadRec
  <2>4. /\ th' \in [Thread -> ThreadRec] /\ th'[Main] = r
        /\ \A u \in Thread \ {Main} : th'[u] = th[u]
    <3>1. th' = [th EXCEPT ![Main] = r]
      BY <1>2, <2>2, MainState
    <3> QED
      BY <2>3, <3>1, MainState
  <2>5. Queued' /\ Live' = Live
    BY <1>2, MainState DEF Queued, Live, sched
  <2>6. Typed'
    BY <1>2, <2>4, MainState DEF Typed, pools
  <2>7. th'[Main].pc = "recv" /\ th'[Main].buf = b
    BY <2>3, <2>4
  <2>8. \A u \in Worker \cap Live : th[u].buf \in buse' /\ th[u].buf # th'[Main].buf
    BY <1>2, <2>1, <2>7, MainState
  <2>9. BuffersAccounted'
    <3>1. PICK n \in Nat : n = Cardinality(Worker \cap Live)
      BY MainState
    <3>2. Cardinality(buse) = lost + 0 + n /\ lost \in Nat
      BY <2>1, <3>1, MainState
    <3>3. Cardinality(buse') = Cardinality(buse) + 1
      BY <1>2, <2>1, MainState, FS_AddElement
    <3>4. Cardinality(buse') = lost + 1 + n
      BY SMTT(60), <3>2, <3>3
    <3> QED
      BY <1>2, <2>1, <2>5, <2>7, <3>1, <3>4 DEF BuffersAccounted, Live
  <2>10. /\ th'[Main].pc = "flush" <=> th'[Main].buf = 0
         /\ th'[Main].buf # 0 => th'[Main].buf \in buse'
         /\ th'[Main].pc \in {"flush", "recv", "timer"}
    BY SMTT(60), <1>2, <2>1, <2>7
  <2> QED
    BY <1>2, <2>4, <2>5, <2>6, <2>8, <2>9, <2>10, MainInv
<1> QED
  BY <1>1, <1>2 DEF get_buffer

(* A new thread takes over the main thread's buffer.                       *)
LEMMA CreatesAccounted ==
  ASSUME IInv, NEW t \in Worker, t \notin Live, Live' = Live \cup {t},
         th[Main].buf # 0, th'[Main].buf = 0, buse' = buse, lost' = lost
  PROVE  BuffersAccounted'
<1>1. PICK W : W = Worker \cap Live
  OBVIOUS
<1>2. IsFiniteSet(W) /\ t \notin W /\ Cardinality(W) \in Nat
  BY <1>1, Constants, FS_Subset, FS_CardinalityType
<1>3. Cardinality(W \cup {t}) = Cardinality(W) + 1
  BY <1>2, FS_AddElement
<1>4. Worker \cap Live' = W \cup {t}
  BY <1>1
<1>5. Cardinality(buse) = lost + 1 + Cardinality(W) /\ lost \in Nat
  BY <1>1, MainState
<1>6. Cardinality(buse) = lost + 0 + Cardinality(W \cup {t})
  BY SMTT(60), <1>2, <1>3, <1>5
<1> QED
  BY <1>4, <1>6 DEF BuffersAccounted, Live

(* serve: a thread for the request of a client that waits for no other.    *)
LEMMA ServeInv ==
  ASSUME IInv, NEW c \in Client, NEW kind \in Request, serve(c, kind)
  PROVE  IInv'
<1> DEFINE m == [kind |-> kind, who |-> c, n |-> 0]
           b == th[Main].buf
           New == [NoThread EXCEPT !.pc = "start", !.req = m, !.buf = b]
<1>1. /\ th[Main].pc = "recv" /\ Asks(c, kind)
      /\ busy' = IF kind = "input" THEN busy ELSE busy \cup {c}
      /\ UNCHANGED <<pools, conn, buse, yields, lost, arrived, got, panicked>>
  BY DEF serve
<1>2. PICK t \in Spare :
        thread_create([th EXCEPT ![Main].pc = "flush", ![Main].buf = 0], t, m, b)
  BY DEF serve
<1>3. t \in Worker /\ t \notin Live /\ t \in Thread /\ t # Main /\ t # Tcpip
  BY Constants DEF Spare, Live
<1>4. Queued' /\ Live' = Live \cup {t}
  BY <1>2, <1>3, Creates, MainState DEF thread_create
<1>5. b # 0 /\ b \in buse /\ b \in 0 .. QUEUE_SIZE
  BY <1>1, MainState, Constants
<1>6. m \in Msg /\ m.kind = kind /\ m.who = c
  <2>1. 0 \in Nat
    BY SMTT(60)
  <2> QED
    BY <2>1 DEF Msg
<1>7. New \in ThreadRec /\ New.pc = "start" /\ New.req = m /\ New.buf = b
  <2>1. NoMsg \in Msg /\ 0 \in Nat
    BY SMTT(60) DEF NoMsg, Msg
  <2>2. NoThread \in ThreadRec
    BY <2>1, Constants DEF NoThread, ThreadRec
  <2>3. PICK r \in ThreadRec : r = NoThread
    BY <2>2
  <2> HIDE DEF m, b
  <2>4. New = [r EXCEPT !.pc = "start", !.req = m, !.buf = b]
    BY <2>3
  <2> HIDE DEF New
  <2> QED
    BY <1>5, <1>6, <2>4 DEF ThreadRec
<1>8. PICK r : r = [th[Main] EXCEPT !.pc = "flush", !.buf = 0]
  OBVIOUS
<1>9. r \in ThreadRec /\ r.pc = "flush" /\ r.buf = 0
  BY <1>8, MainState, Constants DEF ThreadRec
<1>10. /\ th' \in [Thread -> ThreadRec] /\ th'[Main] = r /\ th'[t] = New
       /\ \A u \in Thread \ {Main, t} : th'[u] = th[u]
  <2>1. PICK T : T = [th EXCEPT ![Main].pc = "flush", ![Main].buf = 0]
    OBVIOUS
  <2>2. T = [th EXCEPT ![Main] = r]
    BY <1>8, <2>1, MainState
  <2>3. T \in [Thread -> ThreadRec] /\ T[Main] = r /\ \A u \in Thread \ {Main} : T[u] = th[u]
    BY <1>9, <2>2, MainState
  <2>4. th' = [T EXCEPT ![t] = New]
    BY <1>2, <2>1 DEF thread_create
  <2> HIDE DEF New
  <2> QED
    BY <1>3, <1>7, <2>3, <2>4, MainState
<1> HIDE DEF New, m
<1>11. /\ Tcpip \in Thread \ {Main, t} /\ Worker \cap Live \subseteq Thread \ {Main, t}
       /\ Worker \cap Live' = (Worker \cap Live) \cup {t}
  BY <1>3, <1>4, Constants
<1>12. th'[Tcpip] = th[Tcpip] /\ \A u \in Worker \cap Live : th'[u] = th[u]
  BY <1>10, <1>11
<1>13. Typed'
  <2>1. busy' \subseteq Client
    BY <1>1, MainState DEF Typed
  <2> QED
    BY <1>1, <1>10, <2>1, MainState DEF Typed, pools
<1>14. Roles'
  <2>1. th'[Main].pc = "flush"
    BY <1>9, <1>10
  <2>2. /\ th'[Tcpip].pc \in {"sem", "asleep", "fetch", "api"}
        /\ th'[Tcpip].pc \in {"sem", "asleep"} => th'[Tcpip].then = "fetch"
    BY <1>12 DEF IInv, Roles
  <2>3. ASSUME NEW u \in Worker \cap Live'
        PROVE  /\ th'[u].pc \in {"start", "sem", "asleep", "post", "fetch", "done"}
               /\ th'[u].pc \in {"sem", "asleep"} => th'[u].then # "none"
               /\ th'[u].req.kind \in Request /\ th'[u].req.who \in Client
    <3>1. CASE u = t
      <4>1. th'[u].pc = "start" /\ th'[u].req.kind = kind /\ th'[u].req.who = c
        BY <1>6, <1>7, <1>10, <3>1
      <4> QED
        BY <4>1
    <3>2. CASE u \in Worker \cap Live
      BY <1>12, <3>2 DEF IInv, Roles
    <3> QED
      BY <1>11, <3>1, <3>2
  <2> QED
    BY <2>1, <2>2, <2>3 DEF Roles
<1>15. Held'
  <2>1. th'[Main].pc = "flush" /\ th'[Main].buf = 0 /\ th'[t].buf = b /\ buse' = buse
    BY <1>1, <1>7, <1>9, <1>10
  <2>2. \A u \in Worker \cap Live : /\ th'[u].buf = th[u].buf /\ th[u].buf \in buse
                                    /\ th[u].buf # b /\ th[u].buf # 0
    BY <1>12, MainState
  <2> HIDE DEF b
  <2>3. \A u \in Worker \cap Live' : th'[u].buf \in buse' /\ th'[u].buf # th'[Main].buf
    BY <1>5, <1>11, <2>1, <2>2
  <2>4. ASSUME NEW u \in Worker \cap Live', NEW w \in Worker \cap Live',
               th'[u].buf = th'[w].buf
        PROVE  u = w
    <3>1. CASE u = t /\ w = t
      BY <3>1
    <3>2. CASE u = t /\ w \in Worker \cap Live
      BY <2>1, <2>2, <2>4, <3>2
    <3>3. CASE u \in Worker \cap Live /\ w = t
      BY <2>1, <2>2, <2>4, <3>3
    <3>4. CASE u \in Worker \cap Live /\ w \in Worker \cap Live
      <4>1. th[u].buf = th[w].buf
        BY <2>2, <2>4, <3>4
      <4> QED
        BY <3>4, <4>1 DEF IInv, Held
    <3> QED
      BY <1>11, <3>1, <3>2, <3>3, <3>4
  <2> QED
    BY <2>1, <2>3, <2>4 DEF Held
<1>16. BuffersAccounted'
  BY <1>1, <1>3, <1>4, <1>5, <1>9, <1>10, CreatesAccounted
<1>17. /\ kind # "input" => c \notin busy
       /\ kind = "socket" => ~conn[c].alive
       /\ kind \in {"send", "recv", "close"} => conn[c].alive
  BY <1>1 DEF Asks, Request
<1>18. Asked'
  <2>1. ASSUME NEW u \in Worker \cap Live'
        PROVE  LET q == th'[u].req IN
               /\ q.kind # "input" => q.who \in busy'
               /\ q.kind = "socket" => (conn'[q.who].alive <=> th'[u].pc # "start")
               /\ q.kind \in {"send", "recv", "close"} => conn'[q.who].alive
    <3>1. CASE u = t
      <4>1. th'[u].pc = "start" /\ th'[u].req.kind = kind /\ th'[u].req.who = c
        BY <1>6, <1>7, <1>10, <3>1
      <4>2. conn' = conn /\ (kind # "input" => c \in busy')
        BY <1>1
      <4> QED
        BY SMTT(60), <1>17, <4>1, <4>2
    <3>2. CASE u \in Worker \cap Live
      <4>1. /\ th[u].req.kind # "input" => th[u].req.who \in busy
            /\ th[u].req.kind = "socket"
                 => (conn[th[u].req.who].alive <=> th[u].pc # "start")
            /\ th[u].req.kind \in {"send", "recv", "close"} => conn[th[u].req.who].alive
        BY <3>2 DEF IInv, Asked
      <4>2. busy \subseteq busy' /\ conn' = conn /\ th'[u] = th[u]
        BY <1>1, <1>12, <3>2
      <4> QED
        BY <4>1, <4>2
    <3> QED
      BY <1>11, <3>1, <3>2
  <2>2. ASSUME NEW u \in Worker \cap Live, th[u].req.kind # "input", kind # "input"
        PROVE  th[u].req.who # c
    BY <1>17, <2>2 DEF IInv, Asked
  <2>3. ASSUME NEW u \in Worker \cap Live', NEW w \in Worker \cap Live',
               th'[u].req.kind # "input", th'[w].req.kind # "input",
               th'[u].req.who = th'[w].req.who
        PROVE  u = w
    <3>0. th'[t].req.kind = kind /\ th'[t].req.who = c
      BY <1>6, <1>7, <1>10
    <3>1. CASE u = t /\ w = t
      BY <3>1
    <3>2. CASE u = t /\ w \in Worker \cap Live
      BY <1>12, <2>2, <2>3, <3>0, <3>2
    <3>3. CASE u \in Worker \cap Live /\ w = t
      BY <1>12, <2>2, <2>3, <3>0, <3>3
    <3>4. CASE u \in Worker \cap Live /\ w \in Worker \cap Live
      <4>1. th'[u] = th[u] /\ th'[w] = th[w]
        BY <1>12, <3>4
      <4> QED
        BY <2>3, <3>4, <4>1 DEF IInv, Asked
    <3> QED
      BY <1>11, <3>1, <3>2, <3>3, <3>4
  <2> QED
    BY <2>1, <2>3 DEF Asked
<1>19. Owned' /\ Listed' /\ Counted'
  <2>1. SamePools
    BY <1>1 DEF SamePools, pools
  <2> QED
    BY <2>1, PoolsKept DEF IInv
<1> QED
  BY <1>4, <1>13, <1>14, <1>15, <1>16, <1>18, <1>19 DEF IInv

(* The invariant holds when serve_init is over.                            *)
LEMMA InitInv == Init => IInv
<1> SUFFICES ASSUME Init PROVE IInv
  OBVIOUS
<1>1. Main \in Thread /\ Tcpip \in Thread /\ Main # Tcpip /\ Main \notin Worker
      /\ Tcpip \notin Worker
  BY Constants
<1>2. Queued /\ Live = {Main, Tcpip}
  <2>1. queue = <<Tcpip>> /\ cur = Main /\ kill = None
    BY DEF Init
  <2>2. /\ <<Tcpip>> \in Seq(Thread) /\ IsInjective(<<Tcpip>>)
        /\ Range(<<Tcpip>>) = {Tcpip}
    BY SMTT(60), <1>1 DEF IsInjective, Range
  <2> QED
    BY <1>1, <2>1, <2>2 DEF Queued, Live
<1>3. Worker \cap Live = {}
  BY <1>1, <1>2
<1>4. NoThread \in ThreadRec /\ NoThread.buf = 0
  <2>1. NoMsg \in Msg /\ 0 \in Nat
    BY SMTT(60) DEF NoMsg, Msg
  <2> QED
    BY <2>1, Constants DEF NoThread, ThreadRec
<1> DEFINE m == [NoThread EXCEPT !.pc = "flush"]
           p == [NoThread EXCEPT !.pc = "asleep", !.then = "fetch",
                                 !.sem = 0, !.gen = 1, !.v = <<0, 1>>]
<1>5. th = [t \in Thread |-> CASE t = Main -> m [] t = Tcpip -> p [] OTHER -> NoThread]
  BY DEF Init
<1>6. m \in ThreadRec /\ m.pc = "flush" /\ m.buf = 0
  <2>1. PICK r \in ThreadRec : r = NoThread /\ r.buf = 0
    BY <1>4
  <2>2. m = [r EXCEPT !.pc = "flush"]
    BY <2>1
  <2> HIDE DEF m
  <2> QED
    BY <2>1, <2>2 DEF ThreadRec
<1>8. p \in ThreadRec /\ p.pc = "asleep" /\ p.then = "fetch"
  <2>1. PICK r \in ThreadRec : r = NoThread
    BY <1>4
  <2>2. p = [r EXCEPT !.pc = "asleep", !.then = "fetch", !.sem = 0, !.gen = 1,
                      !.v = <<0, 1>>]
    BY <2>1
  <2> HIDE DEF p
  <2>3. 0 \in Sem /\ 1 \in Nat
    BY SMTT(60), Constants
  <2> QED
    BY <2>1, <2>2, <2>3 DEF ThreadRec
<1> HIDE DEF m, p
<1>10. th[Main] = m /\ th[Tcpip] = p /\ th \in [Thread -> ThreadRec]
  <2>1. th[Main] = m
    BY <1>1, <1>5
  <2>2. th[Tcpip] = p
    BY SMTT(60), <1>1, <1>5
  <2>3. ASSUME NEW t \in Thread PROVE th[t] \in ThreadRec
    <3>1. CASE t = Main
      BY <1>6, <2>1, <3>1
    <3>2. CASE t = Tcpip
      BY <1>8, <2>2, <3>2
    <3>3. CASE t # Main /\ t # Tcpip
      <4>1. th[t] = NoThread
        BY <1>5, <3>3
      <4> QED
        BY <1>4, <4>1
    <3> QED
      BY <3>1, <3>2, <3>3
  <2>4. th = [t \in Thread |-> th[t]]
    BY SMTT(60), <1>5
  <2> QED
    BY <2>1, <2>2, <2>3, <2>4
<1>11. sems \in [Sem -> SemRec]
  <2>1. 0 \in Nat /\ 1 \in Nat /\ MBOXSLOTS \in Nat
    BY SMTT(60), NetAssumption
  <2> QED
    BY <2>1 DEF Init, SemRec
<1>12. mboxes \in [Mbox -> MboxRec]
  <2>1. PICK e \in MboxRec : e = EmptyMbox(0, 1)
    BY EmptyTyped, Constants
  <2>2. mboxes = [b \in Mbox |-> [e EXCEPT !.freed = b # Box0]]
    BY <2>1 DEF Init
  <2>3. \A b \in Mbox : [e EXCEPT !.freed = b # Box0] \in MboxRec
    BY <2>1 DEF MboxRec
  <2> QED
    BY <2>2, <2>3
<1>13. conn \in [Client -> ConnRec]
  <2>1. NoConn \in ConnRec
    BY Constants DEF NoConn, ConnRec
  <2> QED
    BY <2>1 DEF Init
<1>14. /\ sem_free \in Seq(Sem) /\ mbox_free \in Seq(Mbox)
       /\ Owned /\ Listed /\ Counted
  BY InitPools
<1>15. Typed
  <2>1. /\ buse = {} /\ busy = {} /\ lost = 0
        /\ arrived = [c \in Client |-> 0] /\ got = [c \in Client |-> 0]
    BY DEF Init
  <2>2. 0 \in Nat
    BY SMTT(60)
  <2> QED
    BY <1>10, <1>11, <1>12, <1>13, <1>14, <2>1, <2>2 DEF Typed
<1>16. Roles
  BY <1>3, <1>6, <1>8, <1>10 DEF Roles
<1>17. Held
  BY <1>3, <1>6, <1>10 DEF Held
<1>18. BuffersAccounted
  <2>1. Cardinality(buse) = 0 /\ Cardinality(Worker \cap Live) = 0 /\ lost = 0
    BY <1>3, FS_EmptySet DEF Init
  <2>2. th[Main].buf = 0
    BY <1>6, <1>10
  <2>3. 0 = 0 + 0 + 0
    BY SMTT(60)
  <2> QED
    BY <2>1, <2>2, <2>3 DEF BuffersAccounted, Live
<1>19. Asked
  BY <1>3 DEF Asked
<1> QED
  BY <1>2, <1>14, <1>15, <1>16, <1>17, <1>18, <1>19 DEF IInv

(* Every step keeps it.                                                    *)
LEMMA NextInv == IInv /\ [Next]_vars => IInv'
<1> SUFFICES ASSUME IInv, [Next]_vars PROVE IInv'
  OBVIOUS
<1>1. CASE flush
  BY <1>1, FlushInv
<1>2. CASE get_buffer
  BY <1>2, GetBufferInv
<1>3. CASE process_timer_end
  <2>1. /\ th[Main].pc = "timer"
        /\ th' = [th EXCEPT ![Main].pc = "flush", ![Main].buf = 0]
        /\ buse' = buse \ {th[Main].buf}
        /\ UNCHANGED <<sched, pools, conn, yields, busy, lost, arrived, got, panicked>>
    BY <1>3 DEF process_timer_end
  <2> QED
    BY <2>1, DropInv
<1>4. CASE tcpip_thread
  BY <1>4, TcpipInv
<1>5. ASSUME NEW t \in Thread, sys_arch_sem_wait(t) PROVE IInv'
  BY <1>5, SemWaitInv
<1>6. ASSUME NEW t \in Thread, thread_wait(t) PROVE IInv'
  BY <1>6, ThreadWaitInv
<1>7. ASSUME NEW t \in Thread, sys_mbox_trypost(t) PROVE IInv'
  BY <1>7, TrypostInv
<1>8. ASSUME NEW t \in Thread, sys_arch_mbox_fetch(t) PROVE IInv'
  BY <1>8, MboxFetchInv
<1>9. ASSUME NEW t \in Worker, serve_thread(t) PROVE IInv'
  BY <1>9, ServeThreadInv
<1>10. ASSUME NEW t \in Worker, serve_thread_end(t) PROVE IInv'
  BY <1>10, ServeThreadEndInv
<1>11. CASE process_timer
  BY <1>11, TimerInv
<1>12. CASE serve_no_page
  <2>1. /\ th[Main].pc = "recv" /\ lost' = lost + 1 /\ buse' = buse
        /\ th' = [th EXCEPT ![Main].pc = "flush", ![Main].buf = 0]
        /\ UNCHANGED <<sched, pools, conn, yields, busy, arrived, got, panicked>>
    BY <1>12 DEF serve_no_page
  <2> QED
    BY <2>1, DropInv
<1>13. ASSUME NEW c \in Client, NEW kind \in Request, serve(c, kind) PROVE IInv'
  BY <1>13, ServeInv
<1>14. CASE UNCHANGED vars
  BY <1>14, IdleInv DEF vars
<1> QED
  BY <1>1, <1>2, <1>3, <1>4, <1>5, <1>6, <1>7, <1>8, <1>9, <1>10, <1>11, <1>12,
     <1>13, <1>14 DEF Next, Step

-----------------------------------------------------------------------------
(* The semaphores, the mailboxes, the threads and the request buffers of   *)
(* the server are each in one place, whatever the clients ask for and      *)
(* however late a thread gets its turn (thread.c, sys_arch.c, serv.c).     *)
THEOREM InvariantHolds == Spec => []IInv
BY InitInv, NextInv, PTL DEF Spec

(* Every thread exists once, and the free lists of sys_arch.c hold exactly *)
(* what is free, each once.                                                *)
THEOREM TypeCorrect == Spec => []TypeOK
<1>1. IInv => TypeOK
  <2> SUFFICES ASSUME IInv PROVE TypeOK
    OBVIOUS
  <2>1. \A s \in Sem : sems[s].counter \in Nat /\ sems[s].waiters \in {0, 1}
    BY DEF IInv, Typed, SemRec
  <2> QED
    BY <2>1 DEF IInv, Typed, Queued, Live, Listed, TypeOK
<1> QED
  BY <1>1, InvariantHolds, PTL

(* The request buffers in use are the main thread's, one for each thread   *)
(* at work, and those serve() itself did not give back (get_buffer,        *)
(* put_buffer, serve_thread).                                              *)
THEOREM BuffersNeverLeak == Spec => []BuffersAccounted
<1>1. IInv => BuffersAccounted
  BY DEF IInv
<1> QED
  BY <1>1, InvariantHolds, PTL
=============================================================================
