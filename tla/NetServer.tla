------------------------------ MODULE NetServer ------------------------------
(***************************************************************************)
(* The network server's environment: user-level threads that hand the      *)
(* processor to one another (net/lwip/jos/arch/thread.c), the semaphores   *)
(* and mailboxes lwIP runs on (sys_arch.c), the tcpip thread and the       *)
(* datagram sockets above them (api/tcpip.c, api_lib.c, api_msg.c), and    *)
(* the main thread, which receives the requests (net/serv.c).              *)
(*                                                                         *)
(* Threads switch only inside thread_yield, so one action is a stretch of  *)
(* code that calls it at most once, at its end.  The main thread's         *)
(* ipc_recv stops all of them.                                             *)
(***************************************************************************)
EXTENDS Integers, Sequences, FiniteSets, Functions

CONSTANTS
  Client,         \* environments with at most one socket each
  Main, Tcpip,    \* the two threads that never end
  QUEUE_SIZE,     \* request buffers
  MBOXSLOTS,      \* slots of a mailbox
  MaxYields,      \* serve() gives way at most this often before it blocks
  MaxPackets,     \* bound: datagrams that arrive for a socket
  MaxGen,         \* bound: generations of a semaphore
  MaxLost,        \* bound: requests that come without a page
  CloseAnyTime,   \* FALSE: no client closes while a datagram waits for room
  None            \* no client, no thread, no mailbox

ASSUME NetAssumption ==
  /\ QUEUE_SIZE \in Nat \ {0} /\ MBOXSLOTS \in Nat \ {0}
  /\ MaxYields \in Nat /\ MaxPackets \in Nat /\ MaxGen \in Nat
  /\ MaxLost \in Nat /\ CloseAnyTime \in BOOLEAN
  /\ None \notin Client /\ IsFiniteSet(Client)
  /\ Main # Tcpip /\ {Main, Tcpip} \cap (1 .. QUEUE_SIZE + 1) = {}

Buffer == 1 .. QUEUE_SIZE

\* serve_threads: one for each buffer, and one that is halted but not freed.
Worker == 1 .. QUEUE_SIZE + 1
Thread == {Main, Tcpip} \cup Worker

\* The entries of sems[] and mboxes[] in use: the tcpip thread's mailbox
\* takes the first two semaphores, a connection takes three more.
Mbox == 0 .. Cardinality(Client)
Sem == 0 .. 3 * Cardinality(Client) + 1

VARIABLES
  cur,        \* cur_tc
  queue,      \* thread_queue
  kill,       \* kill_queue: the halted thread whose stack is still there
  th,         \* the threads' continuations
  sems,       \* sems[]
  sem_free,   \* the list of free semaphores
  mboxes,     \* mboxes[]
  mbox_free,  \* the list of free mailboxes
  conn,       \* each client's netconn
  buse,       \* the request buffers in use
  yields,     \* i of the loop in serve()
  busy,       \* clients that wait for an answer
  lost,       \* requests without a page serve() took a buffer for
  arrived,    \* datagrams that arrived for the client's present socket
  got,        \* the last of them its client read
  panicked    \* what stopped the server, "no" while it runs

sched == <<cur, queue, kill>>
pools == <<sems, sem_free, mboxes, mbox_free>>
vars == <<cur, queue, kill, th, sems, sem_free, mboxes, mbox_free, conn,
          buse, yields, busy, lost, arrived, got, panicked>>

Running(t) == panicked = "no" /\ cur = t

panic(why) ==
  /\ panicked' = why
  /\ UNCHANGED <<cur, queue, kill, th, sems, sem_free, mboxes, mbox_free, conn,
                 buse, yields, busy, lost, arrived, got>>

(***************************************************************************)
(* Threads.  th[t].pc says where t goes on:                                *)
(*   "sem" in the loop of sys_arch_sem_wait, "asleep" in thread_wait below *)
(*   it, and th[t].then where that wait was called from.                   *)
(***************************************************************************)
NoMsg == [kind |-> "none", who |-> None, n |-> 0]

NoThread ==
  [pc |-> "none", then |-> "none", sem |-> 0, gen |-> 0, v |-> <<0, 0>>,
   wakeup |-> FALSE, ok |-> TRUE, req |-> NoMsg, mbox |-> 0, msg |-> NoMsg,
   buf |-> 0]

\* sems[i].v: the counter and the flag in one word.
V(s) == <<s.counter, s.waiters>>

\* Mutant: the thread that yields is not queued.
thread_yield_Drops ==
  /\ cur' = Head(queue)
  /\ queue' = Tail(queue)
  /\ UNCHANGED kill

thread_yield ==
  /\ cur' = Head(queue)
  /\ queue' = Append(Tail(queue), cur)
  /\ UNCHANGED kill

\* Threads of the queue that wait on semaphore s are told so.
thread_wakeup(T, s) ==
  [t \in Thread |->
     IF t \in Range(queue) /\ T[t].pc = "asleep" /\ T[t].sem = s
     THEN [T[t] EXCEPT !.wakeup = TRUE] ELSE T[t]]

\* Mutant: only the first thread of the queue is looked at.
thread_wakeups_pending_First == th[Head(queue)].wakeup

thread_wakeups_pending == \E t \in Range(queue) : th[t].wakeup

Spare == Worker \ (Range(queue) \cup {cur, kill})

\* The new thread goes to the end of the queue; the creator then yields.
thread_create(T, t, r, b) ==
  /\ th' = [T EXCEPT ![t] = [NoThread EXCEPT !.pc = "start", !.req = r, !.buf = b]]
  /\ cur' = Head(Append(queue, t))
  /\ queue' = Append(Tail(Append(queue, t)), cur)
  /\ UNCHANGED kill

\* The stack of the thread that halted before this one is freed only now.
thread_halt ==
  /\ kill' = cur
  /\ cur' = Head(queue)
  /\ queue' = Tail(queue)

(***************************************************************************)
(* Semaphores                                                              *)
(***************************************************************************)
\* Mutant: a signal that wakes somebody is not counted.
Signalled_Handed(S, s) ==
  [S EXCEPT ![s].counter = IF S[s].waiters = 1 THEN @ ELSE @ + 1,
            ![s].waiters = 0]

\* sys_sem_signal as a change of the semaphores and of the threads.
Signalled(S, s) == [S EXCEPT ![s].counter = @ + 1, ![s].waiters = 0]

Woken(T, S, s) == IF S[s].waiters = 1 THEN thread_wakeup(T, s) ELSE T

\* Enter sys_arch_sem_wait(s, _) from the point `then'.
Wait(r, s, then) ==
  [r EXCEPT !.pc = "sem", !.then = then, !.sem = s, !.gen = sems[s].gen]

\* Return from it; its locals are gone.
Back(r, ok) ==
  [r EXCEPT !.pc = r.then, !.then = "none", !.sem = 0, !.gen = 0, !.v = <<0, 0>>,
            !.wakeup = FALSE, !.ok = ok]

\* Only the tcpip thread waits with a timeout.
Timed(t) == t = Tcpip

\* One turn of the loop of sys_arch_sem_wait.
sys_arch_sem_wait(t) ==
  /\ Running(t) /\ th[t].pc = "sem"
  /\ LET s == th[t].sem IN
       \/ /\ sems[s].counter > 0
          /\ sems' = [sems EXCEPT ![s].counter = @ - 1]
          /\ th' = [th EXCEPT ![t] = Back(@, TRUE)]
          /\ UNCHANGED sched
       \/ /\ sems[s].counter = 0
          /\ sems' = [sems EXCEPT ![s].waiters = 1]
          /\ th' = [th EXCEPT ![t].pc = "asleep", ![t].v = <<0, 1>>,
                              ![t].wakeup = FALSE]
          /\ thread_yield
  /\ UNCHANGED <<sem_free, mboxes, mbox_free, conn, buse, yields, busy, lost,
                 arrived, got, panicked>>

\* thread_wait goes round, or ends and the wait above it looks at its
\* semaphore again: freed meanwhile, out of time, or once more.
WaitOver(t, late) ==
  late \/ V(sems[th[t].sem]) # th[t].v \/ th[t].wakeup

thread_wait(t) ==
  /\ Running(t) /\ th[t].pc = "asleep"
  /\ \E late \in {FALSE, Timed(t)} :
       \/ /\ ~WaitOver(t, late)
          /\ thread_yield
          /\ UNCHANGED th
       \/ /\ WaitOver(t, late)
          /\ LET timeout == th[t].gen # sems[th[t].sem].gen \/ late IN
             th' = [th EXCEPT ![t] = IF timeout THEN Back(@, FALSE)
                                     ELSE [@ EXCEPT !.pc = "sem", !.wakeup = FALSE,
                                                    !.v = <<0, 0>>]]
          /\ UNCHANGED sched
  /\ UNCHANGED <<sems, sem_free, mboxes, mbox_free, conn, buse, yields, busy,
                 lost, arrived, got, panicked>>

(***************************************************************************)
(* Mailboxes: a ring of slots, head = -1 when it is empty.                 *)
(***************************************************************************)
EmptyMbox(q, f) ==
  [freed |-> FALSE, head |-> -1, nextq |-> 0,
   msg |-> [k \in 0 .. MBOXSLOTS - 1 |-> NoMsg], queued |-> q, free |-> f]

\* The messages in a mailbox, oldest first.
Messages(m) ==
  IF m.head = -1 THEN << >>
  ELSE [k \in 1 .. ((m.nextq - m.head + MBOXSLOTS - 1) % MBOXSLOTS) + 1 |->
          m.msg[(m.head + k - 1) % MBOXSLOTS]]

\* Mutant: a message is put in front of those that are there.
Put_InFront(m, x) ==
  LET k == IF m.head = -1 THEN m.nextq ELSE (m.head + MBOXSLOTS - 1) % MBOXSLOTS
  IN [m EXCEPT !.msg[k] = x, !.head = k,
               !.nextq = IF m.head = -1 THEN (m.nextq + 1) % MBOXSLOTS ELSE @]

Put(m, x) ==
  [m EXCEPT !.msg[m.nextq] = x, !.nextq = (m.nextq + 1) % MBOXSLOTS,
            !.head = IF m.head = -1 THEN m.nextq ELSE m.head]

\* The slot is not read again before it is filled again.
Took(m) ==
  [m EXCEPT !.msg[m.head] = NoMsg,
            !.head = IF (m.head + 1) % MBOXSLOTS = m.nextq THEN -1
                     ELSE (m.head + 1) % MBOXSLOTS]

\* Start of sys_mbox_trypost and of sys_arch_mbox_fetch.
PostTo(r, b, x) == [Wait(r, mboxes[b].free, "post") EXCEPT !.mbox = b, !.msg = x]

FetchFrom(r, b) ==
  [Wait(r, mboxes[b].queued, "fetch") EXCEPT !.mbox = b, !.msg = NoMsg]

\* What the code takes for granted where thread t stands: room after the
\* wait for room, a message after the wait for one, a semaphore to wait on
\* or to signal that is not freed, a connection that is still there.  A
\* thread for which it fails stops there: what the code does then (ERR_MEM
\* from sys_mbox_trypost, a failed assertion) is what AssertsHold excludes.
Asserted(t) ==
  LET b == mboxes[th[t].mbox] IN
  CASE th[t].pc = "post"  -> b.head # b.nextq /\ ~sems[b.queued].freed
    [] th[t].pc = "fetch" -> th[t].ok => b.head # -1 /\ ~sems[b.free].freed
    [] th[t].pc = "sem"   -> ~sems[th[t].sem].freed
    [] th[t].pc = "api"   -> /\ conn[th[t].msg.who].alive
                             /\ ~sems[conn[th[t].msg.who].op].freed
    [] OTHER              -> TRUE

\* Mutant: nobody waits until the tcpip thread has carried out its request.
sys_mbox_trypost_NoAck(t) ==
  /\ Running(t) /\ th[t].pc = "post" /\ Asserted(t)
  /\ LET b == th[t].mbox
         q == mboxes[b].queued
         next == [th[t] EXCEPT !.msg = NoMsg, !.pc = "done"]
     IN /\ mboxes' = [mboxes EXCEPT ![b] = Put(@, th[t].msg)]
        /\ sems' = Signalled(sems, q)
        /\ th' = Woken([th EXCEPT ![t] = next], sems, q)
  /\ UNCHANGED <<cur, queue, kill, sem_free, mbox_free, conn, buse, yields,
                 busy, lost, arrived, got, panicked>>

\* The rest of sys_mbox_trypost.  Whether the wait for room failed, the
\* semaphore freed under it, is not looked at.  A request for the tcpip
\* thread then waits until it is carried out.
sys_mbox_trypost(t) ==
  /\ Running(t) /\ th[t].pc = "post" /\ Asserted(t)
  /\ LET b == th[t].mbox
         q == mboxes[b].queued
         r == [th[t] EXCEPT !.msg = NoMsg]
         next == IF r.req.kind = "input" THEN [r EXCEPT !.pc = "done"]
                 ELSE Wait(r, conn[r.req.who].op, "done")
     IN /\ mboxes' = [mboxes EXCEPT ![b] = Put(@, th[t].msg)]
        /\ sems' = Signalled(sems, q)
        /\ th' = Woken([th EXCEPT ![t] = next], sems, q)
  /\ UNCHANGED <<cur, queue, kill, sem_free, mbox_free, conn, buse, yields,
                 busy, lost, arrived, got, panicked>>

\* The rest of sys_arch_mbox_fetch.  The tcpip thread that ran out of time
\* calls its timeout handler and fetches again.  (A reader is never told so:
\* it waits without a limit, and its own client, which waits for it, cannot
\* close the socket meanwhile.)
sys_arch_mbox_fetch(t) ==
  /\ Running(t) /\ th[t].pc = "fetch" /\ Asserted(t)
  /\ LET b == th[t].mbox
         x == mboxes[b].msg[mboxes[b].head]
     IN \/ /\ th[t].ok
           /\ mboxes' = [mboxes EXCEPT ![b] = Took(@)]
           /\ sems' = Signalled(sems, mboxes[b].free)
           /\ th' = Woken([th EXCEPT ![t].pc = IF t = Tcpip THEN "api" ELSE "done",
                                     ![t].msg = x], sems, mboxes[b].free)
           /\ got' = IF t = Tcpip THEN got ELSE [got EXCEPT ![x.who] = x.n]
        \/ /\ ~th[t].ok /\ t = Tcpip
           /\ th' = [th EXCEPT ![t] = FetchFrom(@, b)]
           /\ UNCHANGED <<mboxes, sems, got>>
  /\ UNCHANGED <<cur, queue, kill, sem_free, mbox_free, conn, buse, yields,
                 busy, lost, arrived, panicked>>

(***************************************************************************)
(* lwIP's side of a request                                                *)
(***************************************************************************)
NoConn == [alive |-> FALSE, pcb |-> FALSE, op |-> 0, recvmbox |-> 0]

Box0 == 0   \* the tcpip thread's mailbox

\* netconn_alloc: three semaphores and a mailbox from the free lists.
netconn_alloc(c) ==
  LET op == sem_free[1]
      q == sem_free[2]
      f == sem_free[3]
      New(e, n) == [e EXCEPT !.freed = FALSE, !.counter = n, !.gen = @ + 1]
  IN /\ sems' = [sems EXCEPT ![op] = New(@, 0), ![q] = New(@, 0),
                             ![f] = New(@, MBOXSLOTS)]
     /\ sem_free' = SubSeq(sem_free, 4, Len(sem_free))
     /\ mboxes' = [mboxes EXCEPT ![Head(mbox_free)] = EmptyMbox(q, f)]
     /\ mbox_free' = Tail(mbox_free)
     /\ conn' = [conn EXCEPT ![c] = [alive |-> TRUE, pcb |-> FALSE, op |-> op,
                                    recvmbox |-> Head(mbox_free)]]

\* The first part of serve_thread: a reader goes to its mailbox, a datagram
\* to the mailbox of the socket it is for if there is one, and everything
\* else to the tcpip thread.
serve_thread(t) ==
  LET r == th[t].req
      c == r.who
  IN
  /\ Running(t) /\ th[t].pc = "start"
  /\ \/ /\ r.kind = "socket"
        /\ netconn_alloc(c)
        /\ th' = [th EXCEPT ![t] = PostTo(@, Box0, r)]
        /\ UNCHANGED arrived
     \/ /\ r.kind \in {"send", "close"}
        /\ th' = [th EXCEPT ![t] = PostTo(@, Box0, r)]
        /\ UNCHANGED <<pools, conn, arrived>>
     \/ /\ r.kind = "recv"
        /\ th' = [th EXCEPT ![t] = FetchFrom(@, conn[c].recvmbox)]
        /\ UNCHANGED <<pools, conn, arrived>>
     \/ /\ r.kind = "input" /\ conn[c].pcb
        /\ arrived' = [arrived EXCEPT ![c] = @ + 1]
        /\ th' = [th EXCEPT ![t] = PostTo(@, conn[c].recvmbox,
                                        [kind |-> "data", who |-> c,
                                         n |-> arrived[c] + 1])]
        /\ UNCHANGED <<pools, conn>>
     \/ /\ r.kind = "input" /\ ~conn[c].pcb
        /\ th' = [th EXCEPT ![t].pc = "done"]
        /\ UNCHANGED <<pools, conn, arrived>>
  /\ UNCHANGED <<sched, buse, yields, busy, lost, got, panicked>>

\* The tcpip thread carries out the request it fetched, tells the thread
\* that waits for it, and fetches the next.
tcpip_thread ==
  LET x == th[Tcpip].msg
      c == x.who
  IN
  /\ Running(Tcpip) /\ th[Tcpip].pc = "api" /\ Asserted(Tcpip)
  /\ conn' = [conn EXCEPT ![c].pcb =
                 CASE x.kind = "socket" -> TRUE
                   [] x.kind = "close"  -> FALSE
                   [] OTHER             -> @]
  /\ arrived' = IF x.kind = "socket" THEN [arrived EXCEPT ![c] = 0] ELSE arrived
  /\ got' = IF x.kind = "socket" THEN [got EXCEPT ![c] = 0] ELSE got
  /\ sems' = Signalled(sems, conn[c].op)
  /\ th' = Woken([th EXCEPT ![Tcpip] = FetchFrom(@, Box0)], sems, conn[c].op)
  /\ UNCHANGED <<sched, sem_free, mboxes, mbox_free, buse, yields, busy, lost,
                 panicked>>

\* sys_sem_free
Freed(e) == [e EXCEPT !.freed = TRUE, !.gen = @ + 1]

\* The two semaphores of a mailbox after its n messages are taken out.
Emptied(e) == [e EXCEPT !.counter = 0]

Given(e, n) == [e EXCEPT !.counter = @ + n, !.waiters = IF n > 0 THEN 0 ELSE @]

\* netconn_free: drain the mailbox, which makes room a waiting datagram is
\* told of, then free it and the semaphores.
netconn_free(T, c) ==
  LET b == conn[c].recvmbox
      m == mboxes[b]
      n == Len(Messages(m))
  IN /\ sems' = [sems EXCEPT ![m.queued] = Freed(Emptied(@)),
                             ![m.free] = Freed(Given(@, n)),
                             ![conn[c].op] = Freed(@)]
     /\ sem_free' = <<conn[c].op, m.free, m.queued>> \o sem_free
     /\ mboxes' = [mboxes EXCEPT ![b] = [EmptyMbox(m.queued, m.free) EXCEPT
                                         !.freed = TRUE, !.nextq = m.nextq]]
     /\ mbox_free' = <<b>> \o mbox_free
     /\ conn' = [conn EXCEPT ![c] = NoConn]
     /\ th' = IF n > 0 THEN Woken(T, sems, m.free) ELSE T

\* Mutant: the client is not answered.
serve_thread_end_Silent(t) ==
  LET r == th[t].req
      Gone == [th EXCEPT ![t] = NoThread]
  IN
  /\ Running(t) /\ th[t].pc = "done"
  /\ \/ r.kind = "close" /\ netconn_free(Gone, r.who)
     \/ r.kind # "close" /\ th' = Gone /\ UNCHANGED <<pools, conn>>
  /\ buse' = buse \ {th[t].buf}
  /\ thread_halt
  /\ UNCHANGED <<busy, yields, lost, arrived, got, panicked>>

\* The end of serve_thread: answer, give the buffer back, halt.  (ipc_send
\* panics for a client that has died; the clients here do not die.)
serve_thread_end(t) ==
  LET r == th[t].req
      Gone == [th EXCEPT ![t] = NoThread]
  IN
  /\ Running(t) /\ th[t].pc = "done"
  /\ \/ r.kind = "close" /\ netconn_free(Gone, r.who)
     \/ r.kind # "close" /\ th' = Gone /\ UNCHANGED <<pools, conn>>
  /\ busy' = IF r.kind = "input" THEN busy ELSE busy \ {r.who}
  /\ buse' = buse \ {th[t].buf}
  /\ thread_halt
  /\ UNCHANGED <<yields, lost, arrived, got, panicked>>

(***************************************************************************)
(* The main thread                                                         *)
(***************************************************************************)
\* The other threads get their turns while one of them has been woken, at
\* most MaxYields times.
flush ==
  /\ Running(Main) /\ th[Main].pc = "flush"
  /\ thread_wakeups_pending /\ yields < MaxYields
  /\ yields' = yields + 1
  /\ thread_yield
  /\ UNCHANGED <<th, pools, conn, buse, busy, lost, arrived, got, panicked>>

FreeBuffer(b) == b \in Buffer \ buse /\ \A d \in Buffer \ buse : b <= d

\* Then the first free buffer is where ipc_recv puts the next request.
get_buffer ==
  /\ Running(Main) /\ th[Main].pc = "flush"
  /\ ~(thread_wakeups_pending /\ yields < MaxYields)
  /\ \/ \E b \in Buffer :
          /\ FreeBuffer(b)
          /\ buse' = buse \cup {b}
          /\ th' = [th EXCEPT ![Main].pc = "recv", ![Main].buf = b]
          /\ yields' = 0
          /\ UNCHANGED <<sched, pools, conn, busy, lost, arrived, got, panicked>>
     \/ buse = Buffer /\ panic("NS: buffer overflow")

\* What a client may ask for now: it waits for one answer at a time.  Nothing
\* in serv.c keeps a client from closing while a datagram for it waits for
\* room in its mailbox; with CloseAnyTime FALSE none does.
Asks(c, kind) ==
  CASE kind = "socket" -> /\ c \notin busy /\ ~conn[c].alive
                          /\ sems[sem_free[1]].gen < MaxGen
    [] kind = "close"  -> /\ c \notin busy /\ conn[c].alive
                          /\ CloseAnyTime \/ ~\E t \in Worker :
                               th[t].req.kind = "input" /\ th[t].req.who = c
    [] kind = "input"  -> arrived[c] < MaxPackets
    [] OTHER           -> c \notin busy /\ conn[c].alive

Request == {"socket", "close", "send", "recv", "input"}

\* ipc_recv returns with a request and its page: a thread is created for it
\* and gets its turn.
serve(c, kind) ==
  /\ Running(Main) /\ th[Main].pc = "recv"
  /\ Asks(c, kind)
  /\ busy' = IF kind = "input" THEN busy ELSE busy \cup {c}
  /\ \E t \in Spare :
       /\ \A u \in Spare : t <= u
       /\ thread_create([th EXCEPT ![Main].pc = "flush", ![Main].buf = 0], t,
                        [kind |-> kind, who |-> c, n |-> 0], th[Main].buf)
  /\ UNCHANGED <<pools, conn, buse, yields, lost, arrived, got, panicked>>

\* A request that needs a page and has none: its buffer is not given back.
serve_no_page ==
  /\ Running(Main) /\ th[Main].pc = "recv"
  /\ lost < MaxLost
  /\ lost' = lost + 1
  /\ th' = [th EXCEPT ![Main].pc = "flush", ![Main].buf = 0]
  /\ UNCHANGED <<sched, pools, conn, buse, yields, busy, arrived, got, panicked>>

\* A tick of the timer environment: every thread gets one turn.
process_timer ==
  /\ Running(Main) /\ th[Main].pc = "recv"
  /\ th' = [th EXCEPT ![Main].pc = "timer"]
  /\ thread_yield
  /\ UNCHANGED <<pools, conn, buse, yields, busy, lost, arrived, got, panicked>>

\* Mutant: the buffer is not given back.
process_timer_end_Keeps ==
  /\ Running(Main) /\ th[Main].pc = "timer"
  /\ th' = [th EXCEPT ![Main].pc = "flush", ![Main].buf = 0]
  /\ UNCHANGED <<sched, pools, conn, buse, yields, busy, lost, arrived, got,
                 panicked>>

process_timer_end ==
  /\ Running(Main) /\ th[Main].pc = "timer"
  /\ th' = [th EXCEPT ![Main].pc = "flush", ![Main].buf = 0]
  /\ buse' = buse \ {th[Main].buf}
  /\ UNCHANGED <<sched, pools, conn, yields, busy, lost, arrived, got, panicked>>

\* serve_init is over: the tcpip thread waits for its first request.
Init ==
  /\ cur = Main /\ queue = <<Tcpip>> /\ kill = None
  /\ sems = [s \in Sem |->
               [counter |-> IF s = 1 THEN MBOXSLOTS ELSE 0,
                waiters |-> IF s = 0 THEN 1 ELSE 0,
                gen |-> IF s \in {0, 1} THEN 1 ELSE 0, freed |-> s \notin {0, 1}]]
  /\ sem_free = [k \in 1 .. Cardinality(Sem) - 2 |-> k + 1]
  /\ mboxes = [b \in Mbox |-> [EmptyMbox(0, 1) EXCEPT !.freed = b # Box0]]
  /\ mbox_free = [k \in 1 .. Cardinality(Client) |-> k]
  /\ th = [t \in Thread |->
             CASE t = Main  -> [NoThread EXCEPT !.pc = "flush"]
               [] t = Tcpip -> [NoThread EXCEPT !.pc = "asleep", !.then = "fetch",
                                  !.sem = 0, !.gen = 1, !.v = <<0, 1>>]
               [] OTHER     -> NoThread]
  /\ conn = [c \in Client |-> NoConn]
  /\ buse = {} /\ yields = 0 /\ busy = {} /\ lost = 0
  /\ arrived = [c \in Client |-> 0] /\ got = [c \in Client |-> 0]
  /\ panicked = "no"

\* What the server does by itself, without waiting for a request.
Step ==
  \/ flush \/ get_buffer \/ process_timer_end \/ tcpip_thread
  \/ \E t \in Thread : \/ sys_arch_sem_wait(t) \/ thread_wait(t)
                       \/ sys_mbox_trypost(t) \/ sys_arch_mbox_fetch(t)
  \/ \E t \in Worker : serve_thread(t) \/ serve_thread_end(t)

Next ==
  \/ Step \/ process_timer \/ serve_no_page
  \/ \E c \in Client, kind \in Request : serve(c, kind)

Spec == Init /\ [][Next]_vars

\* The kernel schedules the server's environment again and again, and the
\* server always comes to its next ipc_recv or its next yield by itself.
FairSpec == Spec /\ WF_vars(Step)

(***************************************************************************)
(* Properties                                                              *)
(***************************************************************************)
\* The variables have their types; the threads that exist are the running
\* one and those in the queue, each once (thread.c).
TypeOK ==
  /\ cur \in Thread /\ kill \in Worker \cup {None}
  /\ queue \in Seq(Thread) /\ IsInjective(queue) /\ cur \notin Range(queue)
  /\ {Main, Tcpip} \subseteq {cur} \cup Range(queue)
  /\ \A s \in Sem : sems[s].counter \in Nat /\ sems[s].waiters \in {0, 1}
  /\ {s \in Sem : sems[s].freed} = Range(sem_free) /\ IsInjective(sem_free)
  /\ {b \in Mbox : mboxes[b].freed} = Range(mbox_free)
  /\ buse \subseteq Buffer /\ busy \subseteq Client

At(pc, b) == {t \in Thread : th[t].pc = pc /\ th[t].mbox = b /\ th[t].ok}

\* A mailbox's two semaphores count its messages and its free slots exactly,
\* but for the one a thread has been granted and not yet used: no interleaving
\* of posts, fetches, timeouts and closes loses or invents a slot
\* (sys_mbox_trypost, sys_arch_mbox_fetch).
SlotsExact ==
  \A b \in Mbox : LET m == mboxes[b] IN ~m.freed =>
    /\ sems[m.queued].counter + Cardinality(At("fetch", b)) = Len(Messages(m))
    /\ sems[m.free].counter + Cardinality(At("post", b)) + Len(Messages(m))
         = MBOXSLOTS

\* As long as no socket is closed while a datagram for it waits for room, the
\* assertions of sys_arch.c do not fail: a thread that waited for room finds
\* room, one that waited for a message finds one, and nothing waits on or
\* signals a semaphore that has been freed, although mailboxes and semaphores
\* are freed and reused.  (With CloseAnyTime TRUE it is violated: the poster
\* goes on with a mailbox that is gone, and sys_sem_signal asserts.)
AssertsHold == panicked = "no" => Asserted(cur)

\* A client reads the datagrams in the order in which they came in, without
\* a gap, also when the mailbox was full and several threads waited with one
\* each (recv_udp, netconn_recv, the order of thread_queue).
PacketsInOrder ==
  \A c \in Client : conn[c].pcb =>
    LET M == Messages(mboxes[conn[c].recvmbox]) IN
    \A k \in DOMAIN M : M[k].who = c /\ M[k].n = got[c] + k

\* ipc_recv stops every thread, so the main thread may call it only when no
\* other thread could go on: those left wait to read from an empty mailbox
\* or to post to a full one (the comment in serve(), "we flush all pending
\* work from other threads").
NothingLeftBehind ==
  th[Main].pc = "recv" =>
    \A t \in Worker \cap Range(queue) :
      LET n == Len(Messages(mboxes[th[t].mbox])) IN
      /\ th[t].pc = "asleep" /\ ~th[t].wakeup
      /\ \/ th[t].req.kind = "recv" /\ n = 0
         \/ th[t].req.kind = "input" /\ n = MBOXSLOTS

\* Every buffer in use is the main thread's, a live serve_thread's, or one
\* of those lost to requests without a page; so the server runs out of
\* buffers only for as many waiting requests (get_buffer, put_buffer).
BuffersAccounted ==
  Cardinality(buse) = lost + (IF th[Main].buf = 0 THEN 0 ELSE 1)
                      + Cardinality(Worker \cap ({cur} \cup Range(queue)))

Reading(c) == \E t \in Worker : th[t].req = [kind |-> "recv", who |-> c, n |-> 0]

\* Every request of a client is answered, a read once there is a datagram
\* for it, although the server may never be sent another request
\* (serve_thread, sys_sem_signal, thread_wakeup).
Answered ==
  \A c \in Client :
    (/\ c \in busy
     /\ Reading(c) => Messages(mboxes[conn[c].recvmbox]) # << >>)
      ~> c \notin busy
=============================================================================
