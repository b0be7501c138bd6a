------------------------ MODULE NetServerPoolProofs -------------------------
(***************************************************************************)
(* Lemmas about the semaphores and the mailboxes of NetServer, for any     *)
(* number of clients and slots.                                            *)
(*                                                                         *)
(* A connection takes three semaphores and a mailbox blindly from the      *)
(* heads of two lists, and gives them back when it is closed.  That they   *)
(* are there follows from counting (Counted), and that they are nobody     *)
(* else's from who owns what (Owned).                                      *)
(***************************************************************************)
EXTENDS NetServer, FiniteSetTheorems, TLAPS

(* A leaf is for Zenon, unless it names the SMT solver. *)
USE ZenonT(60)

Msg == [kind : Request \cup {"none", "data"}, who : Client \cup {None}, n : Nat]

ThreadRec ==
  [pc : {"none", "flush", "recv", "timer", "start", "sem", "asleep", "post",
         "fetch", "api", "done"},
   then : {"none", "post", "fetch", "done"}, sem : Sem, gen : Nat,
   v : {<<0, 0>>, <<0, 1>>}, wakeup : BOOLEAN, ok : BOOLEAN, req : Msg,
   mbox : Mbox, msg : Msg, buf : 0 .. QUEUE_SIZE]

SemRec == [counter : Nat, waiters : {0, 1}, gen : Nat, freed : BOOLEAN]

MboxRec ==
  [freed : BOOLEAN, head : -1 .. MBOXSLOTS - 1, nextq : 0 .. MBOXSLOTS - 1,
   msg : [0 .. MBOXSLOTS - 1 -> Msg], queued : Sem, free : Sem]

ConnRec == [alive : BOOLEAN, pcb : BOOLEAN, op : Sem, recvmbox : Mbox]

Typed ==
  /\ th \in [Thread -> ThreadRec]
  /\ sems \in [Sem -> SemRec] /\ mboxes \in [Mbox -> MboxRec]
  /\ conn \in [Client -> ConnRec]
  /\ sem_free \in Seq(Sem) /\ mbox_free \in Seq(Mbox)
  /\ buse \subseteq Buffer /\ busy \subseteq Client /\ lost \in Nat
  /\ arrived \in [Client -> Nat] /\ got \in [Client -> Nat]

Alive == {c \in Client : conn[c].alive}

OpOf(c) == conn[c].op
QueuedOf(c) == mboxes[conn[c].recvmbox].queued
FreeOf(c) == mboxes[conn[c].recvmbox].free

(* What a connection has is its own, and not free. *)
Owned ==
  /\ \A c \in Alive :
       /\ ~mboxes[conn[c].recvmbox].freed
       /\ ~sems[OpOf(c)].freed /\ ~sems[QueuedOf(c)].freed /\ ~sems[FreeOf(c)].freed
       /\ OpOf(c) # QueuedOf(c) /\ OpOf(c) # FreeOf(c) /\ QueuedOf(c) # FreeOf(c)
  /\ \A c, d \in Alive : c # d =>
       /\ conn[c].recvmbox # conn[d].recvmbox
       /\ {OpOf(c), QueuedOf(c), FreeOf(c)} \cap {OpOf(d), QueuedOf(d), FreeOf(d)} = {}

(* The free lists: what is freed, each once. *)
Listed ==
  /\ {s \in Sem : sems[s].freed} = Range(sem_free) /\ IsInjective(sem_free)
  /\ {b \in Mbox : mboxes[b].freed} = Range(mbox_free) /\ IsInjective(mbox_free)

(* There is always enough for the clients that have no connection. *)
Counted ==
  /\ Len(sem_free) = 3 * (Cardinality(Client) - Cardinality(Alive))
  /\ Len(mbox_free) = Cardinality(Client) - Cardinality(Alive)

-----------------------------------------------------------------------------
(* The constants. *)
LEMMA Constants ==
  /\ Main \in Thread /\ Tcpip \in Thread /\ Worker \subseteq Thread
  /\ Main # Tcpip /\ Main \notin Worker /\ Tcpip \notin Worker
  /\ IsFiniteSet(Client) /\ Cardinality(Client) \in Nat
  /\ 0 \in Sem /\ 1 \in Sem /\ 0 \in Mbox /\ None \notin Client
  /\ IsFiniteSet(Worker) /\ IsFiniteSet(Buffer) /\ 0 \notin Buffer
  /\ Buffer \subseteq 0 .. QUEUE_SIZE /\ 0 \in 0 .. QUEUE_SIZE
<1>1. Cardinality(Client) \in Nat
  BY NetAssumption, FS_CardinalityType
<1>2. 0 \in Sem /\ 1 \in Sem /\ 0 \in Mbox
  BY SMTT(60), <1>1 DEF Sem, Mbox
<1>3. QUEUE_SIZE \in Int /\ QUEUE_SIZE + 1 \in Int /\ 0 \notin Buffer
      /\ Buffer \subseteq 0 .. QUEUE_SIZE /\ 0 \in 0 .. QUEUE_SIZE /\ 1 \in Int
  BY SMTT(60), NetAssumption DEF Buffer
<1>4. IsFiniteSet(Worker) /\ IsFiniteSet(Buffer)
  BY <1>3, FS_Interval DEF Worker, Buffer
<1> QED
  BY <1>1, <1>2, <1>3, <1>4, NetAssumption DEF Thread, Worker

(* thread_create puts the new thread behind the others.                    *)
LEMMA Grows ==
  ASSUME NEW S, NEW q \in Seq(S), NEW x \in S, IsInjective(q), x \notin Range(q)
  PROVE  /\ Append(q, x) \in Seq(S) /\ Append(q, x) # << >>
         /\ IsInjective(Append(q, x))
         /\ Range(Append(q, x)) = Range(q) \cup {x}
<1> DEFINE p == Append(q, x)
<1>1. /\ p \in Seq(S) /\ p # << >> /\ Len(q) \in Nat
      /\ DOMAIN q = 1 .. Len(q) /\ DOMAIN p = 1 .. Len(q) + 1
      /\ \A k \in 1 .. Len(q) : p[k] = q[k]
      /\ p[Len(q) + 1] = x /\ Len(q) + 1 \in 1 .. Len(q) + 1
      /\ \A k \in 1 .. Len(q) + 1 : k \in 1 .. Len(q) \/ k = Len(q) + 1
      /\ \A k \in 1 .. Len(q) : k \in 1 .. Len(q) + 1
  BY SMTT(60)
<1>2. \A k \in 1 .. Len(q) : q[k] # x
  BY <1>1 DEF Range
<1>3. IsInjective(p)
  <2> SUFFICES ASSUME NEW a \in 1 .. Len(q) + 1, NEW b \in 1 .. Len(q) + 1, p[a] = p[b]
               PROVE  a = b
    BY <1>1 DEF IsInjective
  <2>1. \A i, j \in 1 .. Len(q) : q[i] = q[j] => i = j
    BY <1>1 DEF IsInjective
  <2> QED
    BY <1>1, <1>2, <2>1
<1>4. \A y : y \in Range(p) <=> y \in Range(q) \cup {x}
  BY <1>1 DEF Range
<1> QED
  BY <1>1, <1>3, <1>4

(* thread_halt leaves the others as they were.                             *)
LEMMA Shrinks ==
  ASSUME NEW S, NEW q \in Seq(S), q # << >>, IsInjective(q)
  PROVE  /\ Tail(q) \in Seq(S) /\ Head(q) \in S /\ IsInjective(Tail(q))
         /\ Head(q) \notin Range(Tail(q))
         /\ {Head(q)} \cup Range(Tail(q)) = Range(q)
<1>1. /\ Tail(q) \in Seq(S) /\ Head(q) \in S /\ Len(q) \in Nat /\ Len(q) >= 1
      /\ DOMAIN q = 1 .. Len(q) /\ DOMAIN Tail(q) = 1 .. Len(q) - 1
      /\ Head(q) = q[1] /\ 1 \in 1 .. Len(q)
      /\ \A k \in 1 .. Len(q) - 1 : Tail(q)[k] = q[k + 1] /\ k + 1 \in 1 .. Len(q)
                                     /\ k + 1 # 1
      /\ \A k \in 1 .. Len(q) : k = 1 \/ \E j \in 1 .. Len(q) - 1 : k = j + 1
      /\ \A i, j \in 1 .. Len(q) - 1 : i + 1 = j + 1 => i = j
  <2>1. /\ Tail(q) \in Seq(S) /\ Head(q) \in S /\ Len(q) \in Nat /\ Len(q) >= 1
        /\ DOMAIN q = 1 .. Len(q) /\ DOMAIN Tail(q) = 1 .. Len(q) - 1
        /\ Head(q) = q[1] /\ 1 \in 1 .. Len(q)
        /\ \A k \in 1 .. Len(q) - 1 : Tail(q)[k] = q[k + 1]
    BY SMTT(60)
  <2>2. /\ \A k \in 1 .. Len(q) - 1 : k + 1 \in 1 .. Len(q) /\ k + 1 # 1
        /\ \A i, j \in 1 .. Len(q) - 1 : i + 1 = j + 1 => i = j
    BY SMTT(60), <2>1
  <2>3. ASSUME NEW k \in 1 .. Len(q), k # 1
        PROVE  \E j \in 1 .. Len(q) - 1 : k = j + 1
    <3>1. k - 1 \in 1 .. Len(q) - 1 /\ k = (k - 1) + 1
      BY SMTT(60), <2>1, <2>3
    <3> QED
      BY <3>1
  <2> QED
    BY <2>1, <2>2, <2>3
<1>2. \A a, b \in 1 .. Len(q) : q[a] = q[b] => a = b
  BY <1>1 DEF IsInjective
<1>3. IsInjective(Tail(q))
  <2> SUFFICES ASSUME NEW a \in 1 .. Len(q) - 1, NEW b \in 1 .. Len(q) - 1,
                      Tail(q)[a] = Tail(q)[b]
               PROVE  a = b
    BY <1>1 DEF IsInjective
  <2>1. a + 1 \in 1 .. Len(q) /\ b + 1 \in 1 .. Len(q)
    BY SMTT(60), <1>1
  <2>2. q[a + 1] = q[b + 1]
    BY <1>1
  <2>3. a + 1 = b + 1
    BY <1>2, <2>1, <2>2
  <2> QED
    BY SMTT(60), <1>1, <2>3
<1>4. \A k \in 1 .. Len(q) - 1 : Tail(q)[k] # q[1]
  BY <1>1, <1>2
<1>5. \A y : y \in {q[1]} \cup Range(Tail(q)) <=> y \in Range(q)
  <2>1. \A k \in 1 .. Len(q) - 1 : Tail(q)[k] \in Range(q)
    BY <1>1 DEF Range
  <2>2. q[1] \in Range(q)
    BY <1>1 DEF Range
  <2>3. ASSUME NEW k \in 1 .. Len(q) PROVE q[k] \in {q[1]} \cup Range(Tail(q))
    <3>1. CASE k = 1
      BY <3>1
    <3>2. CASE k # 1
      <4>1. PICK j \in 1 .. Len(q) - 1 : k = j + 1
        BY <3>2, <1>1
      <4>2. Tail(q)[j] = q[k]
        BY <4>1, <1>1
      <4>3. j \in DOMAIN Tail(q)
        BY <1>1
      <4> QED
        BY <4>2, <4>3 DEF Range
    <3> QED
      BY <3>1, <3>2
  <2>4. Range(Tail(q)) = {Tail(q)[k] : k \in 1 .. Len(q) - 1}
    BY <1>1 DEF Range
  <2>5. Range(q) = {q[k] : k \in 1 .. Len(q)}
    BY <1>1 DEF Range
  <2>6. \A y \in Range(Tail(q)) : y \in Range(q)
    BY <2>1, <2>4
  <2>7. \A y \in Range(q) : y \in {q[1]} \cup Range(Tail(q))
    BY <2>3, <2>5
  <2> QED
    BY <2>2, <2>6, <2>7
<1>6. Head(q) \notin Range(Tail(q))
  BY <1>1, <1>4 DEF Range
<1> QED
  BY <1>1, <1>3, <1>5, <1>6

(* thread_yield puts the running thread last and runs the first.           *)
LEMMA Rotates ==
  ASSUME NEW S, NEW q \in Seq(S), NEW x \in S, q # << >>, IsInjective(q),
         x \notin Range(q)
  PROVE  /\ Append(Tail(q), x) \in Seq(S) /\ Head(q) \in S
         /\ IsInjective(Append(Tail(q), x)) /\ Head(q) \notin Range(Append(Tail(q), x))
         /\ {Head(q)} \cup Range(Append(Tail(q), x)) = {x} \cup Range(q)
<1>1. /\ Tail(q) \in Seq(S) /\ Head(q) \in S /\ IsInjective(Tail(q))
      /\ Head(q) \notin Range(Tail(q)) /\ {Head(q)} \cup Range(Tail(q)) = Range(q)
  BY Shrinks
<1>2. x \notin Range(Tail(q)) /\ Head(q) # x
  BY <1>1
<1>3. /\ Append(Tail(q), x) \in Seq(S) /\ IsInjective(Append(Tail(q), x))
      /\ Range(Append(Tail(q), x)) = Range(Tail(q)) \cup {x}
  <2>1. \A r \in Seq(S) :
          IsInjective(r) /\ x \notin Range(r) =>
            /\ Append(r, x) \in Seq(S) /\ IsInjective(Append(r, x))
            /\ Range(Append(r, x)) = Range(r) \cup {x}
    BY Grows
  <2> QED
    BY <1>1, <1>2, <2>1
<1> QED
  BY <1>1, <1>2, <1>3

(* Lists with the same places are equally long.                            *)
LEMMA SameLength ==
  ASSUME NEW m \in Nat, NEW n \in Nat, 1 .. m = 1 .. n
  PROVE  m = n
<1>1. m > n => m \in 1 .. m /\ m \notin 1 .. n
  BY SMTT(60)
<1>2. n > m => n \in 1 .. n /\ n \notin 1 .. m
  BY SMTT(60)
<1>3. m > n \/ n > m \/ m = n
  BY SMTT(60)
<1> QED
  BY <1>1, <1>2, <1>3

(* Three are taken from the head of a list (sys_sem_new).                  *)
LEMMA TakesThree ==
  ASSUME NEW S, NEW q \in Seq(S), Len(q) >= 3, IsInjective(q)
  PROVE  LET p == SubSeq(q, 4, Len(q)) IN
         /\ p \in Seq(S) /\ Len(p) = Len(q) - 3 /\ IsInjective(p)
         /\ {q[1], q[2], q[3]} \subseteq Range(q) /\ {q[1], q[2], q[3]} \subseteq S
         /\ q[1] # q[2] /\ q[1] # q[3] /\ q[2] # q[3]
         /\ Range(p) = Range(q) \ {q[1], q[2], q[3]}
<1> DEFINE p == SubSeq(q, 4, Len(q))
<1>1. /\ p \in Seq(S) /\ Len(p) = Len(q) - 3 /\ Len(q) \in Nat
      /\ DOMAIN q = 1 .. Len(q) /\ DOMAIN p = 1 .. Len(q) - 3
      /\ \A k \in 1 .. Len(q) - 3 : p[k] = q[k + 3]
      /\ \A k \in 1 .. Len(q) : q[k] \in S
  <2>0. p \in Seq(S) /\ Len(q) \in Nat /\ Len(p) \in Nat
    BY SMTT(60)
  <2>1. /\ p \in Seq(S) /\ Len(q) \in Nat /\ Len(p) \in Nat
        /\ DOMAIN q = 1 .. Len(q) /\ DOMAIN p = 1 .. Len(q) - 3
        /\ \A k \in 1 .. Len(q) : q[k] \in S
    <3>1. DOMAIN p = 1 .. Len(q) - 3
      BY SMTT(60)
    <3>2. DOMAIN q = 1 .. Len(q) /\ \A k \in 1 .. Len(q) : q[k] \in S
      BY SMTT(60)
    <3> QED
      BY <2>0, <3>1, <3>2
  <2>2. \A k \in 1 .. Len(q) - 3 : p[k] = q[k + 3]
    BY SMTT(60)
  <2> HIDE DEF p
  <2>a. DOMAIN p = 1 .. Len(p)
    BY SMTT(60), <2>0
  <2>b. Len(q) - 3 \in Nat
    BY SMTT(60), <2>0
  <2>3. 1 .. Len(p) = 1 .. Len(q) - 3 /\ Len(q) - 3 \in Nat
    BY <2>1, <2>a, <2>b
  <2>4. Len(p) = Len(q) - 3
    BY <2>1, <2>3, SameLength
  <2> QED
    BY <2>1, <2>2, <2>4
<1> HIDE DEF p
<1>2. /\ \A k \in 1 .. Len(q) - 3 : k + 3 \in 1 .. Len(q) /\ k + 3 \notin {1, 2, 3}
      /\ \A i, j \in 1 .. Len(q) - 3 : i + 3 = j + 3 => i = j
      /\ 1 \in 1 .. Len(q) /\ 2 \in 1 .. Len(q) /\ 3 \in 1 .. Len(q)
      /\ 1 # 2 /\ 1 # 3 /\ 2 # 3
  BY SMTT(60), <1>1
<1>3. ASSUME NEW k \in 1 .. Len(q), k \notin {1, 2, 3}
      PROVE  \E j \in 1 .. Len(q) - 3 : k = j + 3
  <2>1. k - 3 \in 1 .. Len(q) - 3 /\ k = (k - 3) + 3
    BY SMTT(60), <1>1, <1>3
  <2> QED
    BY <2>1
<1>4. \A i, j \in 1 .. Len(q) : q[i] = q[j] => i = j
  BY <1>1 DEF IsInjective
<1>5. q[1] # q[2] /\ q[1] # q[3] /\ q[2] # q[3]
  BY <1>2, <1>4
<1>6. IsInjective(p)
  <2> SUFFICES ASSUME NEW i \in 1 .. Len(q) - 3, NEW j \in 1 .. Len(q) - 3, p[i] = p[j]
               PROVE  i = j
    BY <1>1 DEF IsInjective
  <2>1. q[i + 3] = q[j + 3] /\ i + 3 \in 1 .. Len(q) /\ j + 3 \in 1 .. Len(q)
    BY <1>1, <1>2
  <2>2. i + 3 = j + 3
    BY <1>4, <2>1
  <2> QED
    BY <1>2, <2>2
<1>7. Range(q) = {q[k] : k \in 1 .. Len(q)} /\ Range(p) = {p[k] : k \in 1 .. Len(q) - 3}
  BY <1>1 DEF Range
<1>8. {q[1], q[2], q[3]} \subseteq Range(q) /\ {q[1], q[2], q[3]} \subseteq S
  BY <1>1, <1>2, <1>7
<1>9. ASSUME NEW y \in Range(p) PROVE y \in Range(q) \ {q[1], q[2], q[3]}
  <2>1. PICK k \in 1 .. Len(q) - 3 : y = p[k]
    BY <1>7
  <2>2. y = q[k + 3] /\ k + 3 \in 1 .. Len(q) /\ k + 3 # 1 /\ k + 3 # 2 /\ k + 3 # 3
    BY <1>1, <1>2, <2>1
  <2>3. y # q[1] /\ y # q[2] /\ y # q[3]
    BY <1>2, <1>4, <2>2
  <2> QED
    BY <1>7, <2>2, <2>3
<1>10. ASSUME NEW y \in Range(q) \ {q[1], q[2], q[3]} PROVE y \in Range(p)
  <2>1. PICK k \in 1 .. Len(q) : y = q[k]
    BY <1>7
  <2>2. k \notin {1, 2, 3}
    BY <1>10, <2>1
  <2>3. PICK j \in 1 .. Len(q) - 3 : k = j + 3
    BY <1>3, <2>2
  <2>4. p[j] = y
    BY <1>1, <2>1, <2>3
  <2> QED
    BY <1>7, <2>4
<1> QED
  BY <1>1, <1>5, <1>6, <1>8, <1>9, <1>10 DEF p

(* Elements put in front of a list. *)
Front1(x, q) == <<x>> \o q
Front3(x, y, z, q) == <<x, y, z>> \o q

(* A freed one is put in front of a list (sys_sem_free, sys_mbox_free).    *)
LEMMA PutsFirst ==
  ASSUME NEW S, NEW q \in Seq(S), NEW x \in S, IsInjective(q), x \notin Range(q)
  PROVE  /\ Front1(x, q) \in Seq(S) /\ Len(Front1(x, q)) = Len(q) + 1
         /\ IsInjective(Front1(x, q)) /\ Range(Front1(x, q)) = Range(q) \cup {x}
<1>0. PICK p : p = Front1(x, q)
  OBVIOUS
<1>1. /\ p \in Seq(S) /\ Len(p) = Len(q) + 1 /\ Len(q) \in Nat
      /\ DOMAIN q = 1 .. Len(q) /\ DOMAIN p = 1 .. Len(q) + 1
      /\ p[1] = x /\ \A k \in 1 .. Len(q) : p[k + 1] = q[k]
  BY SMTT(60), <1>0 DEF Front1
<1>2. /\ \A k \in 1 .. Len(q) : k + 1 \in 1 .. Len(q) + 1
      /\ 1 \in 1 .. Len(q) + 1
  BY SMTT(60), <1>1
<1>3. ASSUME NEW k \in 1 .. Len(q) + 1, k # 1
      PROVE  \E j \in 1 .. Len(q) : k = j + 1
  <2>1. k - 1 \in 1 .. Len(q) /\ k = (k - 1) + 1
    BY SMTT(60), <1>1, <1>3
  <2> QED
    BY <2>1
<1>4. \A i, j \in 1 .. Len(q) : q[i] = q[j] => i = j
  BY <1>1 DEF IsInjective
<1>5. Range(q) = {q[k] : k \in 1 .. Len(q)} /\ Range(p) = {p[k] : k \in 1 .. Len(q) + 1}
  BY <1>1 DEF Range
<1>6. ASSUME NEW k \in 1 .. Len(q) + 1, k # 1 PROVE p[k] \in Range(q) /\ p[k] # x
  <2>1. PICK j \in 1 .. Len(q) : k = j + 1
    BY <1>3, <1>6
  <2>2. p[k] = q[j]
    BY <1>1, <2>1
  <2> QED
    BY <1>5, <2>2
<1>7. IsInjective(p)
  <2> SUFFICES ASSUME NEW a \in 1 .. Len(q) + 1, NEW b \in 1 .. Len(q) + 1, p[a] = p[b]
               PROVE  a = b
    BY <1>1 DEF IsInjective
  <2>1. CASE a = 1 \/ b = 1
    BY <1>1, <1>6, <2>1
  <2>2. CASE a # 1 /\ b # 1
    <3>1. PICK i \in 1 .. Len(q) : a = i + 1
      BY <1>3, <2>2
    <3>2. PICK j \in 1 .. Len(q) : b = j + 1
      BY <1>3, <2>2
    <3>3. q[i] = q[j]
      BY <1>1, <3>1, <3>2
    <3> QED
      BY <1>4, <3>1, <3>2, <3>3
  <2> QED
    BY <2>1, <2>2
<1>8. \A y \in Range(p) : y \in Range(q) \cup {x}
  BY <1>1, <1>5, <1>6
<1>9. \A y \in Range(q) : y \in Range(p)
  BY <1>1, <1>2, <1>5
<1>10. x \in Range(p)
  BY <1>1, <1>2, <1>5
<1> QED
  BY <1>0, <1>1, <1>7, <1>8, <1>9, <1>10

(* netconn_free puts three semaphores in front of the list.                *)
LEMMA PutsThree ==
  ASSUME NEW S, NEW q \in Seq(S), NEW x \in S, NEW y \in S, NEW z \in S,
         IsInjective(q), x # y, x # z, y # z,
         x \notin Range(q), y \notin Range(q), z \notin Range(q)
  PROVE  /\ Front3(x, y, z, q) \in Seq(S) /\ Len(Front3(x, y, z, q)) = Len(q) + 3
         /\ IsInjective(Front3(x, y, z, q))
         /\ Range(Front3(x, y, z, q)) = Range(q) \cup {x, y, z}
<1>0. PICK p : p = Front3(x, y, z, q)
  OBVIOUS
<1>1. /\ p \in Seq(S) /\ Len(p) = Len(q) + 3 /\ Len(q) \in Nat
      /\ DOMAIN q = 1 .. Len(q) /\ DOMAIN p = 1 .. Len(q) + 3
      /\ p[1] = x /\ p[2] = y /\ p[3] = z /\ \A k \in 1 .. Len(q) : p[k + 3] = q[k]
  BY SMTT(60), <1>0 DEF Front3
<1>2. /\ \A k \in 1 .. Len(q) : k + 3 \in 1 .. Len(q) + 3
      /\ 1 \in 1 .. Len(q) + 3 /\ 2 \in 1 .. Len(q) + 3 /\ 3 \in 1 .. Len(q) + 3
  BY SMTT(60), <1>1
<1>3. ASSUME NEW k \in 1 .. Len(q) + 3, k \notin {1, 2, 3}
      PROVE  \E j \in 1 .. Len(q) : k = j + 3
  <2>1. k - 3 \in 1 .. Len(q) /\ k = (k - 3) + 3
    BY SMTT(60), <1>1, <1>3
  <2> QED
    BY <2>1
<1>4. ASSUME NEW k \in 1 .. Len(q) + 3
      PROVE  \/ k = 1 /\ p[k] = x
             \/ k = 2 /\ p[k] = y
             \/ k = 3 /\ p[k] = z
             \/ \E j \in 1 .. Len(q) : k = j + 3 /\ p[k] = q[j] /\ q[j] \in Range(q)
  <2>1. CASE k \in {1, 2, 3}
    BY <1>1, <2>1
  <2>2. CASE k \notin {1, 2, 3}
    <3>1. PICK j \in 1 .. Len(q) : k = j + 3
      BY <1>3, <2>2
    <3>2. p[k] = q[j] /\ q[j] \in Range(q)
      BY <1>1, <3>1 DEF Range
    <3> QED
      BY <3>1, <3>2
  <2> QED
    BY <2>1, <2>2
<1>5. Range(p) = Range(q) \cup {x, y, z}
  <2>1. ASSUME NEW w \in Range(p) PROVE w \in Range(q) \cup {x, y, z}
    <3>1. PICK k \in 1 .. Len(q) + 3 : w = p[k]
      BY <1>1 DEF Range
    <3> QED
      BY <1>4, <3>1
  <2>2. ASSUME NEW w \in Range(q) PROVE w \in Range(p)
    <3>1. PICK j \in 1 .. Len(q) : w = q[j]
      BY <1>1 DEF Range
    <3>2. w = p[j + 3] /\ j + 3 \in DOMAIN p
      BY <1>1, <1>2, <3>1
    <3> QED
      BY <3>2 DEF Range
  <2>3. x \in Range(p) /\ y \in Range(p) /\ z \in Range(p)
    BY <1>1, <1>2 DEF Range
  <2> QED
    BY <2>1, <2>2, <2>3
<1>6. IsInjective(p)
  <2>1. ASSUME NEW k \in 1 .. Len(q) + 3, NEW l \in 1 .. Len(q) + 3, p[k] = p[l]
        PROVE  k = l
    <3>1. CASE p[k] \in {x, y, z}
      BY <1>4, <2>1, <3>1
    <3>2. CASE p[k] \notin {x, y, z}
      <4>1. PICK i \in 1 .. Len(q) : k = i + 3 /\ p[k] = q[i]
        BY <1>4, <3>2
      <4>2. PICK j \in 1 .. Len(q) : l = j + 3 /\ p[l] = q[j]
        BY <1>4, <2>1, <3>2
      <4>3. i = j
        BY <1>1, <2>1, <4>1, <4>2 DEF IsInjective
      <4> QED
        BY <4>1, <4>2, <4>3
    <3> QED
      BY <3>1, <3>2
  <2> QED
    BY <1>1, <2>1 DEF IsInjective
<1> QED
  BY <1>0, <1>1, <1>5, <1>6

-----------------------------------------------------------------------------
(* A signal wakes threads and does nothing else to them (thread_wakeup).   *)
LEMMA WokenKeeps ==
  ASSUME NEW T \in [Thread -> ThreadRec], NEW S, NEW s
  PROVE  /\ Woken(T, S, s) \in [Thread -> ThreadRec]
         /\ \A u \in Thread :
              /\ Woken(T, S, s)[u].req = T[u].req /\ Woken(T, S, s)[u].buf = T[u].buf
              /\ Woken(T, S, s)[u].pc = T[u].pc /\ Woken(T, S, s)[u].then = T[u].then
<1> DEFINE W == thread_wakeup(T, s)
<1>1. \A u \in Thread : LET w == [T[u] EXCEPT !.wakeup = TRUE] IN
        /\ w \in ThreadRec /\ w.req = T[u].req /\ w.buf = T[u].buf
        /\ w.pc = T[u].pc /\ w.then = T[u].then
  BY DEF ThreadRec
<1>2. \A u \in Thread : W[u] = T[u] \/ W[u] = [T[u] EXCEPT !.wakeup = TRUE]
  BY DEF thread_wakeup
<1>3. W \in [Thread -> ThreadRec]
  BY <1>1 DEF thread_wakeup
<1> QED
  BY <1>1, <1>2, <1>3 DEF Woken

(* The places of a ring come round (sys_mbox_trypost, sys_arch_mbox_fetch).*)
LEMMA RingPlaces ==
  /\ 0 \in 0 .. MBOXSLOTS - 1 /\ -1 \in -1 .. MBOXSLOTS - 1
  /\ \A k \in -1 .. MBOXSLOTS - 1 :
       /\ (k + 1) % MBOXSLOTS \in 0 .. MBOXSLOTS - 1
       /\ (k + 1) % MBOXSLOTS \in -1 .. MBOXSLOTS - 1
       /\ k # -1 => k \in 0 .. MBOXSLOTS - 1
  /\ \A k \in 0 .. MBOXSLOTS - 1 : k \in -1 .. MBOXSLOTS - 1
<1>1. MBOXSLOTS \in Nat /\ MBOXSLOTS >= 1
  BY SMTT(60), NetAssumption
<1>2. ASSUME NEW k \in -1 .. MBOXSLOTS - 1
      PROVE  (k + 1) % MBOXSLOTS \in 0 .. MBOXSLOTS - 1
  BY SMTT(60), <1>1
<1>3. /\ 0 \in 0 .. MBOXSLOTS - 1 /\ -1 \in -1 .. MBOXSLOTS - 1
      /\ \A k \in -1 .. MBOXSLOTS - 1 : k # -1 => k \in 0 .. MBOXSLOTS - 1
      /\ \A k \in 0 .. MBOXSLOTS - 1 : k \in -1 .. MBOXSLOTS - 1
  BY SMTT(60), <1>1
<1> QED
  BY <1>2, <1>3

(* So is a new one of its type (sys_mbox_new).                             *)
LEMMA EmptyTyped ==
  ASSUME NEW q \in Sem, NEW f \in Sem
  PROVE  /\ EmptyMbox(q, f) \in MboxRec /\ ~EmptyMbox(q, f).freed
         /\ EmptyMbox(q, f).queued = q /\ EmptyMbox(q, f).free = f
<1>1. NoMsg \in Msg
  BY SMTT(60) DEF NoMsg, Msg
<1> QED
  BY <1>1, RingPlaces DEF EmptyMbox, MboxRec

(* netconn_free drains a number of messages.                               *)
LEMMA MessagesCount ==
  ASSUME NEW m \in MboxRec
  PROVE  Len(Messages(m)) \in Nat
<1>1. CASE m.head = -1
  BY SMTT(60), <1>1 DEF Messages
<1>2. CASE m.head # -1
  <2>1. m.head \in -1 .. MBOXSLOTS - 1 /\ m.nextq \in 0 .. MBOXSLOTS - 1
    BY DEF MboxRec
  <2>2. PICK n \in Nat : n = ((m.nextq - m.head + MBOXSLOTS - 1) % MBOXSLOTS) + 1
    BY SMTT(60), <2>1, NetAssumption
  <2>3. Messages(m) = [k \in 1 .. n |-> m.msg[(m.head + k - 1) % MBOXSLOTS]]
    BY <1>2, <2>2 DEF Messages
  <2>4. Len(Messages(m)) = n
    BY SMTT(60), <2>3
  <2> QED
    BY <2>4
<1> QED
  BY <1>1, <1>2

-----------------------------------------------------------------------------
(* Who has which semaphores and mailboxes stays as it is.                  *)
SamePools ==
  /\ sem_free' = sem_free /\ mbox_free' = mbox_free
  /\ \A s \in Sem : sems'[s].freed = sems[s].freed
  /\ \A b \in Mbox : /\ mboxes'[b].freed = mboxes[b].freed
                     /\ mboxes'[b].queued = mboxes[b].queued
                     /\ mboxes'[b].free = mboxes[b].free
  /\ \A c \in Client : /\ conn'[c].alive = conn[c].alive
                       /\ conn'[c].op = conn[c].op
                       /\ conn'[c].recvmbox = conn[c].recvmbox

(* Who owns what depends on that alone.                                    *)
LEMMA PoolsKept ==
  ASSUME Typed, Owned, Listed, Counted, SamePools
  PROVE  Owned' /\ Listed' /\ Counted'
<1>1. Alive' = Alive
  BY DEF Alive, SamePools
<1>2. \A c \in Client : /\ conn[c].recvmbox \in Mbox /\ conn[c].op \in Sem
                        /\ QueuedOf(c) \in Sem /\ FreeOf(c) \in Sem
  <2>1. \A c \in Client : conn[c].recvmbox \in Mbox /\ conn[c].op \in Sem
    BY DEF Typed, ConnRec
  <2>2. \A b \in Mbox : mboxes[b].queued \in Sem /\ mboxes[b].free \in Sem
    BY DEF Typed, MboxRec
  <2> QED
    BY <2>1, <2>2 DEF QueuedOf, FreeOf
<1>3. \A c \in Client : /\ conn'[c].recvmbox = conn[c].recvmbox
                        /\ OpOf(c)' = OpOf(c)
                        /\ QueuedOf(c)' = QueuedOf(c) /\ FreeOf(c)' = FreeOf(c)
  BY <1>2 DEF SamePools, OpOf, QueuedOf, FreeOf
<1>4. Owned'
  <2>1. ASSUME NEW c \in Alive
        PROVE  /\ ~mboxes'[conn'[c].recvmbox].freed
               /\ ~sems'[OpOf(c)'].freed /\ ~sems'[QueuedOf(c)'].freed
               /\ ~sems'[FreeOf(c)'].freed
               /\ OpOf(c)' # QueuedOf(c)' /\ OpOf(c)' # FreeOf(c)'
               /\ QueuedOf(c)' # FreeOf(c)'
    <3>1. /\ c \in Client /\ ~mboxes[conn[c].recvmbox].freed
          /\ ~sems[OpOf(c)].freed /\ ~sems[QueuedOf(c)].freed /\ ~sems[FreeOf(c)].freed
          /\ OpOf(c) # QueuedOf(c) /\ OpOf(c) # FreeOf(c) /\ QueuedOf(c) # FreeOf(c)
      BY DEF Owned, Alive
    <3>2. /\ sems'[OpOf(c)].freed = sems[OpOf(c)].freed
          /\ sems'[QueuedOf(c)].freed = sems[QueuedOf(c)].freed
          /\ sems'[FreeOf(c)].freed = sems[FreeOf(c)].freed
          /\ mboxes'[conn[c].recvmbox].freed = mboxes[conn[c].recvmbox].freed
      BY <1>2, <3>1 DEF SamePools, OpOf
    <3> QED
      BY <1>3, <3>1, <3>2
  <2>2. ASSUME NEW c \in Alive, NEW d \in Alive, c # d
        PROVE  /\ conn'[c].recvmbox # conn'[d].recvmbox
               /\ {OpOf(c)', QueuedOf(c)', FreeOf(c)'}
                    \cap {OpOf(d)', QueuedOf(d)', FreeOf(d)'} = {}
    BY <1>3, <2>2 DEF Owned, Alive
  <2> QED
    BY <1>1, <2>1, <2>2 DEF Owned
<1>5. Listed'
  <2>1. /\ {s \in Sem : sems'[s].freed} = {s \in Sem : sems[s].freed}
        /\ {b \in Mbox : mboxes'[b].freed} = {b \in Mbox : mboxes[b].freed}
    BY DEF SamePools
  <2> QED
    BY <2>1 DEF Listed, SamePools
<1>6. Counted'
  BY <1>1 DEF Counted, SamePools
<1> QED
  BY <1>4, <1>5, <1>6

(* What is there for a client without a connection.                        *)
LEMMA Enough ==
  ASSUME Counted, NEW c \in Client, ~conn[c].alive
  PROVE  /\ Len(sem_free) >= 3 /\ mbox_free # << >>
         /\ Cardinality(Alive \cup {c}) = Cardinality(Alive) + 1
         /\ Cardinality(Alive) \in Nat /\ Cardinality(Client) \in Nat
<1>1. IsFiniteSet(Alive) /\ c \notin Alive /\ Alive \cup {c} \subseteq Client
  <2>1. Alive \subseteq Client /\ c \notin Alive
    BY DEF Alive
  <2> QED
    BY <2>1, Constants, FS_Subset
<1>2. Cardinality(Alive \cup {c}) = Cardinality(Alive) + 1
  BY <1>1, FS_AddElement
<1>3. Cardinality(Alive \cup {c}) <= Cardinality(Client)
  BY <1>1, Constants, FS_Subset
<1>4. Cardinality(Alive) \in Nat /\ Cardinality(Client) \in Nat
  BY <1>1, Constants, FS_CardinalityType
<1>5. Len(sem_free) >= 3 /\ Len(mbox_free) >= 1
  BY SMTT(60), <1>2, <1>3, <1>4 DEF Counted
<1>6. mbox_free # << >>
  <2>1. Len(<< >>) = 0
    BY SMTT(60)
  <2>2. Len(mbox_free) # 0
    BY SMTT(60), <1>5
  <2> QED
    BY <2>1, <2>2
<1> QED
  BY <1>2, <1>4, <1>5, <1>6

(* netconn_alloc gives a client what nobody else has.                      *)
LEMMA AllocPools ==
  ASSUME Typed, Owned, Listed, Counted, NEW c \in Client, ~conn[c].alive,
         netconn_alloc(c)
  PROVE  /\ sems' \in [Sem -> SemRec] /\ mboxes' \in [Mbox -> MboxRec]
         /\ conn' \in [Client -> ConnRec]
         /\ sem_free' \in Seq(Sem) /\ mbox_free' \in Seq(Mbox)
         /\ conn'[c].alive /\ \A d \in Client \ {c} : conn'[d] = conn[d]
         /\ Owned' /\ Listed' /\ Counted'
<1> DEFINE op == sem_free[1]
           q == sem_free[2]
           f == sem_free[3]
           b == Head(mbox_free)
           New(e, n) == [e EXCEPT !.freed = FALSE, !.counter = n, !.gen = @ + 1]
<1>1. /\ sems' = [sems EXCEPT ![op] = New(@, 0), ![q] = New(@, 0),
                              ![f] = New(@, MBOXSLOTS)]
      /\ sem_free' = SubSeq(sem_free, 4, Len(sem_free))
      /\ mboxes' = [mboxes EXCEPT ![b] = EmptyMbox(q, f)]
      /\ mbox_free' = Tail(mbox_free)
      /\ conn' = [conn EXCEPT ![c] = [alive |-> TRUE, pcb |-> FALSE, op |-> op,
                                      recvmbox |-> b]]
  BY DEF netconn_alloc
<1>2. /\ Len(sem_free) >= 3 /\ mbox_free # << >>
      /\ Cardinality(Alive \cup {c}) = Cardinality(Alive) + 1
      /\ Cardinality(Alive) \in Nat /\ Cardinality(Client) \in Nat
  BY Enough
<1>3. /\ sem_free \in Seq(Sem) /\ IsInjective(sem_free)
      /\ mbox_free \in Seq(Mbox) /\ IsInjective(mbox_free)
      /\ sems \in [Sem -> SemRec] /\ mboxes \in [Mbox -> MboxRec]
      /\ conn \in [Client -> ConnRec]
  BY DEF Typed, Listed
<1>4. /\ sem_free' \in Seq(Sem) /\ Len(sem_free') = Len(sem_free) - 3
      /\ IsInjective(sem_free') /\ {op, q, f} \subseteq Range(sem_free)
      /\ {op, q, f} \subseteq Sem /\ op # q /\ op # f /\ q # f
      /\ Range(sem_free') = Range(sem_free) \ {op, q, f}
  <2>1. LET p == SubSeq(sem_free, 4, Len(sem_free)) IN
         /\ p \in Seq(Sem) /\ Len(p) = Len(sem_free) - 3 /\ IsInjective(p)
         /\ {op, q, f} \subseteq Range(sem_free) /\ {op, q, f} \subseteq Sem
         /\ op # q /\ op # f /\ q # f
         /\ Range(p) = Range(sem_free) \ {op, q, f}
    BY <1>2, <1>3, TakesThree
  <2> QED
    BY <1>1, <2>1
<1>5. /\ mbox_free' \in Seq(Mbox) /\ b \in Mbox /\ IsInjective(mbox_free')
      /\ b \notin Range(mbox_free') /\ {b} \cup Range(mbox_free') = Range(mbox_free)
      /\ Len(mbox_free') = Len(mbox_free) - 1
  <2>1. Len(Tail(mbox_free)) = Len(mbox_free) - 1
    BY SMTT(60), <1>2, <1>3
  <2> QED
    BY <1>1, <1>2, <1>3, <2>1, Shrinks
<1> HIDE DEF op, q, f, b, New
<1>6. ASSUME NEW e \in SemRec, NEW n \in {0, MBOXSLOTS}
      PROVE  New(e, n) \in SemRec /\ ~New(e, n).freed
  <2>1. n \in Nat /\ \A k \in Nat : k + 1 \in Nat
    BY SMTT(60), NetAssumption
  <2> QED
    BY <2>1 DEF SemRec, New
<1>7. /\ sems'[op] = New(sems[op], 0) /\ sems'[q] = New(sems[q], 0)
      /\ sems'[f] = New(sems[f], MBOXSLOTS)
      /\ \A s \in Sem \ {op, q, f} : sems'[s] = sems[s]
      /\ DOMAIN sems' = Sem /\ sems' = [s \in Sem |-> sems'[s]]
  BY <1>1, <1>3, <1>4
<1>8. sems' \in [Sem -> SemRec]
  <2>1. ASSUME NEW s \in Sem PROVE sems'[s] \in SemRec
    <3>1. sems[s] \in SemRec
      BY <1>3
    <3>2. CASE s \in {op, q, f}
      BY <1>6, <1>7, <3>1, <3>2
    <3>3. CASE s \notin {op, q, f}
      BY <1>7, <3>1, <3>3
    <3> QED
      BY <3>2, <3>3
  <2> QED
    BY <1>7, <2>1
<1>9. /\ ~sems'[op].freed /\ ~sems'[q].freed /\ ~sems'[f].freed
  <2>1. sems[op] \in SemRec /\ sems[q] \in SemRec /\ sems[f] \in SemRec
    BY <1>3, <1>4
  <2> QED
    BY <1>6, <1>7, <2>1
<1>10. /\ mboxes' \in [Mbox -> MboxRec] /\ ~mboxes'[b].freed
       /\ mboxes'[b].queued = q /\ mboxes'[b].free = f
       /\ \A z \in Mbox \ {b} : mboxes'[z] = mboxes[z]
  <2>1. PICK m \in MboxRec : m = EmptyMbox(q, f) /\ ~m.freed /\ m.queued = q /\ m.free = f
    BY <1>4, EmptyTyped
  <2>2. mboxes' = [mboxes EXCEPT ![b] = m]
    BY <1>1, <2>1
  <2>3. mboxes' \in [Mbox -> MboxRec]
    BY <1>3, <2>2
  <2>4. mboxes'[b] = m /\ \A z \in Mbox \ {b} : mboxes'[z] = mboxes[z]
    BY <1>3, <1>5, <2>2
  <2> QED
    BY <2>1, <2>3, <2>4
<1>11. /\ conn' \in [Client -> ConnRec] /\ conn'[c].alive /\ conn'[c].op = op
       /\ conn'[c].recvmbox = b /\ \A d \in Client \ {c} : conn'[d] = conn[d]
  <2>1. PICK e : e = [alive |-> TRUE, pcb |-> FALSE, op |-> op, recvmbox |-> b]
    OBVIOUS
  <2>2. e \in ConnRec /\ e.alive /\ e.op = op /\ e.recvmbox = b
    BY <1>4, <1>5, <2>1 DEF ConnRec
  <2>3. conn' = [conn EXCEPT ![c] = e]
    BY <1>1, <2>1
  <2>4. conn' \in [Client -> ConnRec]
    BY <1>3, <2>2, <2>3
  <2>5. conn'[c] = e /\ \A d \in Client \ {c} : conn'[d] = conn[d]
    BY <1>3, <2>3
  <2> QED
    BY <2>2, <2>4, <2>5
<1>12. Alive' = Alive \cup {c}
  <2>1. \A d \in Client : conn'[d].alive <=> d = c \/ conn[d].alive
    BY <1>11
  <2> QED
    BY <2>1 DEF Alive
<1>13. Counted'
  <2>1. /\ Len(sem_free') = 3 * (Cardinality(Client) - Cardinality(Alive'))
        /\ Len(mbox_free') = Cardinality(Client) - Cardinality(Alive')
    <3>1. Cardinality(Alive') = Cardinality(Alive) + 1
      BY <1>2, <1>12
    <3>2. /\ Len(sem_free) = 3 * (Cardinality(Client) - Cardinality(Alive))
          /\ Len(mbox_free) = Cardinality(Client) - Cardinality(Alive)
      BY DEF Counted
    <3>3. Len(sem_free') = Len(sem_free) - 3 /\ Len(mbox_free') = Len(mbox_free) - 1
      BY <1>4, <1>5
    <3>4. Cardinality(Alive) \in Nat /\ Cardinality(Client) \in Nat
      BY <1>2
    <3> QED
      BY SMTT(60), <3>1, <3>2, <3>3, <3>4
  <2> QED
    BY <2>1 DEF Counted
<1>14. Listed'
  <2>1. {s \in Sem : sems'[s].freed} = Range(sem_free')
    <3>1. {s \in Sem : sems[s].freed} = Range(sem_free)
      BY DEF Listed
    <3>2. ASSUME NEW s \in Sem PROVE sems'[s].freed <=> s \in Range(sem_free')
      <4>1. CASE s \in {op, q, f}
        BY <1>4, <1>9, <4>1
      <4>2. CASE s \notin {op, q, f}
        <5>1. sems'[s] = sems[s]
          BY <1>7, <4>2
        <5>2. s \in Range(sem_free) <=> s \in Range(sem_free')
          BY <1>4, <4>2
        <5>3. s \in Range(sem_free) <=> sems[s].freed
          BY <3>1
        <5> QED
          BY <5>1, <5>2, <5>3
      <4> QED
        BY <4>1, <4>2
    <3>3. Range(sem_free') \subseteq Sem
      BY <1>4, <3>1
    <3> QED
      BY <3>2, <3>3
  <2>2. {z \in Mbox : mboxes'[z].freed} = Range(mbox_free')
    <3>1. {z \in Mbox : mboxes[z].freed} = Range(mbox_free)
      BY DEF Listed
    <3>2. ASSUME NEW z \in Mbox PROVE mboxes'[z].freed <=> z \in Range(mbox_free')
      <4>1. CASE z = b
        BY <1>5, <1>10, <4>1
      <4>2. CASE z # b
        <5>1. mboxes'[z] = mboxes[z]
          BY <1>10, <4>2
        <5>2. z \in Range(mbox_free) <=> z \in Range(mbox_free')
          BY <1>5, <4>2
        <5>3. z \in Range(mbox_free) <=> mboxes[z].freed
          BY <3>1
        <5> QED
          BY <5>1, <5>2, <5>3
      <4> QED
        BY <4>1, <4>2
    <3>3. Range(mbox_free') \subseteq Mbox
      BY <1>5, <3>1
    <3> QED
      BY <3>2, <3>3
  <2> QED
    BY <1>4, <1>5, <2>1, <2>2 DEF Listed
<1>15. sems[op].freed /\ sems[q].freed /\ sems[f].freed /\ mboxes[b].freed
  BY <1>4, <1>5 DEF Listed
<1>16. OpOf(c)' = op /\ QueuedOf(c)' = q /\ FreeOf(c)' = f
  BY <1>10, <1>11 DEF OpOf, QueuedOf, FreeOf
<1>17. ASSUME NEW d \in Alive
       PROVE  /\ d \in Client \ {c} /\ conn'[d] = conn[d] /\ conn[d].recvmbox # b
              /\ OpOf(d)' = OpOf(d) /\ QueuedOf(d)' = QueuedOf(d)
              /\ FreeOf(d)' = FreeOf(d)
              /\ {OpOf(d), QueuedOf(d), FreeOf(d)} \subseteq Sem \ {op, q, f}
              /\ ~mboxes'[conn[d].recvmbox].freed
  <2>1. d \in Client \ {c} /\ conn'[d] = conn[d] /\ conn[d].recvmbox \in Mbox
        /\ conn[d].op \in Sem
    BY <1>3, <1>11 DEF Alive, ConnRec
  <2>2. /\ ~mboxes[conn[d].recvmbox].freed /\ ~sems[OpOf(d)].freed
        /\ ~sems[QueuedOf(d)].freed /\ ~sems[FreeOf(d)].freed
    BY DEF Owned
  <2>3. conn[d].recvmbox # b
    BY <1>15, <2>2
  <2>4. mboxes'[conn[d].recvmbox] = mboxes[conn[d].recvmbox]
    BY <1>10, <2>1, <2>3
  <2>5. mboxes[conn[d].recvmbox].queued \in Sem /\ mboxes[conn[d].recvmbox].free \in Sem
    BY <1>3, <2>1 DEF MboxRec
  <2> QED
    BY <1>15, <2>1, <2>2, <2>3, <2>4, <2>5 DEF OpOf, QueuedOf, FreeOf
<1>18. Owned'
  <2>1. ASSUME NEW d \in Alive'
        PROVE  /\ ~mboxes'[conn'[d].recvmbox].freed
               /\ ~sems'[OpOf(d)'].freed /\ ~sems'[QueuedOf(d)'].freed
               /\ ~sems'[FreeOf(d)'].freed
               /\ OpOf(d)' # QueuedOf(d)' /\ OpOf(d)' # FreeOf(d)'
               /\ QueuedOf(d)' # FreeOf(d)'
    <3>1. CASE d = c
      BY <1>4, <1>9, <1>10, <1>11, <1>16, <3>1
    <3>2. CASE d \in Alive
      <4>1. /\ sems'[OpOf(d)] = sems[OpOf(d)] /\ sems'[QueuedOf(d)] = sems[QueuedOf(d)]
            /\ sems'[FreeOf(d)] = sems[FreeOf(d)]
        BY <1>7, <1>17, <3>2
      <4>2. /\ ~sems[OpOf(d)].freed /\ ~sems[QueuedOf(d)].freed /\ ~sems[FreeOf(d)].freed
            /\ OpOf(d) # QueuedOf(d) /\ OpOf(d) # FreeOf(d) /\ QueuedOf(d) # FreeOf(d)
        BY <3>2 DEF Owned
      <4> QED
        BY <1>17, <3>2, <4>1, <4>2
    <3> QED
      BY <1>12, <3>1, <3>2
  <2>2. ASSUME NEW d \in Alive', NEW e \in Alive', d # e
        PROVE  /\ conn'[d].recvmbox # conn'[e].recvmbox
               /\ {OpOf(d)', QueuedOf(d)', FreeOf(d)'}
                    \cap {OpOf(e)', QueuedOf(e)', FreeOf(e)'} = {}
    <3>0. ASSUME NEW x \in Alive
          PROVE  /\ conn'[x].recvmbox # conn'[c].recvmbox
                 /\ {OpOf(x)', QueuedOf(x)', FreeOf(x)'} \subseteq Sem \ {op, q, f}
      <4>1. /\ conn'[x] = conn[x] /\ conn[x].recvmbox # b
            /\ OpOf(x)' = OpOf(x) /\ QueuedOf(x)' = QueuedOf(x) /\ FreeOf(x)' = FreeOf(x)
            /\ {OpOf(x), QueuedOf(x), FreeOf(x)} \subseteq Sem \ {op, q, f}
        BY <1>17
      <4>2. conn'[c].recvmbox = b
        BY <1>11
      <4> QED
        BY <4>1, <4>2
    <3>1. CASE d = c /\ e \in Alive
      BY <1>16, <3>0, <3>1
    <3>2. CASE e = c /\ d \in Alive
      BY <1>16, <3>0, <3>2
    <3>3. CASE d \in Alive /\ e \in Alive
      <4>1. /\ conn[d].recvmbox # conn[e].recvmbox
            /\ {OpOf(d), QueuedOf(d), FreeOf(d)} \cap {OpOf(e), QueuedOf(e), FreeOf(e)} = {}
        BY <2>2, <3>3 DEF Owned
      <4> QED
        BY <1>17, <3>3, <4>1
    <3> QED
      BY <1>12, <2>2, <3>1, <3>2, <3>3
  <2> QED
    BY <2>1, <2>2 DEF Owned
<1> QED
  BY <1>4, <1>5, <1>8, <1>10, <1>11, <1>13, <1>14, <1>18

(* netconn_free gives back what the connection had, and nothing else.      *)
LEMMA FreePools ==
  ASSUME Typed, Owned, Listed, Counted, NEW c \in Client, conn[c].alive,
         NEW T \in [Thread -> ThreadRec], netconn_free(T, c)
  PROVE  /\ sems' \in [Sem -> SemRec] /\ mboxes' \in [Mbox -> MboxRec]
         /\ conn' \in [Client -> ConnRec]
         /\ sem_free' \in Seq(Sem) /\ mbox_free' \in Seq(Mbox)
         /\ ~conn'[c].alive /\ \A d \in Client \ {c} : conn'[d] = conn[d]
         /\ Owned' /\ Listed' /\ Counted'
         /\ th' \in [Thread -> ThreadRec]
         /\ \A u \in Thread :
              /\ th'[u].req = T[u].req /\ th'[u].buf = T[u].buf
              /\ th'[u].pc = T[u].pc /\ th'[u].then = T[u].then
<1> DEFINE b == conn[c].recvmbox
           op == conn[c].op
           q == mboxes[b].queued
           f == mboxes[b].free
           n == Len(Messages(mboxes[b]))
           Box == [EmptyMbox(q, f) EXCEPT !.freed = TRUE, !.nextq = mboxes[b].nextq]
<1>1. /\ sems' = [sems EXCEPT ![q] = Freed(Emptied(@)), ![f] = Freed(Given(@, n)),
                             ![op] = Freed(@)]
      /\ sem_free' = <<op, f, q>> \o sem_free
      /\ mboxes' = [mboxes EXCEPT ![b] = Box]
      /\ mbox_free' = <<b>> \o mbox_free
      /\ conn' = [conn EXCEPT ![c] = NoConn]
      /\ th' = IF n > 0 THEN Woken(T, sems, f) ELSE T
  <2>1. sems' = [sems EXCEPT ![q] = Freed(Emptied(@)), ![f] = Freed(Given(@, n)),
                             ![op] = Freed(@)]
    BY DEF netconn_free
  <2>2. sem_free' = <<op, f, q>> \o sem_free /\ mbox_free' = <<b>> \o mbox_free
    BY DEF netconn_free
  <2>3. mboxes' = [mboxes EXCEPT ![b] = Box]
    BY DEF netconn_free
  <2>4. conn' = [conn EXCEPT ![c] = NoConn]
    BY DEF netconn_free
  <2>5. th' = IF n > 0 THEN Woken(T, sems, f) ELSE T
    BY DEF netconn_free
  <2> HIDE DEF b, op, q, f, n, Box
  <2> QED
    BY <2>1, <2>2, <2>3, <2>4, <2>5
<1>2. /\ sems \in [Sem -> SemRec] /\ mboxes \in [Mbox -> MboxRec]
      /\ conn \in [Client -> ConnRec] /\ sem_free \in Seq(Sem) /\ mbox_free \in Seq(Mbox)
      /\ IsInjective(sem_free) /\ IsInjective(mbox_free)
  BY DEF Typed, Listed
<1>3. /\ b \in Mbox /\ op \in Sem /\ mboxes[b] \in MboxRec /\ q \in Sem /\ f \in Sem
      /\ mboxes[b].nextq \in 0 .. MBOXSLOTS - 1
  <2>1. b \in Mbox /\ op \in Sem
    BY <1>2 DEF ConnRec
  <2> QED
    BY <1>2, <2>1 DEF MboxRec
<1>4. /\ OpOf(c) = op /\ QueuedOf(c) = q /\ FreeOf(c) = f /\ c \in Alive
  BY DEF OpOf, QueuedOf, FreeOf, Alive
<1>5. /\ ~mboxes[b].freed /\ ~sems[op].freed /\ ~sems[q].freed /\ ~sems[f].freed
      /\ op # q /\ op # f /\ q # f
  BY <1>4 DEF Owned
<1>6. n \in Nat
  BY <1>3, MessagesCount
<1> HIDE DEF n, b, op, q, f
<1>7. /\ th' \in [Thread -> ThreadRec]
      /\ \A u \in Thread :
           /\ th'[u].req = T[u].req /\ th'[u].buf = T[u].buf
           /\ th'[u].pc = T[u].pc /\ th'[u].then = T[u].then
  <2> DEFINE W == Woken(T, sems, f)
  <2>1. /\ W \in [Thread -> ThreadRec]
        /\ \A u \in Thread : /\ W[u].req = T[u].req /\ W[u].buf = T[u].buf
                             /\ W[u].pc = T[u].pc /\ W[u].then = T[u].then
    BY SMTT(60), WokenKeeps
  <2>2. th' = W \/ th' = T
    BY <1>1
  <2> HIDE DEF W
  <2> QED
    BY <2>1, <2>2
<1>8. /\ sem_free' \in Seq(Sem) /\ Len(sem_free') = Len(sem_free) + 3
      /\ IsInjective(sem_free') /\ Range(sem_free') = Range(sem_free) \cup {op, f, q}
  <2>1. op \notin Range(sem_free) /\ f \notin Range(sem_free) /\ q \notin Range(sem_free)
    BY <1>5 DEF Listed
  <2>2. /\ op \in Sem /\ f \in Sem /\ q \in Sem /\ sem_free \in Seq(Sem)
        /\ IsInjective(sem_free) /\ op # f /\ op # q /\ f # q
    BY <1>1, <1>2, <1>3, <1>5
  <2>3. sem_free' = Front3(op, f, q, sem_free)
    BY <1>1 DEF Front3
  <2> HIDE DEF op, f, q
  <2>4. /\ Front3(op, f, q, sem_free) \in Seq(Sem)
        /\ Len(Front3(op, f, q, sem_free)) = Len(sem_free) + 3
        /\ IsInjective(Front3(op, f, q, sem_free))
        /\ Range(Front3(op, f, q, sem_free)) = Range(sem_free) \cup {op, f, q}
    BY SMTT(60), <2>1, <2>2, PutsThree
  <2> QED
    BY <2>3, <2>4
<1>9. /\ mbox_free' \in Seq(Mbox) /\ Len(mbox_free') = Len(mbox_free) + 1
      /\ IsInjective(mbox_free') /\ Range(mbox_free') = Range(mbox_free) \cup {b}
  <2>1. b \notin Range(mbox_free)
    BY <1>5 DEF Listed
  <2>2. /\ b \in Mbox /\ mbox_free \in Seq(Mbox) /\ IsInjective(mbox_free)
    BY <1>2, <1>3
  <2>3. mbox_free' = Front1(b, mbox_free)
    BY <1>1 DEF Front1
  <2> HIDE DEF b
  <2>4. /\ Front1(b, mbox_free) \in Seq(Mbox)
        /\ Len(Front1(b, mbox_free)) = Len(mbox_free) + 1
        /\ IsInjective(Front1(b, mbox_free))
        /\ Range(Front1(b, mbox_free)) = Range(mbox_free) \cup {b}
    BY SMTT(60), <2>1, <2>2, PutsFirst
  <2> QED
    BY <2>3, <2>4
<1>10. ASSUME NEW e \in SemRec
       PROVE  /\ Freed(e) \in SemRec /\ Freed(e).freed
              /\ Freed(Emptied(e)) \in SemRec /\ Freed(Emptied(e)).freed
              /\ Freed(Given(e, n)) \in SemRec /\ Freed(Given(e, n)).freed
  <2>1. 0 \in Nat /\ \A k, l \in Nat : k + 1 \in Nat /\ k + l \in Nat
    BY SMTT(60)
  <2>2. ASSUME NEW g \in SemRec PROVE Freed(g) \in SemRec /\ Freed(g).freed
    BY <2>1 DEF SemRec, Freed
  <2>3. Emptied(e) \in SemRec
    BY <2>1 DEF SemRec, Emptied
  <2>4. Given(e, n) \in SemRec
    BY <1>6, <2>1 DEF SemRec, Given
  <2> QED
    BY <2>2, <2>3, <2>4
<1>11. /\ sems'[op] = Freed(sems[op]) /\ sems'[q] = Freed(Emptied(sems[q]))
       /\ sems'[f] = Freed(Given(sems[f], n))
       /\ \A s \in Sem \ {op, f, q} : sems'[s] = sems[s]
       /\ DOMAIN sems' = Sem /\ sems' = [s \in Sem |-> sems'[s]]
  BY <1>1, <1>2, <1>3, <1>5
<1>12. /\ sems'[op] \in SemRec /\ sems'[q] \in SemRec /\ sems'[f] \in SemRec
       /\ sems'[op].freed /\ sems'[q].freed /\ sems'[f].freed
  <2>1. sems[op] \in SemRec /\ sems[q] \in SemRec /\ sems[f] \in SemRec
    BY <1>2, <1>3
  <2> QED
    BY <1>10, <1>11, <2>1
<1>13. sems' \in [Sem -> SemRec]
  <2>1. ASSUME NEW s \in Sem PROVE sems'[s] \in SemRec
    <3>1. CASE s \in {op, f, q}
      BY <1>12, <3>1
    <3>2. CASE s \notin {op, f, q}
      BY <1>2, <1>11, <3>2
    <3> QED
      BY <3>1, <3>2
  <2> QED
    BY <1>11, <2>1
<1>14. Box \in MboxRec /\ Box.freed
  <2>1. PICK m \in MboxRec : m = EmptyMbox(q, f)
    BY <1>3, EmptyTyped
  <2>2. Box = [m EXCEPT !.freed = TRUE, !.nextq = mboxes[b].nextq]
    BY <2>1
  <2>3. PICK k \in 0 .. MBOXSLOTS - 1 : k = mboxes[b].nextq
    BY <1>3
  <2>4. Box = [m EXCEPT !.freed = TRUE, !.nextq = k]
    BY <2>2, <2>3
  <2> HIDE DEF Box
  <2> QED
    BY <2>4 DEF MboxRec
<1> HIDE DEF Box
<1>15. /\ mboxes' \in [Mbox -> MboxRec] /\ mboxes'[b].freed
       /\ \A z \in Mbox \ {b} : mboxes'[z] = mboxes[z]
  <2>1. mboxes' \in [Mbox -> MboxRec]
    BY <1>1, <1>2, <1>14
  <2>2. mboxes'[b] = Box /\ \A z \in Mbox \ {b} : mboxes'[z] = mboxes[z]
    BY <1>1, <1>2, <1>3
  <2> QED
    BY <1>14, <2>1, <2>2
<1>16. /\ conn' \in [Client -> ConnRec] /\ ~conn'[c].alive
       /\ \A d \in Client \ {c} : conn'[d] = conn[d]
  <2>1. NoConn \in ConnRec /\ ~NoConn.alive
    BY Constants DEF NoConn, ConnRec
  <2>2. conn' \in [Client -> ConnRec]
    BY <1>1, <1>2, <2>1
  <2>3. conn'[c] = NoConn /\ \A d \in Client \ {c} : conn'[d] = conn[d]
    BY <1>1, <1>2
  <2> QED
    BY <2>1, <2>2, <2>3
<1>17. Alive' = Alive \ {c}
  <2>1. \A d \in Client : conn'[d].alive <=> d # c /\ conn[d].alive
    BY <1>16
  <2> QED
    BY <2>1 DEF Alive
<1>18. Counted'
  <2>1. IsFiniteSet(Alive)
    <3>1. Alive \subseteq Client
      BY DEF Alive
    <3> QED
      BY <3>1, Constants, FS_Subset
  <2>2. Cardinality(Alive') = Cardinality(Alive) - 1
    BY <1>4, <1>17, <2>1, FS_RemoveElement
  <2>3. Cardinality(Alive) \in Nat /\ Cardinality(Client) \in Nat
    BY <2>1, Constants, FS_CardinalityType
  <2>4. /\ Len(sem_free') = 3 * (Cardinality(Client) - Cardinality(Alive'))
        /\ Len(mbox_free') = Cardinality(Client) - Cardinality(Alive')
    <3>1. /\ Len(sem_free) = 3 * (Cardinality(Client) - Cardinality(Alive))
          /\ Len(mbox_free) = Cardinality(Client) - Cardinality(Alive)
      BY DEF Counted
    <3>2. Len(sem_free') = Len(sem_free) + 3 /\ Len(mbox_free') = Len(mbox_free) + 1
      BY <1>8, <1>9
    <3> QED
      BY SMTT(60), <2>2, <2>3, <3>1, <3>2
  <2> QED
    BY <2>4 DEF Counted
<1>19. Listed'
  <2>1. {s \in Sem : sems'[s].freed} = Range(sem_free')
    <3>1. {s \in Sem : sems[s].freed} = Range(sem_free)
      BY DEF Listed
    <3>2. ASSUME NEW s \in Sem PROVE sems'[s].freed <=> s \in Range(sem_free')
      <4>1. CASE s \in {op, f, q}
        BY <1>8, <1>12, <4>1
      <4>2. CASE s \notin {op, f, q}
        <5>1. sems'[s] = sems[s]
          BY <1>11, <4>2
        <5>2. s \in Range(sem_free) <=> s \in Range(sem_free')
          BY <1>8, <4>2
        <5>3. s \in Range(sem_free) <=> sems[s].freed
          BY <3>1
        <5> QED
          BY <5>1, <5>2, <5>3
      <4> QED
        BY <4>1, <4>2
    <3>3. Range(sem_free') \subseteq Sem
      BY <1>3, <1>8, <3>1
    <3> QED
      BY <3>2, <3>3
  <2>2. {z \in Mbox : mboxes'[z].freed} = Range(mbox_free')
    <3>1. {z \in Mbox : mboxes[z].freed} = Range(mbox_free)
      BY DEF Listed
    <3>2. ASSUME NEW z \in Mbox PROVE mboxes'[z].freed <=> z \in Range(mbox_free')
      <4>1. CASE z = b
        BY <1>9, <1>15, <4>1
      <4>2. CASE z # b
        <5>1. mboxes'[z] = mboxes[z]
          BY <1>15, <4>2
        <5>2. z \in Range(mbox_free) <=> z \in Range(mbox_free')
          BY <1>9, <4>2
        <5>3. z \in Range(mbox_free) <=> mboxes[z].freed
          BY <3>1
        <5> QED
          BY <5>1, <5>2, <5>3
      <4> QED
        BY <4>1, <4>2
    <3>3. Range(mbox_free') \subseteq Mbox
      BY <1>3, <1>9, <3>1
    <3> QED
      BY <3>2, <3>3
  <2> QED
    BY <1>8, <1>9, <2>1, <2>2 DEF Listed
<1>20. ASSUME NEW d \in Alive'
       PROVE  /\ d \in Alive /\ d \in Client \ {c} /\ conn'[d] = conn[d]
              /\ mboxes'[conn[d].recvmbox] = mboxes[conn[d].recvmbox]
              /\ OpOf(d)' = OpOf(d) /\ QueuedOf(d)' = QueuedOf(d)
              /\ FreeOf(d)' = FreeOf(d)
              /\ {OpOf(d), QueuedOf(d), FreeOf(d)} \subseteq Sem \ {op, f, q}
  <2>1. d \in Alive /\ d \in Client \ {c} /\ conn'[d] = conn[d]
    BY <1>16, <1>17 DEF Alive
  <2>2. conn[d].recvmbox \in Mbox /\ conn[d].op \in Sem
    BY <1>2, <2>1 DEF ConnRec
  <2>3. /\ conn[d].recvmbox # conn[c].recvmbox
        /\ {OpOf(d), QueuedOf(d), FreeOf(d)} \cap {OpOf(c), QueuedOf(c), FreeOf(c)} = {}
    BY <1>4, <2>1 DEF Owned
  <2>4. mboxes'[conn[d].recvmbox] = mboxes[conn[d].recvmbox]
    BY <1>15, <2>2, <2>3 DEF b
  <2>5. mboxes[conn[d].recvmbox].queued \in Sem /\ mboxes[conn[d].recvmbox].free \in Sem
    BY <1>2, <2>2 DEF MboxRec
  <2>6. /\ OpOf(d)' = OpOf(d) /\ QueuedOf(d)' = QueuedOf(d) /\ FreeOf(d)' = FreeOf(d)
        /\ {OpOf(d), QueuedOf(d), FreeOf(d)} \subseteq Sem
    BY <2>1, <2>2, <2>4, <2>5 DEF OpOf, QueuedOf, FreeOf
  <2>7. {OpOf(d), QueuedOf(d), FreeOf(d)} \subseteq Sem \ {op, f, q}
    BY <1>4, <2>3, <2>6
  <2> QED
    BY <2>1, <2>4, <2>6, <2>7
<1>21. Owned'
  <2>1. ASSUME NEW d \in Alive'
        PROVE  /\ ~mboxes'[conn'[d].recvmbox].freed
               /\ ~sems'[OpOf(d)'].freed /\ ~sems'[QueuedOf(d)'].freed
               /\ ~sems'[FreeOf(d)'].freed
               /\ OpOf(d)' # QueuedOf(d)' /\ OpOf(d)' # FreeOf(d)'
               /\ QueuedOf(d)' # FreeOf(d)'
    <3>1. /\ sems'[OpOf(d)] = sems[OpOf(d)] /\ sems'[QueuedOf(d)] = sems[QueuedOf(d)]
          /\ sems'[FreeOf(d)] = sems[FreeOf(d)]
      BY <1>11, <1>20
    <3>2. /\ ~mboxes[conn[d].recvmbox].freed
          /\ ~sems[OpOf(d)].freed /\ ~sems[QueuedOf(d)].freed /\ ~sems[FreeOf(d)].freed
          /\ OpOf(d) # QueuedOf(d) /\ OpOf(d) # FreeOf(d) /\ QueuedOf(d) # FreeOf(d)
      BY <1>20 DEF Owned
    <3> QED
      BY <1>20, <3>1, <3>2
  <2>2. ASSUME NEW d \in Alive', NEW e \in Alive', d # e
        PROVE  /\ conn'[d].recvmbox # conn'[e].recvmbox
               /\ {OpOf(d)', QueuedOf(d)', FreeOf(d)'}
                    \cap {OpOf(e)', QueuedOf(e)', FreeOf(e)'} = {}
    <3>1. d \in Alive /\ e \in Alive
      BY <1>20
    <3>2. /\ conn[d].recvmbox # conn[e].recvmbox
          /\ {OpOf(d), QueuedOf(d), FreeOf(d)} \cap {OpOf(e), QueuedOf(e), FreeOf(e)} = {}
      BY <2>2, <3>1 DEF Owned
    <3> QED
      BY <1>20, <3>2
  <2> QED
    BY <2>1, <2>2 DEF Owned
<1> QED
  BY <1>7, <1>8, <1>9, <1>13, <1>15, <1>16, <1>18, <1>19, <1>21

(* When the server starts, all but the tcpip thread's mailbox and its two  *)
(* semaphores are free.                                                    *)
LEMMA InitPools ==
  ASSUME Init
  PROVE  /\ sem_free \in Seq(Sem) /\ mbox_free \in Seq(Mbox)
         /\ Owned /\ Listed /\ Counted
<1>1. PICK n \in Nat : n = Cardinality(Client)
  BY Constants
<1>2. Sem = 0 .. 3 * n + 1 /\ Mbox = 0 .. n
  BY <1>1 DEF Sem, Mbox
<1>3. Cardinality(Sem) - 2 = 3 * n
  <2>1. PICK k \in Int : k = 3 * n + 1 /\ ~(0 > k)
    BY SMTT(60)
  <2>2. 0 \in Int
    BY SMTT(60)
  <2>3. Cardinality(0 .. k) = IF 0 > k THEN 0 ELSE k - 0 + 1
    BY <2>2, FS_Interval
  <2>4. Cardinality(0 .. k) = k - 0 + 1
    BY <2>1, <2>3
  <2>5. Sem = 0 .. k
    BY <1>2, <2>1
  <2> QED
    BY SMTT(60), <2>1, <2>4, <2>5
<1>4. sem_free = [k \in 1 .. 3 * n |-> k + 1] /\ mbox_free = [k \in 1 .. n |-> k]
  BY <1>1, <1>3 DEF Init
<1>5. /\ sem_free \in Seq(Sem) /\ Len(sem_free) = 3 * n
      /\ mbox_free \in Seq(Mbox) /\ Len(mbox_free) = n
  BY SMTT(60), <1>2, <1>4
<1>6. IsInjective(sem_free) /\ IsInjective(mbox_free)
  BY SMTT(60), <1>4 DEF IsInjective
<1>7. Range(sem_free) = 2 .. 3 * n + 1 /\ Range(mbox_free) = 1 .. n
  <2>1. Range(sem_free) = {k + 1 : k \in 1 .. 3 * n} /\ Range(mbox_free) = {k : k \in 1 .. n}
    BY <1>4 DEF Range
  <2>2. {k + 1 : k \in 1 .. 3 * n} = 2 .. 3 * n + 1
    <3>1. \A k \in 1 .. 3 * n : k + 1 \in 2 .. 3 * n + 1
      BY SMTT(60)
    <3>2. ASSUME NEW j \in 2 .. 3 * n + 1 PROVE j \in {k + 1 : k \in 1 .. 3 * n}
      <4>1. j - 1 \in 1 .. 3 * n /\ j = (j - 1) + 1
        BY SMTT(60)
      <4> QED
        BY <4>1
    <3> QED
      BY <3>1, <3>2
  <2>3. {k : k \in 1 .. n} = 1 .. n
    OBVIOUS
  <2> QED
    BY <2>1, <2>2, <2>3
<1>8. \A s \in Sem : sems[s].freed <=> s \notin {0, 1}
  BY DEF Init
<1>9. ASSUME NEW b \in Mbox PROVE mboxes[b].freed <=> b # 0
  <2>1. mboxes[b] = [EmptyMbox(0, 1) EXCEPT !.freed = b # Box0]
    BY DEF Init
  <2>2. mboxes[b].freed = (b # Box0)
    BY <2>1 DEF EmptyMbox
  <2> QED
    BY <2>2 DEF Box0
<1>10. Listed
  <2>1. {s \in Sem : sems[s].freed} = Sem \ {0, 1}
    BY <1>8
  <2>2. {b \in Mbox : mboxes[b].freed} = Mbox \ {0}
    BY <1>9
  <2>3. Sem \ {0, 1} = 2 .. 3 * n + 1 /\ Mbox \ {0} = 1 .. n
    BY SMTT(60), <1>2
  <2> QED
    BY <1>6, <1>7, <2>1, <2>2, <2>3 DEF Listed
<1>11. Alive = {}
  BY DEF Alive, Init, NoConn
<1>12. Owned
  BY <1>11 DEF Owned
<1>13. Counted
  <2>1. Cardinality(Alive) = 0
    BY <1>11, FS_EmptySet
  <2>2. Len(sem_free) = 3 * (n - 0) /\ Len(mbox_free) = n - 0
    BY SMTT(60), <1>5
  <2> QED
    BY <1>1, <2>1, <2>2 DEF Counted
<1> QED
  BY <1>5, <1>10, <1>12, <1>13
=============================================================================
