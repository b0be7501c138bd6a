-------------------------- MODULE FileServerProofs --------------------------
(***************************************************************************)
(* Proofs about FileServer, for any number of clients, descriptors and     *)
(* entries: a descriptor keeps naming the file it was opened for, a file   *)
(* id that a client sends is never refused, and replies reach the client   *)
(* that asked.                                                             *)
(*                                                                         *)
(* What has to be added to the properties to make them inductive: between  *)
(* openfile_alloc, which sees that an entry is not in use, and the reply,  *)
(* which maps its page, nobody can come to hold the page (Fresh); and what *)
(* a client asks for is still mapped while it waits (Asked).               *)
(***************************************************************************)
EXTENDS FileServer, FiniteSetTheorems, TLAPS

(* A leaf is for Zenon, unless it names the SMT solver. *)
USE ZenonT(60)

Unheld(i) == \A c \in Client, n \in Fd : fdtab[c][n] # i

Mapped ==
  \A c \in Client, n \in Fd : fdtab[c][n] # NoEntry =>
    /\ fdpage[fdtab[c][n]] = opentab[fdtab[c][n]].id
    /\ opentab[fdtab[c][n]].file = opened[c][n]

Fresh ==
  /\ srv.pc \in {"alloc", "open"} => srv.type = "open"
  /\ srv.pc = "open" => srv.i \in Entry /\ Unheld(srv.i) /\ fdpage[srv.i] # NoPage
  /\ srv.pc = "reply" /\ srv.pg # NoEntry =>
       /\ srv.type = "open" /\ Unheld(srv.pg)
       /\ fdpage[srv.pg] = opentab[srv.pg].id
       /\ opentab[srv.pg].file = srv.path

Served ==
  srv.pc \in {"alloc", "open", "serve", "reply"} /\ srv.whom # Gone =>
    Waiting(srv.whom)

Asks(c) == cl[c].pc \in {"send", "sent", "recv"}

Asked ==
  \A c \in Client :
    /\ cl[c].pc \in {"dup", "unmap"} => Closing(c) \in Fd
    /\ cl[c].pc = "dup" \/ cl[c].new # NoFd => cl[c].fd \in Fd /\ cl[c].new \in Fd
    /\ Asks(c) /\ cl[c].type = "open" => cl[c].fd \in Fd
    /\ Asks(c) /\ cl[c].type \in {"use", "flush"} =>
         /\ Closing(c) \in Fd
         /\ fdtab[c][Closing(c)] # NoEntry
         /\ cl[c].id = fdpage[fdtab[c][Closing(c)]]

IInv == TypeOK /\ Mapped /\ Fresh /\ Served /\ Asked /\ RepliesMatch /\ NeverRefused

-----------------------------------------------------------------------------
(* The reference counts. *)

(* Only finitely many descriptors can map the page of an entry.            *)
LEMMA HoldersFinite == \A i : IsFiniteSet(Holders(i))
<1>1. IsFiniteSet(Fd)
  BY SMTT(60), FileServerAssumption, FS_Interval DEF Fd
<1>2. IsFiniteSet(Client \X Fd)
  BY <1>1, FileServerAssumption, FS_Product
<1>3. \A i : Holders(i) \subseteq Client \X Fd
  BY DEF Holders
<1>. QED  BY <1>2, <1>3, FS_Subset

(* openfile_alloc's test says exactly whether a client has the entry open. *)
LEMMA InUseMeansHeld ==
  ASSUME TypeOK, Mapped, NEW i \in Entry
  PROVE  InUse(i) <=> ~Unheld(i)
<1>1. Cardinality(Holders(i)) \in Nat /\ (Cardinality(Holders(i)) = 0 <=> Holders(i) = {})
  BY HoldersFinite, FS_CardinalityType, FS_EmptySet
<1>2. Holders(i) = {} <=> Unheld(i)
  <2>1. ASSUME Holders(i) = {} PROVE Unheld(i)
    <3> SUFFICES ASSUME NEW c \in Client, NEW n \in Fd, fdtab[c][n] = i PROVE FALSE
      BY DEF Unheld
    <3>1. <<c, n>> \in Holders(i)
      BY DEF Holders
    <3>. QED  BY <3>1, <2>1
  <2>2. ASSUME Unheld(i) PROVE Holders(i) = {}
    BY <2>2 DEF Unheld, Holders
  <2>. QED  BY <2>1, <2>2
<1>3. ~Unheld(i) => fdpage[i] # NoPage
  <2> SUFFICES ASSUME NEW c \in Client, NEW n \in Fd, fdtab[c][n] = i
               PROVE  fdpage[i] # NoPage
    BY DEF Unheld
  <2>1. i # NoEntry /\ opentab[i].id \in Nat
    BY SMTT(60), FileServerAssumption DEF TypeOK, NoEntry, Entry
  <2>. QED  BY SMTT(60), <2>1 DEF Mapped, NoPage
<1>. QED  BY SMTT(60), <1>1, <1>2, <1>3 DEF InUse, pageref

(* Remainders are unique, and so the next file id of an entry, which is    *)
(* MAXOPEN larger, has the same entry.                                     *)
LEMMA AtLeastOnce ==
  ASSUME NEW d \in Int, NEW k \in Nat \ {0}, d >= 1
  PROVE  k * d >= k
BY SMTT(60)

(* Two ways to divide with remainder agree on the remainder: file ids      *)
(* determine their entry.                                                  *)
LEMMA OneRemainder ==
  ASSUME NEW k \in Nat \ {0}, NEW a \in Int, NEW b \in Int,
         NEW r \in 0 .. k - 1, NEW s \in 0 .. k - 1, k * a + r = k * b + s
  PROVE  r = s
<1>1. k * (a - b) = s - r /\ k * (b - a) = r - s
  BY SMTT(60)
<1>2. CASE a - b >= 1
  BY SMTT(60), <1>1, <1>2, k * (a - b) >= k, AtLeastOnce
<1>3. CASE b - a >= 1
  BY SMTT(60), <1>1, <1>3, k * (b - a) >= k, AtLeastOnce
<1>4. CASE a = b
  BY SMTT(60), <1>4
<1>. QED  BY SMTT(60), <1>2, <1>3, <1>4

(* The file id openfile_alloc gives a reused entry has the same entry.     *)
LEMMA NextIdSameEntry ==
  ASSUME NEW x \in Nat, NEW k \in Nat \ {0}
  PROVE  (x + k) % k = x % k
<1> DEFINE q == x \div k
           r == x % k
           p == (x + k) \div k
           s == (x + k) % k
<1>1. x = k * q + r /\ r \in 0 .. k - 1 /\ q \in Int
  BY SMTT(60)
<1>2. x + k = k * p + s /\ s \in 0 .. k - 1 /\ p \in Int
  BY SMTT(60)
<1> HIDE DEF q, r, p, s
<1>3. k * p + s = k * (q + 1) + r /\ q + 1 \in Int
  BY SMTT(60), <1>1, <1>2
<1>4. s = r
  BY <1>1, <1>2, <1>3, OneRemainder
<1>. QED  BY <1>4 DEF r, s

-----------------------------------------------------------------------------
(* The clients. *)

(* The values that TypeOK gives the request of a client and the state of   *)
(* the server.                                                             *)
Record == [pc : {"free", "user", "send", "sent", "recv", "unmap", "dup"},
           type : {"none", "open", "use", "flush", "sync"},
           path : Path \cup {NoFile}, id : Nat \cup {NoPage},
           fd : Fd \cup {NoFd}, new : Fd \cup {NoFd}]

ServerRecord ==
  [pc : {"recv", "alloc", "open", "serve", "reply", "done", "panic"},
   whom : Client \cup {Gone}, type : {"none", "open", "use", "flush", "sync"},
   path : Path \cup {NoFile}, id : Nat \cup {NoPage}, i : 0 .. MAXOPEN,
   r : BOOLEAN, pg : Entry \cup {NoEntry}]

(* What Asked says of a client with request r. *)
ClosingOf(r) == IF r.new = NoFd THEN r.fd ELSE r.new

GoodRecord(c, r) ==
  /\ r.pc \in {"dup", "unmap"} => ClosingOf(r) \in Fd
  /\ r.pc = "dup" \/ r.new # NoFd => r.fd \in Fd /\ r.new \in Fd
  /\ r.pc \in {"send", "sent", "recv"} /\ r.type = "open" => r.fd \in Fd
  /\ r.pc \in {"send", "sent", "recv"} /\ r.type \in {"use", "flush"} =>
       /\ ClosingOf(r) \in Fd
       /\ fdtab[c][ClosingOf(r)] # NoEntry
       /\ r.id = fdpage[fdtab[c][ClosingOf(r)]]

(* What is said of the request of a client that does not move, while its   *)
(* descriptors and the pages stay, stays true.                             *)
LEMMA AskedKeeps ==
  ASSUME Asked, NEW d \in Client, cl'[d] = cl[d], fdtab'[d] = fdtab[d], fdpage' = fdpage
  PROVE  Asked!(d)'
<1>1. Closing(d)' = Closing(d) /\ (Asks(d)' <=> Asks(d))
  BY DEF Closing, Asks
<1>2. Asked!(d)
  BY DEF Asked
<1>. QED  BY <1>1, <1>2

(* A client in user mode or not running has nothing to ask.                *)
LEMMA AskedIdle ==
  ASSUME NEW d \in Client, cl'[d].pc \in {"user", "free"}, cl'[d].new = NoFd
  PROVE  Asked!(d)'
BY DEF Asks, Closing

(* A client in user mode has no request under way.                         *)
LEMMA IdleFields == Idle.pc = "user" /\ Idle.new = NoFd /\ Idle \in Record
<1>1. Idle.pc = "user"
  BY DEF Idle
<1>2. Idle.new = NoFd
  BY DEF Idle
<1>3. 0 \in Nat
  BY SMTT(60)
<1>4. Idle \in Record
  BY <1>3 DEF Idle, Record
<1>. QED  BY <1>1, <1>2, <1>4

(* A client in dup, whose new descriptor is unmapped. *)
DupRecord(o, n) == [Idle EXCEPT !.pc = "dup", !.fd = o, !.new = n]

(* It has its two descriptors (dup).                                       *)
LEMMA DupFields ==
  ASSUME NEW o \in Fd, NEW n \in Fd
  PROVE  /\ DupRecord(o, n).pc = "dup" /\ DupRecord(o, n).fd = o
         /\ DupRecord(o, n).new = n /\ DupRecord(o, n) \in Record
<1>1. 0 \in Nat
  BY SMTT(60)
<1>2. DupRecord(o, n) \in Record
  BY <1>1 DEF DupRecord, Idle, Record
<1>3. /\ DupRecord(o, n).pc = "dup" /\ DupRecord(o, n).fd = o
      /\ DupRecord(o, n).new = n
  BY DEF DupRecord, Idle
<1>. QED  BY <1>2, <1>3

(* A request stays the same while its client waits for the reply.          *)
LEMMA AskedWaits ==
  ASSUME Asked, NEW d \in Client, Asks(d), cl'[d].pc \in {"sent", "recv"},
         cl'[d].type = cl[d].type, cl'[d].id = cl[d].id, cl'[d].fd = cl[d].fd,
         cl'[d].new = cl[d].new, fdtab'[d] = fdtab[d], fdpage' = fdpage
  PROVE  Asked!(d)'
<1>1. Closing(d)' = Closing(d)
  BY DEF Closing
<1>2. Asked!(d) /\ ~(cl'[d].pc \in {"dup", "unmap"})
  BY DEF Asked
<1>. QED  BY <1>1, <1>2 DEF Asks

(* A client that was in user mode enters a call of the library: all the    *)
(* rest stays, so its request must be a good one.                          *)
LEMMA NewCall ==
  ASSUME IInv, NEW c \in Client, NEW r \in Record, r.pc \in {"send", "dup"},
         GoodRecord(c, r), cl[c].pc = "user", cl' = [cl EXCEPT ![c] = r],
         UNCHANGED <<fdtab, srv, parent, opened, tables>>
  PROVE  IInv'
<1>0. cl \in [Client -> Record] /\ cl'[c] = r /\ \A d \in Client \ {c} : cl'[d] = cl[d]
  BY DEF IInv, TypeOK, Record
<1>1. TypeOK'
  BY SMTT(60) DEF IInv, TypeOK, Record, tables
<1>2. Mapped'
  BY DEF IInv, Mapped, tables
<1>3. Fresh'
  BY DEF IInv, Fresh, Unheld, tables
<1>4. Served'
  BY <1>0 DEF IInv, Served, Waiting, TypeOK
<1>5. Asked'
  <2> SUFFICES ASSUME NEW d \in Client PROVE Asked!(d)'
    BY DEF Asked
  <2>1. CASE d = c
    BY <2>1, <1>0 DEF Asks, Closing, GoodRecord, ClosingOf, tables
  <2>2. CASE d # c
    BY <2>2, <1>0, AskedKeeps DEF IInv, tables
  <2>. QED  BY <2>1, <2>2
<1>6. RepliesMatch'
  BY <1>0 DEF IInv, RepliesMatch, Waiting
<1>7. NeverRefused'
  BY DEF IInv, NeverRefused
<1>. QED  BY <1>1, <1>2, <1>3, <1>4, <1>5, <1>6, <1>7 DEF IInv

(* fork hands the child copies of mappings that are there, and leaves      *)
(* everyone else alone.                                                    *)
LEMMA ForkInv ==
  ASSUME IInv, NEW c \in Client, NEW k \in Client, fork(c, k) PROVE IInv'
<1>0. /\ cl'[k] = Idle /\ \A d \in Client \ {k} : cl'[d] = cl[d]
      /\ fdtab'[k] = fdtab[c] /\ \A d \in Client \ {k} : fdtab'[d] = fdtab[d]
      /\ opened'[k] = opened[c] /\ \A d \in Client \ {k} : opened'[d] = opened[d]
      /\ ~Waiting(k) /\ UNCHANGED <<srv, opentab, fdpage>>
  BY DEF IInv, TypeOK, fork, tables, Waiting
<1>1. TypeOK'
  <2>1. cl' \in [Client -> Record]
    <3>1. cl \in [Client -> Record]
      BY DEF IInv, TypeOK, Record
    <3>. QED  BY <3>1, IdleFields DEF fork
  <2>2. /\ fdtab' \in [Client -> [Fd -> Entry \cup {NoEntry}]]
        /\ opened' \in [Client -> [Fd -> Path \cup {NoFile}]]
        /\ parent' \in [Client -> Client \cup {Gone}]
    BY DEF IInv, TypeOK, fork
  <2>. QED  BY <2>1, <2>2, <1>0 DEF IInv, TypeOK, Record
<1>2. Mapped'
  BY SMTT(60), <1>0 DEF IInv, Mapped
<1>3. \A i : Unheld(i) => Unheld(i)'
  BY <1>0 DEF Unheld
<1>4. Fresh'
  BY <1>0, <1>3 DEF IInv, Fresh
<1>5. Served'
  BY <1>0 DEF IInv, Served, Waiting, TypeOK
<1>6. Asked'
  <2> SUFFICES ASSUME NEW d \in Client PROVE Asked!(d)'
    BY DEF Asked
  <2>1. CASE d = k
    BY SMTT(60), <2>1, <1>0, AskedIdle DEF Idle
  <2>2. CASE d # k
    BY <2>2, <1>0, AskedKeeps DEF IInv
  <2>. QED  BY <2>1, <2>2
<1>7. RepliesMatch'
  BY SMTT(60), <1>0 DEF IInv, RepliesMatch, Waiting, Idle
<1>8. NeverRefused'
  BY <1>0 DEF IInv, NeverRefused
<1>. QED  BY <1>1, <1>2, <1>4, <1>5, <1>6, <1>7, <1>8 DEF IInv

(* open, read, write, stat, truncate, close, sync and the first part of    *)
(* dup each leave a good request.                                          *)
LEMMA CallInv == ASSUME IInv, NEW c \in Client, Call(c) PROVE IInv'
<1>0. /\ cl \in [Client -> Record] /\ fdtab \in [Client -> [Fd -> Entry \cup {NoEntry}]]
      /\ fdpage \in [Entry -> Nat \cup {NoPage}]
      /\ NoFd \notin Fd
  BY SMTT(60) DEF IInv, TypeOK, Record, NoFd, Fd
<1>1. ASSUME NEW path \in Path, open(c, path) PROVE IInv'
  <2> PICK n \in Fd : fsipc(c, "open", path, 0, n, NoFd)
    BY <1>1 DEF open
  <2> DEFINE r == [pc |-> "send", type |-> "open", path |-> path, id |-> 0,
                   fd |-> n, new |-> NoFd]
  <2>1. r \in Record /\ GoodRecord(c, r)
    BY <1>0 DEF Record, GoodRecord, ClosingOf
  <2>2. /\ r.pc = "send" /\ cl[c].pc = "user" /\ cl' = [cl EXCEPT ![c] = r]
        /\ UNCHANGED <<fdtab, srv, parent, opened, tables>>
    BY DEF fsipc
  <2> HIDE DEF r
  <2>. QED  BY <2>1, <2>2, NewCall
<1>2. ASSUME NEW n \in Fd, Use(c, n) \/ close(c, n) PROVE IInv'
  <2> PICK t \in {"use", "flush"} :
        fdtab[c][n] # NoEntry /\ fsipc(c, t, NoFile, fdpage[fdtab[c][n]], n, NoFd)
    BY <1>2 DEF Use, close
  <2> DEFINE r == [pc |-> "send", type |-> t, path |-> NoFile,
                   id |-> fdpage[fdtab[c][n]], fd |-> n, new |-> NoFd]
  <2>1. r \in Record /\ GoodRecord(c, r)
    BY SMTT(60), <1>0 DEF Record, GoodRecord, ClosingOf
  <2>2. /\ r.pc = "send" /\ cl[c].pc = "user" /\ cl' = [cl EXCEPT ![c] = r]
        /\ UNCHANGED <<fdtab, srv, parent, opened, tables>>
    BY DEF fsipc
  <2> HIDE DEF r
  <2>. QED  BY <2>1, <2>2, NewCall
<1>3. ASSUME NEW old \in Fd, NEW new \in Fd, dup(c, old, new) PROVE IInv'
  <2>1. CASE fdtab[c][new] # NoEntry
    <3> DEFINE r == [pc |-> "send", type |-> "flush", path |-> NoFile,
                     id |-> fdpage[fdtab[c][new]], fd |-> old, new |-> new]
    <3>1. r \in Record /\ GoodRecord(c, r)
      BY SMTT(60), <1>0, <2>1 DEF Record, GoodRecord, ClosingOf
    <3>2. /\ r.pc = "send" /\ cl[c].pc = "user" /\ cl' = [cl EXCEPT ![c] = r]
          /\ UNCHANGED <<fdtab, srv, parent, opened, tables>>
      BY <2>1, <1>3 DEF dup
    <3> HIDE DEF r
    <3>. QED  BY <3>1, <3>2, NewCall
  <2>2. CASE fdtab[c][new] = NoEntry
    <3> DEFINE r == [Idle EXCEPT !.pc = "dup", !.fd = old, !.new = new]
    <3>1. r \in Record /\ GoodRecord(c, r) /\ r.pc = "dup"
      BY <1>0, <2>2 DEF Record, GoodRecord, ClosingOf, Idle
    <3>2. /\ cl[c].pc = "user" /\ cl' = [cl EXCEPT ![c] = r]
          /\ UNCHANGED <<fdtab, srv, parent, opened, tables>>
      BY <2>2, <1>3 DEF dup
    <3> HIDE DEF r
    <3>. QED  BY <3>1, <3>2, NewCall
  <2>. QED  BY <2>1, <2>2
<1>4. ASSUME sync(c) PROVE IInv'
  <2> DEFINE r == [pc |-> "send", type |-> "sync", path |-> NoFile, id |-> 0,
                   fd |-> NoFd, new |-> NoFd]
  <2>1. r \in Record /\ GoodRecord(c, r)
    BY <1>0 DEF Record, GoodRecord, ClosingOf
  <2>2. /\ r.pc = "send" /\ cl[c].pc = "user" /\ cl' = [cl EXCEPT ![c] = r]
        /\ UNCHANGED <<fdtab, srv, parent, opened, tables>>
    BY <1>4 DEF sync, fsipc
  <2> HIDE DEF r
  <2>. QED  BY <2>1, <2>2, NewCall
<1>5. ASSUME NEW k \in Client, fork(c, k) PROVE IInv'
  BY <1>5, ForkInv
<1>. QED  BY <1>1, <1>2, <1>3, <1>4, <1>5 DEF Call

(* close, and dup of an open descriptor, unmap one page.                   *)
LEMMA UnmapFdInv == ASSUME IInv, NEW c \in Client, UnmapFd(c) PROVE IInv'
<1> DEFINE r == IF cl[c].new = NoFd THEN Idle
                ELSE [Idle EXCEPT !.pc = "dup", !.fd = cl[c].fd, !.new = cl[c].new]
           k == Closing(c)
<1>0. /\ k \in Fd /\ cl[c].pc = "unmap"
      /\ cl[c].new # NoFd => cl[c].fd \in Fd /\ cl[c].new \in Fd
  BY DEF IInv, Asked, UnmapFd
<1>1. /\ cl'[c] = r /\ \A d \in Client \ {c} : cl'[d] = cl[d]
      /\ fdtab'[c] = [fdtab[c] EXCEPT ![k] = NoEntry]
      /\ \A d \in Client \ {c} : fdtab'[d] = fdtab[d]
      /\ opened'[c] = [opened[c] EXCEPT ![k] = NoFile]
      /\ \A d \in Client \ {c} : opened'[d] = opened[d]
      /\ ~Waiting(c) /\ UNCHANGED <<srv, opentab, fdpage>>
  BY <1>0 DEF IInv, TypeOK, UnmapFd, tables, Waiting
<1>2. r.pc \in {"user", "dup"} /\ (r.pc = "dup" => r.new # NoFd /\ r.fd \in Fd /\ r.new \in Fd)
      /\ (r.pc = "user" => r = Idle) /\ r \in Record
  <2>1. CASE cl[c].new = NoFd
    BY <2>1, IdleFields
  <2>2. CASE cl[c].new # NoFd
    <3>1. r = DupRecord(cl[c].fd, cl[c].new)
      BY <2>2 DEF DupRecord
    <3>2. cl[c].fd \in Fd /\ cl[c].new \in Fd
      BY <1>0, <2>2
    <3> HIDE DEF r
    <3>3. /\ DupRecord(cl[c].fd, cl[c].new).pc = "dup"
          /\ DupRecord(cl[c].fd, cl[c].new).fd = cl[c].fd
          /\ DupRecord(cl[c].fd, cl[c].new).new = cl[c].new
          /\ DupRecord(cl[c].fd, cl[c].new) \in Record
      BY <3>2, DupFields
    <3>. QED  BY <2>2, <3>1, <3>2, <3>3
  <2>. QED  BY <2>1, <2>2
<1>3. r \in Record
  BY <1>2
<1> HIDE DEF r, k
<1>4. TypeOK'
  <2>1. cl' \in [Client -> Record] /\ cl' = [cl EXCEPT ![c] = r]
    BY <1>3 DEF IInv, TypeOK, UnmapFd, Record, r
  <2>2. fdtab' \in [Client -> [Fd -> Entry \cup {NoEntry}]]
    BY <1>0 DEF IInv, TypeOK, UnmapFd, k
  <2>3. opened' \in [Client -> [Fd -> Path \cup {NoFile}]]
    BY <1>0 DEF IInv, TypeOK, UnmapFd, k
  <2>. QED  BY SMTT(60), <2>1, <2>2, <2>3 DEF IInv, TypeOK, Record, UnmapFd, tables
<1>5. \A d \in Client, n \in Fd :
         fdtab'[d][n] = NoEntry \/ (fdtab'[d][n] = fdtab[d][n] /\ opened'[d][n] = opened[d][n])
  <2>1. fdtab[c] \in [Fd -> Entry \cup {NoEntry}] /\ opened[c] \in [Fd -> Path \cup {NoFile}]
    BY DEF IInv, TypeOK
  <2>2. fdtab'[c][k] = NoEntry
    BY <1>0, <1>1, <2>1
  <2>3. \A n \in Fd \ {k} : fdtab'[c][n] = fdtab[c][n] /\ opened'[c][n] = opened[c][n]
    BY <1>1, <2>1
  <2>. QED  BY <1>1, <2>2, <2>3
<1>6. Mapped'
  <2> SUFFICES ASSUME NEW d \in Client, NEW n \in Fd, fdtab'[d][n] # NoEntry
               PROVE  /\ fdpage[fdtab'[d][n]] = opentab[fdtab'[d][n]].id
                      /\ opentab[fdtab'[d][n]].file = opened'[d][n]
    <3>1. fdpage' = fdpage /\ opentab' = opentab
      BY <1>1
    <3>. QED  BY <3>1 DEF Mapped
  <2>1. fdtab'[d][n] = fdtab[d][n] /\ opened'[d][n] = opened[d][n]
    BY <1>5
  <2>. QED  BY <2>1 DEF IInv, Mapped
<1>7. \A i \in Entry : Unheld(i) => Unheld(i)'
  BY SMTT(60), <1>5, FileServerAssumption DEF Unheld, Entry, NoEntry
<1>8. Fresh'
  BY <1>1, <1>7 DEF IInv, Fresh, TypeOK
<1>9. Served'
  BY <1>1 DEF IInv, Served, Waiting, TypeOK
<1>10. Asked'
  <2> SUFFICES ASSUME NEW d \in Client PROVE Asked!(d)'
    BY DEF Asked
  <2>1. CASE d = c /\ r.pc = "user"
    <3>1. cl'[d].pc = "user" /\ cl'[d] = Idle
      BY <2>1, <1>1, <1>2
    <3>2. cl'[d].new = NoFd
      BY <3>1, IdleFields
    <3>. QED  BY <3>1, <3>2, AskedIdle
  <2>2. CASE d = c /\ r.pc = "dup"
    <3>1. cl'[d].pc = "dup" /\ cl'[d].new # NoFd /\ cl'[d].fd \in Fd /\ cl'[d].new \in Fd
      BY <2>2, <1>1, <1>2
    <3>. QED  BY <3>1 DEF Asks, Closing
  <2>3. CASE d # c
    BY <2>3, <1>1, AskedKeeps DEF IInv
  <2>. QED  BY <2>1, <2>2, <2>3, <1>2
<1>11. RepliesMatch'
  BY SMTT(60), <1>1, <1>2 DEF IInv, RepliesMatch, Waiting
<1>12. NeverRefused'
  BY <1>1 DEF IInv, NeverRefused
<1>. QED  BY <1>4, <1>6, <1>8, <1>9, <1>10, <1>11, <1>12 DEF IInv

(* dup maps the page of the old descriptor at the new one.                 *)
LEMMA DupFdInv == ASSUME IInv, NEW c \in Client, DupFd(c) PROVE IInv'
<1> DEFINE k == cl[c].new
           o == cl[c].fd
<1>0. k \in Fd /\ o \in Fd /\ cl[c].pc = "dup"
  BY DEF IInv, Asked, DupFd
<1>1. /\ cl'[c] = Idle /\ \A d \in Client \ {c} : cl'[d] = cl[d]
      /\ \A d \in Client \ {c} : fdtab'[d] = fdtab[d]
      /\ fdtab'[c] = [fdtab[c] EXCEPT ![k] = fdtab[c][o]]
      /\ \A d \in Client \ {c} : opened'[d] = opened[d]
      /\ opened'[c] = [opened[c] EXCEPT ![k] = opened[c][o]]
      /\ ~Waiting(c) /\ UNCHANGED <<srv, opentab, fdpage>>
  BY <1>0 DEF IInv, TypeOK, DupFd, tables, Waiting
<1>2. TypeOK'
  <2>1. cl' \in [Client -> Record]
    <3>1. cl' = [cl EXCEPT ![c] = Idle]
      BY DEF DupFd
    <3>2. cl \in [Client -> Record]
      BY DEF IInv, TypeOK, Record
    <3>. QED  BY <3>1, <3>2, IdleFields
  <2>2. fdtab' \in [Client -> [Fd -> Entry \cup {NoEntry}]]
    BY SMTT(60), <1>0 DEF IInv, TypeOK, DupFd
  <2>3. opened' \in [Client -> [Fd -> Path \cup {NoFile}]]
    BY SMTT(60), <1>0 DEF IInv, TypeOK, DupFd
  <2>. QED  BY SMTT(60), <2>1, <2>2, <2>3 DEF IInv, TypeOK, Record, DupFd, tables
<1> HIDE DEF k, o
<1>3. \A d \in Client, n \in Fd : \E m \in Fd :
         fdtab'[d][n] = fdtab[d][m] /\ opened'[d][n] = opened[d][m]
  <2> TAKE d \in Client, n \in Fd
  <2>1. CASE d = c /\ n = k
    BY SMTT(60), <2>1, <1>0, <1>1 DEF IInv, TypeOK
  <2>2. CASE ~(d = c /\ n = k)
    <3>1. fdtab'[d][n] = fdtab[d][n] /\ opened'[d][n] = opened[d][n]
      BY SMTT(60), <2>2, <1>0, <1>1 DEF IInv, TypeOK
    <3>. QED  BY <3>1
  <2>. QED  BY <2>1, <2>2
<1>4. Mapped'
  <2> SUFFICES ASSUME NEW d \in Client, NEW n \in Fd, fdtab'[d][n] # NoEntry
               PROVE  /\ fdpage[fdtab'[d][n]] = opentab[fdtab'[d][n]].id
                      /\ opentab[fdtab'[d][n]].file = opened'[d][n]
    <3>1. fdpage' = fdpage /\ opentab' = opentab
      BY <1>1
    <3>. QED  BY <3>1 DEF Mapped
  <2>1. PICK m \in Fd : fdtab'[d][n] = fdtab[d][m] /\ opened'[d][n] = opened[d][m]
    BY <1>3
  <2>. QED  BY <2>1 DEF IInv, Mapped
<1>5. \A i : Unheld(i) => Unheld(i)'
  <2> SUFFICES ASSUME NEW i, Unheld(i), NEW d \in Client, NEW n \in Fd PROVE fdtab'[d][n] # i
    BY DEF Unheld
  <2>1. PICK m \in Fd : fdtab'[d][n] = fdtab[d][m]
    BY <1>3
  <2>. QED  BY <2>1 DEF Unheld
<1>6. Fresh'
  BY <1>1, <1>5 DEF IInv, Fresh
<1>7. Served'
  BY <1>1 DEF IInv, Served, Waiting, TypeOK
<1>8. Asked'
  <2> SUFFICES ASSUME NEW d \in Client PROVE Asked!(d)'
    BY DEF Asked
  <2>1. CASE d = c
    <3>1. cl'[d].pc = "user" /\ cl'[d].new = NoFd
      BY <2>1, <1>1, IdleFields
    <3>. QED  BY <3>1, AskedIdle
  <2>2. CASE d # c
    BY <2>2, <1>1, AskedKeeps DEF IInv
  <2>. QED  BY <2>1, <2>2
<1>9. RepliesMatch'
  <2>1. RepliesMatch /\ srv' = srv
    BY <1>1 DEF IInv
  <2>2. \A d \in Client : (Waiting(d))' => cl'[d] = cl[d] /\ Waiting(d)
    BY <1>1, IdleFields DEF Waiting
  <2>. QED  BY <2>1, <2>2 DEF RepliesMatch
<1>10. NeverRefused'
  BY <1>1 DEF IInv, NeverRefused
<1>. QED  BY <1>2, <1>4, <1>6, <1>7, <1>8, <1>9, <1>10 DEF IInv

(* A death takes mappings away, and the server no longer has a client.     *)
LEMMA DestroyInv == ASSUME IInv, NEW c \in Client, sys_env_destroy(c) PROVE IInv'
<1>1. /\ cl'[c] = [Idle EXCEPT !.pc = "free"] /\ \A d \in Client \ {c} : cl'[d] = cl[d]
      /\ fdtab'[c] = [n \in Fd |-> NoEntry] /\ \A d \in Client \ {c} : fdtab'[d] = fdtab[d]
      /\ \A d \in Client \ {c} : opened'[d] = opened[d]
      /\ UNCHANGED <<opentab, fdpage>>
  BY DEF IInv, TypeOK, sys_env_destroy, tables
<1>2. /\ srv'.pc = srv.pc /\ srv'.type = srv.type /\ srv'.path = srv.path
      /\ srv'.id = srv.id /\ srv'.i = srv.i /\ srv'.pg = srv.pg /\ srv'.r = srv.r
      /\ srv'.whom = IF srv.whom = c THEN Gone ELSE srv.whom
  BY DEF IInv, TypeOK, sys_env_destroy
<1>3. TypeOK'
  <2>1. cl' \in [Client -> Record]
    <3>1. cl \in [Client -> Record]
      BY DEF IInv, TypeOK, Record
    <3>. QED  BY <3>1 DEF sys_env_destroy, Record, Idle, NoFd
  <2>2. /\ fdtab' \in [Client -> [Fd -> Entry \cup {NoEntry}]]
        /\ opened' \in [Client -> [Fd -> Path \cup {NoFile}]]
        /\ parent' \in [Client -> Client \cup {Gone}]
    BY DEF IInv, TypeOK, sys_env_destroy
  <2>. QED  BY <2>1, <2>2 DEF IInv, TypeOK, Record, sys_env_destroy, tables
<1>4. Mapped'
  BY SMTT(60), <1>1 DEF IInv, Mapped
<1>5. \A i \in Entry : Unheld(i) => Unheld(i)'
  BY SMTT(60), <1>1, FileServerAssumption DEF Unheld, Entry, NoEntry
<1>6. Fresh'
  BY <1>1, <1>2, <1>5 DEF IInv, Fresh, TypeOK
<1>7. Served'
  BY SMTT(60), <1>1, <1>2, FileServerAssumption DEF IInv, Served, Waiting, TypeOK
<1>8. Asked'
  <2> SUFFICES ASSUME NEW d \in Client PROVE Asked!(d)'
    BY DEF Asked
  <2>1. CASE d = c
    BY <2>1, <1>1, AskedIdle DEF Idle
  <2>2. CASE d # c
    BY <2>2, <1>1, AskedKeeps DEF IInv
  <2>. QED  BY <2>1, <2>2
<1>9. RepliesMatch'
  BY SMTT(60), <1>1, <1>2 DEF IInv, RepliesMatch, Waiting, Idle
<1>10. NeverRefused'
  BY <1>2 DEF IInv, NeverRefused
<1>. QED  BY <1>3, <1>4, <1>6, <1>7, <1>8, <1>9, <1>10 DEF IInv

-----------------------------------------------------------------------------
(* IPC. *)

(* The server takes a request only when it has replied to the last one, so *)
(* no other client is waiting.                                             *)
LEMMA SendRequestInv == ASSUME IInv, NEW c \in Client, SendRequest(c) PROVE IInv'
<1>1. /\ cl'[c] = [cl[c] EXCEPT !.pc = "sent"] /\ \A d \in Client \ {c} : cl'[d] = cl[d]
      /\ UNCHANGED <<opentab, fdpage, fdtab, opened, parent>>
      /\ cl[c].pc = "send" /\ srv.pc = "recv"
  BY DEF IInv, TypeOK, SendRequest, tables
<1>2. /\ srv'.pc = IF cl[c].type = "open" THEN "alloc" ELSE "serve"
      /\ srv'.whom = c /\ srv'.type = cl[c].type /\ srv'.path = cl[c].path
      /\ srv'.id = cl[c].id
  BY DEF SendRequest
<1>0. cl \in [Client -> Record] /\ cl[c] \in Record
  BY DEF IInv, TypeOK, Record
<1>3. TypeOK'
  <2>1. cl' \in [Client -> Record]
    BY <1>0 DEF SendRequest, Record
  <2>2. srv' \in ServerRecord
    BY SMTT(60), <1>0, FileServerAssumption DEF SendRequest, Record, ServerRecord
  <2>. QED  BY <2>1, <2>2, <1>1 DEF IInv, TypeOK, Record, ServerRecord
<1>4. Mapped'
  BY <1>1 DEF IInv, Mapped
<1>5. Fresh'
  BY <1>2 DEF Fresh
<1>6. Served'
  BY <1>0, <1>1, <1>2 DEF Served, Waiting, Record
<1>7. Asked'
  <2> SUFFICES ASSUME NEW d \in Client PROVE Asked!(d)'
    BY DEF Asked
  <2>1. CASE d = c
    <3>1. /\ cl'[c].pc = "sent" /\ cl'[c].type = cl[c].type /\ cl'[c].id = cl[c].id
          /\ cl'[c].fd = cl[c].fd /\ cl'[c].new = cl[c].new
      BY <1>0, <1>1 DEF Record
    <3>2. Asks(c)
      BY <1>1 DEF Asks
    <3>. QED  BY <2>1, <3>1, <3>2, <1>1, AskedWaits DEF IInv
  <2>2. CASE d # c
    BY <2>2, <1>1, AskedKeeps DEF IInv
  <2>. QED  BY <2>1, <2>2
<1>8. RepliesMatch'
  BY SMTT(60), <1>0, <1>1, <1>2 DEF IInv, RepliesMatch, Waiting, Record
<1>9. NeverRefused'
  BY <1>2 DEF NeverRefused
<1>. QED  BY <1>3, <1>4, <1>5, <1>6, <1>7, <1>8, <1>9 DEF IInv

(* A client that has sent waits before it receives as well as while.       *)
LEMMA AwaitReplyInv == ASSUME IInv, NEW c \in Client, AwaitReply(c) PROVE IInv'
<1>0. cl \in [Client -> Record] /\ cl[c] \in Record
  BY DEF IInv, TypeOK, Record
<1>1. /\ cl'[c] = [cl[c] EXCEPT !.pc = "recv"] /\ \A d \in Client \ {c} : cl'[d] = cl[d]
      /\ UNCHANGED <<opentab, fdpage, fdtab, opened, parent, srv>>
      /\ cl[c].pc = "sent" /\ cl' \in [Client -> Record]
  BY <1>0 DEF AwaitReply, tables, Record
<1>3. TypeOK'
  BY SMTT(60), <1>1 DEF IInv, TypeOK, Record
<1>4. Mapped'
  BY <1>1 DEF IInv, Mapped
<1>5. Fresh'
  BY <1>1 DEF IInv, Fresh, Unheld
<1>6. Served'
  <2>1. \A d \in Client : Waiting(d) => Waiting(d)'
    BY <1>0, <1>1 DEF Waiting, Record
  <2>2. srv.whom \in Client \cup {Gone}
    BY DEF IInv, TypeOK
  <2>. QED  BY <2>1, <2>2, <1>1 DEF IInv, Served
<1>7. Asked'
  <2> SUFFICES ASSUME NEW d \in Client PROVE Asked!(d)'
    BY DEF Asked
  <2>1. CASE d = c
    <3>1. /\ cl'[c].pc = "recv" /\ cl'[c].type = cl[c].type /\ cl'[c].id = cl[c].id
          /\ cl'[c].fd = cl[c].fd /\ cl'[c].new = cl[c].new
      BY <1>0, <1>1 DEF Record
    <3>2. Asks(c)
      BY <1>1 DEF Asks
    <3>. QED  BY <2>1, <3>1, <3>2, <1>1, AskedWaits DEF IInv
  <2>2. CASE d # c
    BY <2>2, <1>1, AskedKeeps DEF IInv
  <2>. QED  BY <2>1, <2>2
<1>8. RepliesMatch'
  BY SMTT(60), <1>0, <1>1 DEF IInv, RepliesMatch, Waiting, Record
<1>9. NeverRefused'
  BY <1>1 DEF IInv, NeverRefused
<1>. QED  BY <1>3, <1>4, <1>5, <1>6, <1>7, <1>8, <1>9 DEF IInv

(* The reply maps a page nobody else has, if any, and the client is then   *)
(* no longer waiting.                                                      *)
LEMMA ReplyInv == ASSUME IInv, Reply PROVE IInv'
<1> PICK c : c = srv.whom
  OBVIOUS
<1>0. cl \in [Client -> Record] /\ UNCHANGED <<opentab, fdpage, parent>> /\ srv.pc = "reply"
  BY DEF IInv, TypeOK, Record, Reply, tables
<1>1. CASE srv' = [srv EXCEPT !.pc = "panic"] /\ UNCHANGED <<fdtab, opened, cl>>
  <2>0. srv'.pc = "panic" /\ srv'.whom = srv.whom /\ srv'.type = srv.type
        /\ srv'.id = srv.id /\ srv'.path = srv.path
    BY <1>1 DEF IInv, TypeOK
  <2>1. TypeOK'
    <3>1. srv \in ServerRecord
      BY DEF IInv, TypeOK, ServerRecord
    <3>2. srv' \in ServerRecord
      BY <3>1, <1>1 DEF ServerRecord
    <3>. QED  BY <3>2, <1>0, <1>1 DEF IInv, TypeOK, ServerRecord
  <2>2. Mapped' /\ Asked'
    BY <1>0, <1>1 DEF IInv, Mapped, Asked, Asks, Closing
  <2>3. Fresh' /\ Served' /\ NeverRefused'
    BY <2>0 DEF Fresh, Served, NeverRefused
  <2>4. RepliesMatch'
    BY <2>0, <1>1 DEF IInv, RepliesMatch, Waiting
  <2>. QED  BY <2>1, <2>2, <2>3, <2>4 DEF IInv
<1>2. CASE /\ c # Gone /\ cl[c].pc = "recv"
           /\ srv' = [Receiving EXCEPT !.pc = "done"]
           /\ IF srv.pg = NoEntry THEN UNCHANGED <<fdtab, opened>>
              ELSE /\ fdtab' = [fdtab EXCEPT ![c][cl[c].fd] = srv.pg]
                   /\ opened' = [opened EXCEPT ![c][cl[c].fd] = cl[c].path]
           /\ cl' = [cl EXCEPT ![c] = IF @.type = "flush" THEN [@ EXCEPT !.pc = "unmap"]
                                      ELSE Idle]
  <2>1. c \in Client /\ cl[c] \in Record /\ srv.type = cl[c].type /\ srv.path = cl[c].path
    BY <1>0, <1>2 DEF IInv, TypeOK, RepliesMatch, Waiting
  <2>2. /\ cl[c].type = "flush" => cl'[c] = [cl[c] EXCEPT !.pc = "unmap"]
        /\ cl[c].type # "flush" => cl'[c] = Idle
        /\ \A d \in Client \ {c} : cl'[d] = cl[d]
        /\ cl' \in [Client -> Record]
    BY <1>0, <1>2, <2>1 DEF Record, Idle, NoFd
  <2>3. ~Waiting(c)' /\ srv'.pc = "done"
    BY <2>1, <2>2, <1>2 DEF Waiting, Idle, Record, Receiving
  <2>4. \A d \in Client \ {c} : ~Waiting(d)'
    BY <2>2, <1>0 DEF IInv, RepliesMatch, Waiting
  <2>5. Served' /\ RepliesMatch' /\ NeverRefused' /\ Fresh'
    BY <2>3, <2>4 DEF Served, RepliesMatch, NeverRefused, Fresh
  <2>a. cl[c].pc = "recv" /\ IF srv.pg = NoEntry THEN UNCHANGED <<fdtab, opened>>
              ELSE /\ fdtab' = [fdtab EXCEPT ![c] = [fdtab[c] EXCEPT ![cl[c].fd] = srv.pg]]
                   /\ opened' = [opened EXCEPT ![c] = [opened[c] EXCEPT ![cl[c].fd] = cl[c].path]]
    BY <1>2
  <2>b. /\ fdtab \in [Client -> [Fd -> Entry \cup {NoEntry}]]
        /\ opened \in [Client -> [Fd -> Path \cup {NoFile}]]
        /\ srv.pg \in Entry \cup {NoEntry}
    BY DEF IInv, TypeOK
  <2>6. srv.pg # NoEntry => /\ cl[c].type = "open" /\ cl[c].fd \in Fd
                            /\ srv.pg \in Entry /\ Unheld(srv.pg)
                            /\ fdpage[srv.pg] = opentab[srv.pg].id
                            /\ opentab[srv.pg].file = cl[c].path
    BY <1>0, <2>1, <2>a, <2>b DEF IInv, Fresh, Asked, Asks
  <2>7. \A d \in Client, n \in Fd :
           \/ fdtab'[d][n] = fdtab[d][n] /\ opened'[d][n] = opened[d][n]
           \/ /\ srv.pg # NoEntry /\ d = c
              /\ fdtab'[d][n] = srv.pg /\ opened'[d][n] = cl[c].path
    BY SMTT(60), <2>1, <2>6, <2>a, <2>b
  <2>8. TypeOK'
    <3>1. fdtab' \in [Client -> [Fd -> Entry \cup {NoEntry}]]
      <4>1. CASE srv.pg = NoEntry
        BY <4>1, <2>a, <2>b
      <4>2. CASE srv.pg # NoEntry
        <5>1. [fdtab[c] EXCEPT ![cl[c].fd] = srv.pg] \in [Fd -> Entry \cup {NoEntry}]
          BY <4>2, <2>1, <2>6, <2>b
        <5>. QED  BY <5>1, <4>2, <2>a, <2>b
      <4>. QED  BY <4>1, <4>2
    <3>2. opened' \in [Client -> [Fd -> Path \cup {NoFile}]]
      <4>1. CASE srv.pg = NoEntry
        BY <4>1, <2>a, <2>b
      <4>2. CASE srv.pg # NoEntry
        <5>0. cl[c].path \in Path \cup {NoFile}
          BY <2>1 DEF Record
        <5>1. [opened[c] EXCEPT ![cl[c].fd] = cl[c].path] \in [Fd -> Path \cup {NoFile}]
          BY <5>0, <4>2, <2>1, <2>6, <2>b
        <5>. QED  BY <5>1, <4>2, <2>a, <2>b
      <4>. QED  BY <4>1, <4>2
    <3>3. srv' \in ServerRecord
      <4>1. srv' = [pc |-> "done", whom |-> Gone, type |-> "none", path |-> NoFile,
                    id |-> 0, i |-> 0, r |-> FALSE, pg |-> NoEntry]
        <5>1. srv' = [Receiving EXCEPT !.pc = "done"]
          BY <1>2
        <5>. QED  BY <5>1 DEF Receiving
      <4>2. 0 \in 0 .. MAXOPEN
        BY SMTT(60), FileServerAssumption
      <4>. QED  BY <4>1, <4>2 DEF ServerRecord
    <3>. QED  BY <3>1, <3>2, <3>3, <2>2, <1>0 DEF IInv, TypeOK, Record, ServerRecord
  <2>9. Mapped'
    <3> SUFFICES ASSUME NEW d \in Client, NEW n \in Fd, fdtab'[d][n] # NoEntry
                 PROVE  /\ fdpage[fdtab'[d][n]] = opentab[fdtab'[d][n]].id
                        /\ opentab[fdtab'[d][n]].file = opened'[d][n]
      BY <1>0 DEF Mapped
    <3>1. CASE fdtab'[d][n] = fdtab[d][n] /\ opened'[d][n] = opened[d][n]
      BY <3>1 DEF IInv, Mapped
    <3>2. CASE srv.pg # NoEntry /\ fdtab'[d][n] = srv.pg /\ opened'[d][n] = cl[c].path
      BY <3>2, <2>6
    <3>. QED  BY <3>1, <3>2, <2>7
  <2>10. Asked'
    <3> SUFFICES ASSUME NEW d \in Client PROVE Asked!(d)'
      BY DEF Asked
    <3>1. CASE d = c
      <4>1. CASE cl[c].type = "flush"
        <5>1. /\ cl'[d].pc = "unmap" /\ cl'[d].type = "flush"
              /\ cl'[d].fd = cl[c].fd /\ cl'[d].new = cl[c].new
          BY <4>1, <3>1, <2>1, <2>2 DEF Record
        <5>2. Closing(c) \in Fd /\ (cl[c].new # NoFd => cl[c].fd \in Fd /\ cl[c].new \in Fd)
          BY <4>1, <2>1, <2>a DEF IInv, Asked, Asks
        <5>. QED  BY <5>1, <5>2, <3>1 DEF Asks, Closing
      <4>2. CASE cl[c].type # "flush"
        <5>1. cl'[d].pc = "user" /\ cl'[d].new = NoFd
          <6>1. cl'[d] = Idle
            BY <4>2, <3>1, <2>2
          <6>. QED  BY <6>1, IdleFields
        <5>. QED  BY <5>1, AskedIdle
      <4>. QED  BY <4>1, <4>2
    <3>2. CASE d # c
      <4>1. cl'[d] = cl[d]
        BY <3>2, <2>2
      <4>2. fdtab'[d] = fdtab[d]
        BY <3>2, <2>a, <2>b
      <4>3. fdpage' = fdpage
        BY <1>0
      <4>. QED  BY <4>1, <4>2, <4>3, AskedKeeps DEF IInv
    <3>. QED  BY <3>1, <3>2
  <2>. QED  BY <2>5, <2>8, <2>9, <2>10 DEF IInv
<1>. QED  BY <1>1, <1>2 DEF Reply

(* The server is ready again.                                              *)
LEMMA NextRequestInv == ASSUME IInv, NextRequest PROVE IInv'
<1>1. srv'.pc = "recv" /\ UNCHANGED <<fdtab, cl, parent, opened, opentab, fdpage>>
  BY DEF NextRequest, Receiving, tables
<1>2. TypeOK'
  BY SMTT(60), <1>1, FileServerAssumption DEF IInv, TypeOK, NextRequest, Receiving
<1>3. Mapped' /\ Asked'
  BY <1>1 DEF IInv, Mapped, Asked, Asks, Closing
<1>4. Fresh' /\ Served' /\ NeverRefused'
  BY <1>1 DEF Fresh, Served, NeverRefused
<1>5. RepliesMatch'
  BY <1>1 DEF IInv, RepliesMatch, Waiting, NextRequest
<1>. QED  BY <1>2, <1>3, <1>4, <1>5 DEF IInv

-----------------------------------------------------------------------------
(* The server. *)

(* What answering leaves alone: everything but the state, the result and   *)
(* the page of the reply.                                                  *)
LEMMA AnswerKeeps ==
  ASSUME TypeOK, NEW r \in BOOLEAN, NEW pg \in Entry \cup {NoEntry}, Answer(r, pg)
  PROVE  /\ srv'.pc = "reply" /\ srv'.r = r /\ srv'.pg = pg /\ srv'.whom = srv.whom
         /\ srv'.type = srv.type /\ srv'.path = srv.path /\ srv'.id = srv.id
         /\ srv' \in ServerRecord
<1>1. srv \in ServerRecord
  BY DEF TypeOK, ServerRecord
<1>. QED  BY <1>1 DEF Answer, ServerRecord

(* An answer without a page that is no refusal of a file id preserves the  *)
(* invariant.                                                              *)
LEMMA PlainAnswer ==
  ASSUME IInv, NEW r \in BOOLEAN, Answer(r, NoEntry),
         srv.pc \in {"alloc", "open", "serve"},
         srv.type \in {"use", "flush"} /\ ~r => srv.whom = Gone,
         UNCHANGED <<fdtab, cl, parent, opened, opentab, fdpage>>
  PROVE  IInv'
<1>1. /\ srv'.pc = "reply" /\ srv'.r = r /\ srv'.pg = NoEntry /\ srv'.whom = srv.whom
      /\ srv'.type = srv.type /\ srv'.path = srv.path /\ srv'.id = srv.id
  BY AnswerKeeps DEF IInv
<1>2. TypeOK'
  BY AnswerKeeps DEF IInv, TypeOK, ServerRecord
<1>3. Mapped' /\ Asked'
  BY DEF IInv, Mapped, Asked, Asks, Closing
<1>4. Fresh'
  BY <1>1 DEF Fresh
<1>5. Served'
  BY <1>1 DEF IInv, Served, Waiting
<1>6. RepliesMatch'
  BY <1>1 DEF IInv, RepliesMatch, Waiting
<1>7. NeverRefused'
  BY <1>1 DEF NeverRefused
<1>. QED  BY <1>2, <1>3, <1>4, <1>5, <1>6, <1>7 DEF IInv

(* What changes only an entry that nobody has open preserves what is said  *)
(* of descriptors and requests.                                            *)
LEMMA UnheldEntry ==
  ASSUME IInv, NEW i \in Entry, Unheld(i), UNCHANGED <<fdtab, cl, opened>>,
         \A j \in Entry \ {i} : opentab'[j] = opentab[j] /\ fdpage'[j] = fdpage[j]
  PROVE  Mapped' /\ Asked'
<1>1. \A c \in Client, n \in Fd : fdtab[c][n] # NoEntry => fdtab[c][n] \in Entry \ {i}
  BY SMTT(60) DEF IInv, TypeOK, Unheld
<1>2. Mapped'
  BY SMTT(60), <1>1 DEF IInv, Mapped
<1>3. Asked'
  <2> SUFFICES ASSUME NEW d \in Client PROVE Asked!(d)'
    BY DEF Asked
  <2>1. Closing(d)' = Closing(d) /\ Asks(d)' = Asks(d)
    BY DEF Closing, Asks
  <2>. QED  BY <1>1, <2>1 DEF IInv, Asked
<1>. QED  BY <1>2, <1>3

(* openfile_alloc takes an entry that nobody has open.                     *)
LEMMA AllocInv == ASSUME IInv, openfile_alloc PROVE IInv'
<1> PICK i : i = srv.i
  OBVIOUS
<1>0. /\ i \in 0 .. MAXOPEN /\ srv.pc = "alloc" /\ srv.type = "open"
      /\ UNCHANGED <<fdtab, cl, parent, opened>>
  BY DEF IInv, TypeOK, Fresh, openfile_alloc
<1>1. CASE Answer(FALSE, NoEntry) /\ UNCHANGED <<opentab, fdpage>>
  BY <1>0, <1>1, PlainAnswer
<1>2. CASE i < MAXOPEN /\ srv' = [srv EXCEPT !.i = i + 1] /\ UNCHANGED <<opentab, fdpage>>
  <2>1. /\ srv'.pc = "alloc" /\ srv'.whom = srv.whom /\ srv'.type = srv.type
        /\ srv'.path = srv.path /\ srv'.id = srv.id
    BY <1>0, <1>2 DEF IInv, TypeOK
  <2>2. i + 1 \in 0 .. MAXOPEN
    BY SMTT(60), <1>0, <1>2, FileServerAssumption
  <2>3. TypeOK'
    BY <1>0, <1>2, <2>2 DEF IInv, TypeOK
  <2>4. Mapped' /\ Asked'
    BY <1>0, <1>2 DEF IInv, Mapped, Asked, Asks, Closing
  <2>5. Fresh' /\ NeverRefused'
    BY <1>0, <2>1 DEF Fresh, NeverRefused
  <2>6. Served'
    BY <1>0, <2>1 DEF IInv, Served, Waiting
  <2>7. RepliesMatch'
    BY <1>0, <2>1 DEF IInv, RepliesMatch, Waiting
  <2>. QED  BY <2>3, <2>4, <2>5, <2>6, <2>7 DEF IInv
<1>3. CASE /\ i < MAXOPEN /\ ~InUse(i)
           /\ opentab' = [opentab EXCEPT ![i].id = NextId(i)]
           /\ fdpage' = [fdpage EXCEPT ![i] = 0]
           /\ srv' = [srv EXCEPT !.pc = "open"]
  <2>1. i \in Entry
    BY SMTT(60), <1>0, <1>3, FileServerAssumption DEF Entry
  <2>2. Unheld(i)
    BY <1>3, <2>1, InUseMeansHeld DEF IInv
  <2>3. /\ srv'.pc = "open" /\ srv'.whom = srv.whom /\ srv'.type = srv.type
        /\ srv'.path = srv.path /\ srv'.id = srv.id /\ srv'.i = i
    BY <1>0, <1>3 DEF IInv, TypeOK
  <2>4. /\ \A j \in Entry \ {i} : opentab'[j] = opentab[j] /\ fdpage'[j] = fdpage[j]
        /\ opentab'[i] = [opentab[i] EXCEPT !.id = NextId(i)] /\ fdpage'[i] = 0
    BY <1>3, <2>1 DEF IInv, TypeOK
  <2>5. NextId(i) \in Nat /\ NextId(i) % MAXOPEN = i
    BY SMTT(60), <2>1, NextIdSameEntry, FileServerAssumption DEF IInv, TypeOK, NextId
  <2>6. TypeOK'
    <3>1. opentab' \in [Entry -> [id : Nat, file : Path \cup {NoFile}]]
      BY SMTT(60), <1>3, <2>1, <2>5 DEF IInv, TypeOK
    <3>2. \A j \in Entry : opentab'[j].id % MAXOPEN = j
      <4> TAKE j \in Entry
      <4>1. CASE j = i
        <5>1. opentab'[j].id = NextId(i)
          BY SMTT(60), <4>1, <2>1, <2>4 DEF IInv, TypeOK
        <5>. QED  BY <5>1, <4>1, <2>5
      <4>2. CASE j # i
        BY SMTT(60), <4>2, <2>4 DEF IInv, TypeOK
      <4>. QED  BY <4>1, <4>2
    <3>3. fdpage' \in [Entry -> Nat \cup {NoPage}]
      BY <1>3, <2>1 DEF IInv, TypeOK
    <3>. QED  BY <3>1, <3>2, <3>3, <1>0, <1>3 DEF IInv, TypeOK
  <2>7. Mapped' /\ Asked'
    BY <1>0, <2>1, <2>2, <2>4, UnheldEntry
  <2>8. Fresh' /\ NeverRefused'
    BY SMTT(60), <1>0, <2>1, <2>2, <2>3, <2>4 DEF Fresh, NeverRefused, Unheld, NoPage
  <2>9. Served'
    BY <1>0, <2>3 DEF IInv, Served, Waiting
  <2>10. RepliesMatch'
    BY <1>0, <2>3 DEF IInv, RepliesMatch, Waiting
  <2>. QED  BY <2>6, <2>7, <2>8, <2>9, <2>10 DEF IInv
<1>. QED  BY <1>1, <1>2, <1>3 DEF openfile_alloc

(* serve_open fills the entry, which still nobody has open.                *)
LEMMA ServeOpenInv == ASSUME IInv, serve_open PROVE IInv'
<1> PICK i : i = srv.i
  OBVIOUS
<1>0. /\ i \in Entry /\ Unheld(i) /\ srv.pc = "open" /\ srv.type = "open"
      /\ UNCHANGED <<fdtab, cl, parent, opened>>
  BY DEF IInv, Fresh, serve_open
<1>1. CASE Answer(FALSE, NoEntry) /\ UNCHANGED tables
  BY <1>0, <1>1, PlainAnswer DEF tables
<1>2. CASE /\ opentab' = [opentab EXCEPT ![i].file = srv.path]
           /\ fdpage' = [fdpage EXCEPT ![i] = opentab[i].id]
           /\ Answer(TRUE, i)
  <2>1. /\ srv'.pc = "reply" /\ srv'.r = TRUE /\ srv'.pg = i /\ srv'.whom = srv.whom
        /\ srv'.type = srv.type /\ srv'.path = srv.path /\ srv'.id = srv.id
    BY <1>0, <1>2, AnswerKeeps DEF IInv
  <2>2. /\ \A j \in Entry \ {i} : opentab'[j] = opentab[j] /\ fdpage'[j] = fdpage[j]
        /\ opentab'[i].id = opentab[i].id /\ opentab'[i].file = srv.path
        /\ fdpage'[i] = opentab[i].id
    BY SMTT(60), <1>0, <1>2 DEF IInv, TypeOK
  <2>3. TypeOK'
    <3>1. opentab' \in [Entry -> [id : Nat, file : Path \cup {NoFile}]]
      <4>1. srv.path \in Path \cup {NoFile}
        BY DEF IInv, TypeOK
      <4>2. opentab \in [Entry -> [id : Nat, file : Path \cup {NoFile}]]
        BY DEF IInv, TypeOK
      <4>3. [opentab[i] EXCEPT !.file = srv.path] \in [id : Nat, file : Path \cup {NoFile}]
        BY <4>1, <4>2, <1>0
      <4>. QED  BY <4>2, <4>3, <1>0, <1>2
    <3>2. \A j \in Entry : opentab'[j].id % MAXOPEN = j
      <4> TAKE j \in Entry
      <4>1. opentab'[j].id = opentab[j].id
        BY <2>2
      <4>. QED  BY <4>1 DEF IInv, TypeOK
    <3>3. fdpage' \in [Entry -> Nat \cup {NoPage}]
      BY <1>0, <1>2 DEF IInv, TypeOK
    <3>4. srv' \in ServerRecord
      BY <1>0, <1>2, AnswerKeeps DEF IInv
    <3>. QED  BY <3>1, <3>2, <3>3, <3>4, <1>0 DEF IInv, TypeOK, ServerRecord
  <2>4. Mapped' /\ Asked'
    BY <1>0, <2>2, UnheldEntry
  <2>5. Fresh' /\ NeverRefused'
    BY <1>0, <2>1, <2>2 DEF Fresh, NeverRefused, Unheld
  <2>6. Served'
    BY <1>0, <2>1 DEF IInv, Served, Waiting
  <2>7. RepliesMatch'
    BY <1>0, <2>1 DEF IInv, RepliesMatch, Waiting
  <2>. QED  BY <2>3, <2>4, <2>5, <2>6, <2>7 DEF IInv
<1>. QED  BY <1>1, <1>2 DEF serve_open

(* The file id in a page somebody has mapped is found by openfile_lookup.  *)
LEMMA LookupFinds ==
  ASSUME IInv, NEW c \in Client, NEW n \in Fd, fdtab[c][n] # NoEntry
  PROVE  /\ openfile_lookup(fdpage[fdtab[c][n]])
         /\ fdpage[fdtab[c][n]] % MAXOPEN = fdtab[c][n]
<1> DEFINE i == fdtab[c][n]
<1>1. i \in Entry /\ fdpage[i] = opentab[i].id /\ opentab[i].id % MAXOPEN = i
  BY SMTT(60) DEF IInv, TypeOK, Mapped
<1>2. ~Unheld(i)
  BY DEF Unheld
<1>3. pageref(i) > 1
  BY <1>1, <1>2, InUseMeansHeld DEF IInv, InUse
<1>. QED  BY <1>1, <1>3 DEF openfile_lookup

(* A request on an open file is refused only if its client is gone: until  *)
(* then the client has the page mapped that the id came from.              *)
LEMMA ServeInv == ASSUME IInv, serve PROVE IInv'
<1> DEFINE r == srv.type = "sync" \/ openfile_lookup(srv.id)
<1>0. /\ Answer(r, NoEntry) /\ srv.pc = "serve"
      /\ UNCHANGED <<fdtab, cl, parent, opened, opentab, fdpage>>
  BY DEF serve, tables
<1>1. r \in BOOLEAN
  BY DEF openfile_lookup
<1>2. ASSUME srv.type \in {"use", "flush"}, srv.whom # Gone PROVE r
  <2> PICK c \in Client : c = srv.whom
    BY <1>2 DEF IInv, TypeOK
  <2>1. Asks(c) /\ cl[c].type = srv.type /\ cl[c].id = srv.id
    BY <1>0, <1>2 DEF IInv, Served, RepliesMatch, Waiting, Asks
  <2>2. /\ Closing(c) \in Fd /\ fdtab[c][Closing(c)] # NoEntry
        /\ srv.id = fdpage[fdtab[c][Closing(c)]]
    BY <1>2, <2>1 DEF IInv, Asked
  <2>. QED  BY <2>2, LookupFinds
<1> HIDE DEF r
<1>. QED  BY <1>0, <1>1, <1>2, PlainAnswer

-----------------------------------------------------------------------------
(* The theorems. *)

(* serve_init numbers the entries, nobody has a file open yet.             *)
LEMMA InitInv == Init => IInv
<1> SUFFICES ASSUME Init PROVE IInv
  OBVIOUS
<1>1. TypeOK
  <2>1. \A i \in Entry : i \in Nat /\ i % MAXOPEN = i
    BY SMTT(60), FileServerAssumption DEF Entry
  <2>2. 0 \in 0 .. MAXOPEN
    BY SMTT(60), FileServerAssumption
  <2>. QED  BY <2>1, <2>2 DEF Init, TypeOK, Idle, Receiving, NoFd
<1>2. Mapped
  BY DEF Init, Mapped
<1>3. Fresh /\ Served /\ NeverRefused
  BY DEF Init, Fresh, Served, NeverRefused, Receiving
<1>4. Asked /\ RepliesMatch
  BY DEF Init, Asked, Asks, RepliesMatch, Waiting, Idle
<1>. QED  BY <1>1, <1>2, <1>3, <1>4 DEF IInv

(* The inductive invariant holds in every reachable state of the file      *)
(* server and its clients.                                                 *)
THEOREM InvariantHolds == Spec => []IInv
<1>1. IInv /\ [Next]_vars => IInv'
  <2> SUFFICES ASSUME IInv, [Next]_vars PROVE IInv'
    OBVIOUS
  <2>1. ASSUME NEW c \in Client, ClientStep(c) PROVE IInv'
    BY <2>1, CallInv, DestroyInv, UnmapFdInv, DupFdInv, SendRequestInv, AwaitReplyInv
       DEF ClientStep
  <2>2. CASE ServerStep
    BY <2>2, AllocInv, ServeOpenInv, ServeInv, ReplyInv, NextRequestInv DEF ServerStep
  <2>3. CASE UNCHANGED vars
    <3>1. TypeOK' /\ Mapped' /\ NeverRefused'
      BY SMTT(60), <2>3 DEF vars, IInv, TypeOK, Mapped, NeverRefused
    <3>2. Fresh' /\ Served' /\ RepliesMatch'
      BY <2>3 DEF vars, IInv, Fresh, Unheld, Served, Waiting, RepliesMatch
    <3>3. Asked'
      BY <2>3 DEF vars, IInv, Asked, Asks, Closing
    <3>. QED  BY <3>1, <3>2, <3>3 DEF IInv
  <2>. QED  BY <2>1, <2>2, <2>3 DEF Next
<1>. QED  BY InitInv, <1>1, PTL DEF Spec

(* A descriptor names the file it was opened for as long as it is open:    *)
(* openfile_alloc never takes an entry that somebody has open, for every   *)
(* number of clients, entries and descriptors.                             *)
THEOREM DescriptorsKeepTheirFile == Spec => []DescriptorsStable
<1>1. IInv => DescriptorsStable
  <2> SUFFICES ASSUME IInv, NEW c \in Client, NEW n \in Fd, fdtab[c][n] # NoEntry
               PROVE  /\ openfile_lookup(fdpage[fdtab[c][n]])
                      /\ fdpage[fdtab[c][n]] % MAXOPEN = fdtab[c][n]
                      /\ opentab[fdtab[c][n]].file = opened[c][n]
    BY DEF DescriptorsStable
  <2>. QED  BY LookupFinds DEF IInv, Mapped
<1>. QED  BY InvariantHolds, <1>1, PTL

(* serve never refuses the file id of a client that is still there.        *)
THEOREM RequestsAccepted == Spec => []NeverRefused
<1>1. IInv => NeverRefused
  BY DEF IInv
<1>. QED  BY InvariantHolds, <1>1, PTL

(* ipc_send of the server reaches the client whose request was served.     *)
THEOREM RepliesReachTheirClient == Spec => []RepliesMatch
<1>1. IInv => RepliesMatch
  BY DEF IInv
<1>. QED  BY InvariantHolds, <1>1, PTL

(* Types, and that recycling keeps the id of an entry of opentab equal to  *)
(* its index modulo MAXOPEN (TypeOK).                                      *)
THEOREM TypeCorrect == Spec => []TypeOK
<1>1. IInv => TypeOK
  BY DEF IInv
<1>. QED  BY InvariantHolds, <1>1, PTL
=============================================================================
