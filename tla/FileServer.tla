----------------------------- MODULE FileServer -----------------------------
(***************************************************************************)
(* The file server's table of open files (fs/serv.c) and its clients       *)
(* (lib/file.c, lib/fd.c), which talk to it by IPC (lib/ipc.c).            *)
(*                                                                         *)
(* Entry i of opentab has a page for its struct Fd; the server maps it for *)
(* ever once it has been used, and every client that has the file open     *)
(* maps it too.  The server learns from the page's reference count alone   *)
(* whether an entry is in use: nobody tells it of a close, a duplicate, a  *)
(* fork or a death.  Clients run while the server works; a client may be   *)
(* killed at any moment, its request included.  The contents of files are  *)
(* the business of Fs; of the Fd page only the file id is kept.            *)
(***************************************************************************)
EXTENDS Integers, FiniteSets

CONSTANTS
  Client,          \* environments other than the server
  Root,            \* the first of them
  MAXOPEN,
  MAXFD,
  Path,            \* names of files
  NoFile, Gone,    \* no file, no environment
  MayCall,         \* the calls each client makes
  MaxId,           \* bound: no open once a file id could exceed it
  MemoryMayRunOut

ASSUME FileServerAssumption ==
  /\ Root \in Client /\ IsFiniteSet(Client) /\ Gone \notin Client /\ NoFile \notin Path
  /\ MayCall \in [Client -> SUBSET {"open", "use", "close", "dup", "sync", "fork"}]
  /\ MAXOPEN \in Nat \ {0} /\ MAXFD \in Nat \ {0} /\ MaxId \in Nat
  /\ MemoryMayRunOut \in BOOLEAN

Entry == 0 .. MAXOPEN - 1
Fd == 0 .. MAXFD - 1
NoEntry == -1
NoPage == -1
NoFd == -1

VARIABLES
  opentab,   \* o_fileid and o_file of every entry
  fdpage,    \* fd_file.id in the Fd page of an entry; NoPage before its first use
  fdtab,     \* fdtab[c][n]: the entry whose page c has mapped at descriptor n
  cl,        \* where each client is, and its request
  srv,       \* where the server is, and the request it serves
  parent,
  opened     \* opened[c][n]: the name that was opened to get descriptor n

vars == <<opentab, fdpage, fdtab, cl, srv, parent, opened>>
tables == <<opentab, fdpage>>

Idle == [pc |-> "user", type |-> "none", path |-> NoFile, id |-> 0, fd |-> NoFd, new |-> NoFd]
Receiving == [pc |-> "recv", whom |-> Gone, type |-> "none", path |-> NoFile,
              id |-> 0, i |-> 0, r |-> FALSE, pg |-> NoEntry]
Waiting(c) == cl[c].pc \in {"sent", "recv"}

(***************************************************************************)
(* The references to the Fd page of an entry: the server's own and one for *)
(* every descriptor of every client.                                       *)
(***************************************************************************)
Holders(i) == {p \in Client \X Fd : fdtab[p[1]][p[2]] = i}

pageref(i) == IF fdpage[i] = NoPage THEN 0 ELSE 1 + Cardinality(Holders(i))

-----------------------------------------------------------------------------
(* The client library. *)

(* fsipc, up to its system calls. *)
fsipc(c, type, path, id, n, new) ==
  /\ cl[c].pc = "user"
  /\ cl' = [cl EXCEPT ![c] = [pc |-> "send", type |-> type, path |-> path,
                              id |-> id, fd |-> n, new |-> new]]
  /\ UNCHANGED <<fdtab, srv, parent, opened, tables>>

(* fd_alloc takes the lowest descriptor that is not mapped. *)
open(c, path) ==
  \E n \in Fd :
    /\ fdtab[c][n] = NoEntry /\ \A k \in 0 .. n - 1 : fdtab[c][k] # NoEntry
    /\ \A i \in Entry : opentab[i].id + MAXOPEN <= MaxId
    /\ fsipc(c, "open", path, 0, n, NoFd)

(***************************************************************************)
(* read, write, fstat and ftruncate differ in what they do to the file,    *)
(* close in what follows.                                                  *)
(***************************************************************************)
Use(c, n) ==
  fdtab[c][n] # NoEntry /\ fsipc(c, "use", NoFile, fdpage[fdtab[c][n]], n, NoFd)

(* Mutant: the descriptor is unmapped before the server is asked to flush. *)
close_UnmapFirst(c, n) ==
  /\ fdtab[c][n] # NoEntry /\ cl[c].pc = "user"
  /\ cl' = [cl EXCEPT ![c] = [pc |-> "send", type |-> "flush", path |-> NoFile,
                              id |-> fdpage[fdtab[c][n]], fd |-> n, new |-> NoFd]]
  /\ fdtab' = [fdtab EXCEPT ![c][n] = NoEntry]
  /\ opened' = [opened EXCEPT ![c][n] = NoFile]
  /\ UNCHANGED <<srv, parent, tables>>

close(c, n) ==
  fdtab[c][n] # NoEntry /\ fsipc(c, "flush", NoFile, fdpage[fdtab[c][n]], n, NoFd)

sync(c) == fsipc(c, "sync", NoFile, 0, NoFd, NoFd)

(* dup closes the new descriptor first if it is open. *)
dup(c, old, new) ==
  /\ cl[c].pc = "user" /\ fdtab[c][old] # NoEntry
  /\ IF fdtab[c][new] # NoEntry
     THEN cl' = [cl EXCEPT ![c] = [pc |-> "send", type |-> "flush", path |-> NoFile,
                                   id |-> fdpage[fdtab[c][new]], fd |-> old, new |-> new]]
     ELSE cl' = [cl EXCEPT ![c] = [Idle EXCEPT !.pc = "dup", !.fd = old, !.new = new]]
  /\ UNCHANGED <<fdtab, srv, parent, opened, tables>>

(* The descriptor that a flush precedes the closing of. *)
Closing(c) == IF cl[c].new = NoFd THEN cl[c].fd ELSE cl[c].new

UnmapFd(c) ==
  /\ cl[c].pc = "unmap"
  /\ fdtab' = [fdtab EXCEPT ![c][Closing(c)] = NoEntry]
  /\ opened' = [opened EXCEPT ![c][Closing(c)] = NoFile]
  /\ cl' = [cl EXCEPT ![c] = IF cl[c].new = NoFd THEN Idle
                             ELSE [Idle EXCEPT !.pc = "dup", !.fd = cl[c].fd,
                                               !.new = cl[c].new]]
  /\ UNCHANGED <<srv, parent, tables>>

(* With old = new the page is gone by now, and the call fails. *)
DupFd(c) ==
  /\ cl[c].pc = "dup"
  /\ fdtab' = [fdtab EXCEPT ![c][cl[c].new] = fdtab[c][cl[c].fd]]
  /\ opened' = [opened EXCEPT ![c][cl[c].new] = opened[c][cl[c].fd]]
  /\ cl' = [cl EXCEPT ![c] = Idle]
  /\ UNCHANGED <<srv, parent, tables>>

(* fork: sys_copy_shared_pages gives the child every descriptor. *)
fork(c, child) ==
  /\ cl[c].pc = "user" /\ cl[child].pc = "free"
  /\ fdtab' = [fdtab EXCEPT ![child] = fdtab[c]]
  /\ opened' = [opened EXCEPT ![child] = opened[c]]
  /\ cl' = [cl EXCEPT ![child] = Idle]
  /\ parent' = [parent EXCEPT ![child] = c]
  /\ UNCHANGED <<srv, tables>>

(***************************************************************************)
(* A client exits or faults between two calls, or its parent destroys it,  *)
(* whatever it is doing: its mappings go.  Its name is then free for a new *)
(* environment, which has another envid.                                   *)
(***************************************************************************)
sys_env_destroy(c) ==
  /\ \/ cl[c].pc = "user"
     \/ cl[c].pc # "free" /\ parent[c] # Gone /\ cl[parent[c]].pc = "user"
  /\ fdtab' = [fdtab EXCEPT ![c] = [n \in Fd |-> NoEntry]]
  /\ opened' = [opened EXCEPT ![c] = [n \in Fd |-> NoFile]]
  /\ cl' = [cl EXCEPT ![c] = [Idle EXCEPT !.pc = "free"]]
  /\ parent' = [k \in Client |-> IF k = c \/ parent[k] = c THEN Gone ELSE parent[k]]
  /\ srv' = IF srv.whom = c THEN [srv EXCEPT !.whom = Gone] ELSE srv
  /\ UNCHANGED tables

-----------------------------------------------------------------------------
(* IPC between a client and the server. *)

(***************************************************************************)
(* ipc_send of the client: it succeeds when the server is in ipc_recv, and *)
(* until then is tried again.                                              *)
(***************************************************************************)
SendRequest(c) ==
  /\ cl[c].pc = "send" /\ srv.pc = "recv"
  /\ cl' = [cl EXCEPT ![c].pc = "sent"]
  /\ srv' = [pc |-> IF cl[c].type = "open" THEN "alloc" ELSE "serve",
             whom |-> c, type |-> cl[c].type, path |-> cl[c].path, id |-> cl[c].id,
             i |-> 0, r |-> FALSE, pg |-> NoEntry]
  /\ UNCHANGED <<fdtab, parent, opened, tables>>

(* sys_ipc_recv of the client. *)
AwaitReply(c) ==
  /\ cl[c].pc = "sent" /\ cl' = [cl EXCEPT ![c].pc = "recv"]
  /\ UNCHANGED <<fdtab, srv, parent, opened, tables>>

(***************************************************************************)
(* ipc_send of the server, which panics when the client is gone (or when   *)
(* there is no memory to map the page in the client).  The page is mapped  *)
(* where the client said in its last receive that asked for one.           *)
(***************************************************************************)
Reply ==
  LET c == srv.whom IN
  /\ srv.pc = "reply"
  /\ \/ /\ c # Gone /\ cl[c].pc = "recv"
        /\ srv' = [Receiving EXCEPT !.pc = "done"]
        /\ IF srv.pg = NoEntry THEN UNCHANGED <<fdtab, opened>>
           ELSE /\ fdtab' = [fdtab EXCEPT ![c][cl[c].fd] = srv.pg]
                /\ opened' = [opened EXCEPT ![c][cl[c].fd] = cl[c].path]
        /\ cl' = [cl EXCEPT ![c] = IF @.type = "flush" THEN [@ EXCEPT !.pc = "unmap"]
                                   ELSE Idle]
     \/ /\ c # Gone => MemoryMayRunOut /\ srv.pg # NoEntry /\ cl[c].pc = "recv"
        /\ srv' = [srv EXCEPT !.pc = "panic"]
        /\ UNCHANGED <<fdtab, opened, cl>>
  /\ UNCHANGED <<parent, tables>>

(* sys_page_unmap(0, fsreq), and ipc_recv again.  (A request without an     *)
(* argument page is taken and never answered; the clients of lib/ always   *)
(* send the page.)                                                         *)
NextRequest ==
  /\ srv.pc = "done" /\ srv' = Receiving
  /\ UNCHANGED <<fdtab, cl, parent, opened, tables>>

-----------------------------------------------------------------------------
(* The server. *)

Answer(r, pg) == srv' = [srv EXCEPT !.pc = "reply", !.r = r, !.pg = pg]

(* Mutant: an entry that one client still has open is taken. *)
InUse_ByTwo(i) == pageref(i) > 2

InUse(i) == pageref(i) > 1

(* Mutant: the file ids are numbered one by one. *)
NextId_ByOne(i) == opentab[i].id + 1

NextId(i) == opentab[i].id + MAXOPEN

(* Mutant: no answer to an open that finds the table full. *)
openfile_alloc_Silent ==
  LET i == srv.i IN
  /\ srv.pc = "alloc"
  /\ \/ /\ i = MAXOPEN /\ srv' = [srv EXCEPT !.pc = "done"] /\ UNCHANGED <<opentab, fdpage>>
     \/ /\ i < MAXOPEN /\ InUse(i)
        /\ srv' = [srv EXCEPT !.i = i + 1] /\ UNCHANGED <<opentab, fdpage>>
     \/ /\ i < MAXOPEN /\ ~InUse(i)
        /\ opentab' = [opentab EXCEPT ![i].id = NextId(i)]
        /\ fdpage' = [fdpage EXCEPT ![i] = 0]
        /\ srv' = [srv EXCEPT !.pc = "open"]
     \/ /\ i < MAXOPEN /\ pageref(i) = 0 /\ MemoryMayRunOut
        /\ Answer(FALSE, NoEntry) /\ UNCHANGED <<opentab, fdpage>>
  /\ UNCHANGED <<fdtab, cl, parent, opened>>

(* Mutant: the loop does not get past an entry in use. *)
openfile_alloc_Stuck ==
  LET i == srv.i IN
  /\ srv.pc = "alloc"
  /\ \/ /\ i < MAXOPEN /\ ~InUse(i)
        /\ opentab' = [opentab EXCEPT ![i].id = NextId(i)]
        /\ fdpage' = [fdpage EXCEPT ![i] = 0]
        /\ srv' = [srv EXCEPT !.pc = "open"]
     \/ /\ i < MAXOPEN /\ pageref(i) = 0 /\ MemoryMayRunOut
        /\ Answer(FALSE, NoEntry) /\ UNCHANGED <<opentab, fdpage>>
  /\ UNCHANGED <<fdtab, cl, parent, opened>>

(***************************************************************************)
(* openfile_alloc looks at one entry after the other; the counts change    *)
(* meanwhile.  The page of a new entry is cleared.                         *)
(***************************************************************************)
openfile_alloc ==
  LET i == srv.i IN
  /\ srv.pc = "alloc"
  /\ \/ /\ i = MAXOPEN /\ Answer(FALSE, NoEntry) /\ UNCHANGED <<opentab, fdpage>>
     \/ /\ i < MAXOPEN /\ InUse(i)
        /\ srv' = [srv EXCEPT !.i = i + 1] /\ UNCHANGED <<opentab, fdpage>>
     \/ /\ i < MAXOPEN /\ ~InUse(i)
        /\ opentab' = [opentab EXCEPT ![i].id = NextId(i)]
        /\ fdpage' = [fdpage EXCEPT ![i] = 0]
        /\ srv' = [srv EXCEPT !.pc = "open"]
     \/ /\ i < MAXOPEN /\ pageref(i) = 0 /\ MemoryMayRunOut
        /\ Answer(FALSE, NoEntry) /\ UNCHANGED <<opentab, fdpage>>
  /\ UNCHANGED <<fdtab, cl, parent, opened>>

(***************************************************************************)
(* serve_open after openfile_alloc: the file is found or created, or not.  *)
(***************************************************************************)
serve_open ==
  LET i == srv.i IN
  /\ srv.pc = "open"
  /\ \/ /\ Answer(FALSE, NoEntry) /\ UNCHANGED tables
     \/ /\ opentab' = [opentab EXCEPT ![i].file = srv.path]
        /\ fdpage' = [fdpage EXCEPT ![i] = opentab[i].id]
        /\ Answer(TRUE, i)
  /\ UNCHANGED <<fdtab, cl, parent, opened>>

openfile_lookup(id) ==
  LET i == id % MAXOPEN IN pageref(i) > 1 /\ opentab[i].id = id

(* The other requests.  All but sync work on the file that the id names. *)
serve ==
  /\ srv.pc = "serve"
  /\ Answer(srv.type = "sync" \/ openfile_lookup(srv.id), NoEntry)
  /\ UNCHANGED <<fdtab, cl, parent, opened, tables>>

-----------------------------------------------------------------------------
Init ==
  /\ opentab = [i \in Entry |-> [id |-> i, file |-> NoFile]]
  /\ fdpage = [i \in Entry |-> NoPage]
  /\ fdtab = [c \in Client |-> [n \in Fd |-> NoEntry]]
  /\ opened = [c \in Client |-> [n \in Fd |-> NoFile]]
  /\ cl = [c \in Client |-> IF c = Root THEN Idle ELSE [Idle EXCEPT !.pc = "free"]]
  /\ srv = Receiving
  /\ parent = [c \in Client |-> Gone]

Call(c) ==
  \/ "open" \in MayCall[c] /\ \E p \in Path : open(c, p)
  \/ "use" \in MayCall[c] /\ \E n \in Fd : Use(c, n)
  \/ "close" \in MayCall[c] /\ \E n \in Fd : close(c, n)
  \/ "dup" \in MayCall[c] /\ \E n, k \in Fd : dup(c, n, k)
  \/ "sync" \in MayCall[c] /\ sync(c)
  \/ "fork" \in MayCall[c] /\ \E k \in Client : fork(c, k)

ClientStep(c) ==
  \/ Call(c) \/ sys_env_destroy(c)
  \/ UnmapFd(c) \/ DupFd(c) \/ SendRequest(c) \/ AwaitReply(c)

ServerStep == openfile_alloc \/ serve_open \/ serve \/ Reply \/ NextRequest

Next == (\E c \in Client : ClientStep(c)) \/ ServerStep

(***************************************************************************)
(* The scheduler runs every runnable environment again and again: the      *)
(* server goes on, and so does a client inside a call.                     *)
(***************************************************************************)
Fairness ==
  /\ WF_vars(ServerStep)
  /\ \A c \in Client : WF_vars(AwaitReply(c) \/ UnmapFd(c) \/ DupFd(c))

Spec == Init /\ [][Next]_vars
FairSpec == Spec /\ Fairness

-----------------------------------------------------------------------------
(* Properties. *)

(* Types; a file id is that of its entry modulo MAXOPEN, which is how      *)
(* openfile_lookup finds the entry.                                        *)
TypeOK ==
  /\ opentab \in [Entry -> [id : Nat, file : Path \cup {NoFile}]]
  /\ \A i \in Entry : opentab[i].id % MAXOPEN = i
  /\ fdpage \in [Entry -> Nat \cup {NoPage}]
  /\ fdtab \in [Client -> [Fd -> Entry \cup {NoEntry}]]
  /\ opened \in [Client -> [Fd -> Path \cup {NoFile}]]
  /\ cl \in [Client -> [pc : {"free", "user", "send", "sent", "recv", "unmap", "dup"},
                         type : {"none", "open", "use", "flush", "sync"},
                         path : Path \cup {NoFile}, id : Nat \cup {NoPage},
                         fd : Fd \cup {NoFd}, new : Fd \cup {NoFd}]]
  /\ srv \in [pc : {"recv", "alloc", "open", "serve", "reply", "done", "panic"},
               whom : Client \cup {Gone}, type : {"none", "open", "use", "flush", "sync"},
               path : Path \cup {NoFile}, id : Nat \cup {NoPage}, i : 0 .. MAXOPEN,
               r : BOOLEAN, pg : Entry \cup {NoEntry}]
  /\ parent \in [Client -> Client \cup {Gone}]

(* A descriptor names the file it was opened for as long as it is open, in *)
(* every environment that has it by fork or dup: openfile_alloc never      *)
(* takes an entry somebody has open, and openfile_lookup finds it.         *)
DescriptorsStable ==
  \A c \in Client, n \in Fd :
    fdtab[c][n] # NoEntry =>
      LET i == fdtab[c][n]
      IN openfile_lookup(fdpage[i]) /\ fdpage[i] % MAXOPEN = i
         /\ opentab[i].file = opened[c][n]

(* The request of a client that is still there is never refused for its    *)
(* file id: the page it comes from stays mapped until the reply (fd_close  *)
(* unmaps after dev_close).                                                *)
NeverRefused ==
  srv.pc = "reply" /\ srv.type \in {"use", "flush"} /\ ~srv.r => srv.whom = Gone

(* The reply goes to the client that asked, which waits for that and       *)
(* nothing else: at most one client waits, the one that is being served.   *)
RepliesMatch ==
  \A c \in Client : Waiting(c) =>
    /\ srv.pc \in {"alloc", "open", "serve", "reply", "panic"} /\ srv.whom = c
    /\ srv.type = cl[c].type /\ srv.id = cl[c].id /\ srv.path = cl[c].path

(* Every request that the server has taken is answered, unless the client  *)
(* or the server dies first.                                               *)
Answered ==
  \A c \in Client : Waiting(c) ~> (~Waiting(c) \/ srv.pc = "panic")
=============================================================================
