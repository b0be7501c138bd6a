----------------------------- MODULE PmapProofs -----------------------------
(***************************************************************************)
(* Proofs about Pmap, for any number of pages, environments, CPUs and user *)
(* pages.                                                                  *)
(*                                                                         *)
(* The operations of pmap.c are operators on a record m of all memory, so  *)
(* the argument is about records: MemOk(m, H) says that m is consistent    *)
(* but for the pages of H, which page_alloc has handed out and nobody      *)
(* refers to yet.  One lemma per operation shows what it makes of a        *)
(* consistent record; a system call then only stores the last one.         *)
(***************************************************************************)
EXTENDS Pmap, FiniteSetTheorems, TLAPS

(* A leaf is for Zenon, unless it names the SMT solver. *)
USE ZenonT(60)

Mem ==
  [at : [Places -> Pages \cup {NULL}], w : [Envs \X VAs -> BOOLEAN],
   ref : [Pages -> 0 .. RefLimit - 1], free : SUBSET Pages,
   ok : BOOLEAN, bad : BOOLEAN]

Refs(m, p) == {x \in Places : m.at[x] = p}

Counted(m) == \A p \in Pages : m.ref[p] = Cardinality(Refs(m, p)) + lost[p]

(* The free pages are those nobody refers to, but for those of H.          *)
Listed(m, H) ==
  \A p \in Pages : p \in m.free <=> m.ref[p] = 0 /\ p \notin H

Held(m, H) == \A p \in H : m.ref[p] = 0

Private(m) ==
  \A x, y \in Places :
    m.at[x] # NULL /\ x[2] \notin VAs /\ m.at[y] = m.at[x] => x = y

(* A mapped page has its directory above it.                               *)
Rooted(m) ==
  \A e \in Envs, va \in VAs :
    m.at[<<e, va>>] # NULL => m.at[<<e, Dir1(va)>>] # NULL

(* No page that serves as a table was left behind by env_free.             *)
Kept(m) ==
  \A x \in Places : m.at[x] # NULL /\ x[2] \notin VAs => lost[m.at[x]] = 0

MemOk(m, H) ==
  Counted(m) /\ Listed(m, H) /\ Held(m, H) /\ Private(m) /\ Rooted(m) /\ Kept(m)

-----------------------------------------------------------------------------
(* The places. *)

(* A page-table entry of one level and one of another are different: the   *)
(* tuples of indices that name them differ in length.                      *)
LEMMA DirsAreNotPages ==
  ASSUME NEW va \in VAs
  PROVE  /\ Dir0 \notin VAs /\ Dir1(va) \notin VAs
         /\ Dir2(va) \notin VAs /\ Dir3(va) \notin VAs
<1>1. \A v \in VAs : v \in Nat \X Nat \X Nat \X Nat
  BY PmapAssumption
<1>2. \A v \in Nat \X Nat \X Nat \X Nat :
        \E a, b, c, d \in Nat : v = <<a, b, c, d>>
  BY SMTT(60)
<1>4. \A a, b, c, d \in Nat : Len(<<a, b, c, d>>) = 4
  OBVIOUS
<1>3. Len(Dir0) = 0 /\ Len(Dir1(va)) = 1 /\ Len(Dir2(va)) = 2 /\ Len(Dir3(va)) = 3
  BY DEF Dir0, Dir1, Dir2, Dir3
<1>5. ASSUME NEW v \in VAs PROVE Len(v) = 4
  <2>1. PICK a, b, c, d \in Nat : v = <<a, b, c, d>>
    BY <1>1, <1>2
  <2> QED
    BY <2>1, <1>4
<1> QED
  BY SMTT(60), <1>3, <1>5

(* The tables are finite: an address space has finitely many entries.      *)
LEMMA EntriesFinite == IsFiniteSet(Entries)
<1>1. IsFiniteSet(VAs)
  BY PmapAssumption
<1>2. IsFiniteSet({Dir1(va) : va \in VAs})
  <2> DEFINE f == [va \in VAs |-> Dir1(va)]
  <2>1. f \in Surjection(VAs, {Dir1(va) : va \in VAs})
    BY DEF Surjection
  <2> QED
    BY <1>1, <2>1, FS_Surjection
<1>3. IsFiniteSet({Dir2(va) : va \in VAs})
  <2> DEFINE f == [va \in VAs |-> Dir2(va)]
  <2>1. f \in Surjection(VAs, {Dir2(va) : va \in VAs})
    BY DEF Surjection
  <2> QED
    BY <1>1, <2>1, FS_Surjection
<1>4. IsFiniteSet({Dir3(va) : va \in VAs})
  <2> DEFINE f == [va \in VAs |-> Dir3(va)]
  <2>1. f \in Surjection(VAs, {Dir3(va) : va \in VAs})
    BY DEF Surjection
  <2> QED
    BY <1>1, <2>1, FS_Surjection
<1>5. IsFiniteSet({Dir0})
  BY FS_Singleton
<1> HIDE DEF Dir0, Dir1, Dir2, Dir3
<1> QED
  BY <1>1, <1>2, <1>3, <1>4, <1>5, FS_Union DEF Entries

(* So there are finitely many places.                                      *)
LEMMA PlacesFinite == IsFiniteSet(Places)
BY EntriesFinite, FS_Product, PmapAssumption DEF Places

(* Every entry is a place.                                                 *)
LEMMA ArePlaces ==
  ASSUME NEW e \in Envs, NEW va \in VAs
  PROVE  /\ <<e, Dir0>> \in Places /\ <<e, Dir1(va)>> \in Places
         /\ <<e, Dir2(va)>> \in Places /\ <<e, Dir3(va)>> \in Places
         /\ <<e, va>> \in Places /\ <<e, va>> \in Envs \X VAs
BY DEF Places, Entries

(* Counting references.                                                    *)
LEMMA RefsFinite ==
  ASSUME NEW m, NEW p
  PROVE  IsFiniteSet(Refs(m, p)) /\ Cardinality(Refs(m, p)) \in Nat
<1>1. Refs(m, p) \in SUBSET Places
  BY DEF Refs
<1> QED
  BY <1>1, PlacesFinite, FS_Subset, FS_CardinalityType

(* A page nobody counts is referred to by no entry.                        *)
LEMMA NoRefs ==
  ASSUME NEW m \in Mem, Counted(m), NEW p \in Pages, m.ref[p] = 0,
         lost \in [Pages -> Nat]
  PROVE  Refs(m, p) = {} /\ lost[p] = 0
<1>1. Cardinality(Refs(m, p)) \in Nat /\ IsFiniteSet(Refs(m, p))
  BY RefsFinite
<1>2. lost[p] \in Nat /\ Cardinality(Refs(m, p)) + lost[p] = 0
  BY DEF Counted
<1>3. Cardinality(Refs(m, p)) = 0 /\ lost[p] = 0
  BY SMTT(60), <1>1, <1>2
<1> QED
  BY <1>1, <1>3, FS_EmptySet

(* A page an entry refers to is counted.                                   *)
LEMMA RefCounted ==
  ASSUME NEW m \in Mem, Counted(m), NEW x \in Places, m.at[x] # NULL,
         lost \in [Pages -> Nat]
  PROVE  m.at[x] \in Pages /\ m.ref[m.at[x]] > 0
<1>1. m.at[x] \in Pages /\ x \in Refs(m, m.at[x])
  BY DEF Mem, Refs
<1>2. m.ref[m.at[x]] \in Nat
  BY SMTT(60), <1>1 DEF Mem
<1>3. m.ref[m.at[x]] # 0
  BY <1>1, NoRefs
<1> QED
  BY SMTT(60), <1>1, <1>2, <1>3

-----------------------------------------------------------------------------
(* The allocator and one entry. *)

(* page_alloc hands out a free page.                                       *)
LEMMA PageAlloc ==
  ASSUME NEW m \in Mem, m.free # {}
  PROVE  /\ FirstFree(m) \in m.free /\ FirstFree(m) \in Pages
         /\ page_alloc(m) \in Mem
         /\ page_alloc(m).at = m.at /\ page_alloc(m).w = m.w
         /\ page_alloc(m).ref = m.ref
         /\ page_alloc(m).free = m.free \ {FirstFree(m)}
         /\ page_alloc(m).ok = m.ok /\ page_alloc(m).bad = m.bad
<1>1. FirstFree(m) \in m.free
  BY DEF FirstFree
<1> QED
  BY <1>1 DEF Mem, page_alloc

(* The page it hands out is held, and consistency is kept.                 *)
LEMMA PageAllocOk ==
  ASSUME NEW m \in Mem, m.free # {}, NEW H, MemOk(m, H)
  PROVE  MemOk(page_alloc(m), H \cup {FirstFree(m)}) /\ FirstFree(m) \notin H
<1> DEFINE n == page_alloc(m)
           p == FirstFree(m)
<1>1. /\ n.at = m.at /\ n.ref = m.ref /\ n.free = m.free \ {p}
      /\ p \in m.free /\ p \in Pages
  BY PageAlloc
<1> HIDE DEF n, p
<1>2. Counted(n) /\ Private(n) /\ Rooted(n) /\ Kept(n)
  BY <1>1 DEF MemOk, Counted, Private, Rooted, Kept, Refs
<1>3. p \notin H /\ m.ref[p] = 0
  BY <1>1 DEF MemOk, Listed
<1>4. Listed(n, H \cup {p}) /\ Held(n, H \cup {p})
  BY <1>1, <1>3 DEF MemOk, Listed, Held
<1> QED
  BY <1>2, <1>3, <1>4 DEF MemOk, n, p

(* The fields of the record Attach makes.                                  *)
LEMMA AttachFields ==
  ASSUME NEW m \in Mem, NEW x \in Places, NEW p \in Pages
  PROVE  /\ Attach(m, x, p) \in Mem
         /\ Attach(m, x, p).at = [m.at EXCEPT ![x] = p]
         /\ Attach(m, x, p).ref = [m.ref EXCEPT ![p] = (m.ref[p] + 1) % RefLimit]
         /\ Attach(m, x, p).w = m.w /\ Attach(m, x, p).free = m.free
         /\ Attach(m, x, p).ok = m.ok /\ Attach(m, x, p).bad = m.bad
<1>1. m.ref[p] \in Nat /\ RefLimit \in Nat \ {0}
  BY SMTT(60), PmapAssumption DEF Mem
<1>2. (m.ref[p] + 1) % RefLimit \in 0 .. RefLimit - 1
  BY SMTT(60), <1>1
<1> QED
  BY <1>2 DEF Attach, Mem

(* A page that is not on the free list may be put into an empty entry: a   *)
(* fresh one anywhere, one already mapped by programs into a PTE.          *)
LEMMA AttachOk ==
  ASSUME NEW m \in Mem, NEW H, MemOk(m, H), lost \in [Pages -> Nat],
         NEW x \in Places, m.at[x] = NULL, NEW p \in Pages, p \notin m.free,
         m.ref[p] + 1 < RefLimit,
         x[2] \notin VAs => m.ref[p] = 0,
         x[2] \in VAs => m.at[<<x[1], Dir1(x[2])>>] # NULL,
         \A y \in Places : m.at[y] = p => y[2] \in VAs
  PROVE  MemOk(Attach(m, x, p), H \ {p})
<1> DEFINE n == Attach(m, x, p)
<1>0. NULL \notin Pages /\ RefLimit \in Nat
  BY PmapAssumption DEF Pages
<1>1. /\ n \in Mem /\ n.at = [m.at EXCEPT ![x] = p] /\ n.free = m.free
      /\ n.ref = [m.ref EXCEPT ![p] = (m.ref[p] + 1) % RefLimit]
  BY SMTT(60), AttachFields
<1>2. m.at \in [Places -> Pages \cup {NULL}] /\ m.ref \in [Pages -> 0 .. RefLimit - 1]
  BY DEF Mem
<1> HIDE DEF n
<1>3. n.ref[p] = m.ref[p] + 1 /\ \A q \in Pages \ {p} : n.ref[q] = m.ref[q]
  BY SMTT(60), <1>0, <1>1, <1>2
<1>4. n.at[x] = p /\ \A y \in Places \ {x} : n.at[y] = m.at[y]
  BY <1>1, <1>2
<1>5. Counted(n)
  <2>1. ASSUME NEW q \in Pages, q # p
        PROVE  n.ref[q] = Cardinality(Refs(n, q)) + lost[q]
    <3>1. Refs(n, q) = Refs(m, q)
      BY <1>0, <1>4, <2>1 DEF Refs
    <3> QED
      BY <1>3, <2>1, <3>1 DEF MemOk, Counted
  <2>2. n.ref[p] = Cardinality(Refs(n, p)) + lost[p]
    <3>1. Refs(n, p) = Refs(m, p) \cup {x} /\ x \notin Refs(m, p)
      BY <1>0, <1>4 DEF Refs
    <3>2. Cardinality(Refs(n, p)) = Cardinality(Refs(m, p)) + 1
      BY <3>1, RefsFinite, FS_AddElement
    <3>3. m.ref[p] = Cardinality(Refs(m, p)) + lost[p]
      BY DEF MemOk, Counted
    <3>4. Cardinality(Refs(m, p)) \in Nat /\ lost[p] \in Nat
      BY RefsFinite
    <3> QED
      BY SMTT(60), <1>3, <3>2, <3>3, <3>4
  <2> QED
    BY <2>1, <2>2 DEF Counted
<1>6. Listed(n, H \ {p})
  <2>1. m.ref[p] + 1 # 0
    BY SMTT(60), <1>2
  <2> QED
    BY <1>1, <1>3, <2>1 DEF MemOk, Listed
<1>7. Held(n, H \ {p})
  <2>1. \A q \in H : m.ref[q] = 0
    BY DEF MemOk, Held
  <2>2. \A q \in H \ {p} : n.ref[q] = m.ref[q]
    BY SMTT(60), <1>1, <1>2
  <2> QED
    BY <2>1, <2>2 DEF Held
<1>8. Private(n)
  <2> SUFFICES ASSUME NEW y \in Places, NEW z \in Places, n.at[y] # NULL,
                      y[2] \notin VAs, n.at[z] = n.at[y]
               PROVE  y = z
    BY DEF Private
  <2>1. CASE y # x /\ z # x
    BY <1>4, <2>1 DEF MemOk, Private
  <2>2. CASE y # x /\ z = x
    BY <1>4, <2>2
  <2>3. CASE y = x /\ z # x
    <3>1. m.ref[p] = 0 /\ m.at[z] = p
      BY <1>4, <2>3
    <3>2. z \in Refs(m, p)
      BY <3>1 DEF Refs
    <3> QED
      BY <3>1, <3>2, NoRefs DEF MemOk
  <2> QED
    BY <2>1, <2>2, <2>3
<1>9. Rooted(n)
  <2> SUFFICES ASSUME NEW e \in Envs, NEW va \in VAs, n.at[<<e, va>>] # NULL
               PROVE  n.at[<<e, Dir1(va)>>] # NULL
    BY DEF Rooted
  <2>1. <<e, va>> \in Places /\ <<e, Dir1(va)>> \in Places /\ Dir1(va) \notin VAs
    BY ArePlaces, DirsAreNotPages
  <2>2. m.at[<<e, Dir1(va)>>] # NULL
    <3>1. CASE <<e, va>> = x
      BY <3>1
    <3>2. CASE <<e, va>> # x
      BY <1>4, <2>1, <3>2 DEF MemOk, Rooted
    <3> QED
      BY <3>1, <3>2
  <2> QED
    BY <2>1, <2>2, <1>0, <1>4
<1>10. Kept(n)
  <2> SUFFICES ASSUME NEW y \in Places, n.at[y] # NULL, y[2] \notin VAs
               PROVE  lost[n.at[y]] = 0
    BY DEF Kept
  <2>1. CASE y = x
    BY <1>4, <2>1, NoRefs DEF MemOk
  <2>2. CASE y # x
    BY <1>4, <2>2 DEF MemOk, Kept
  <2> QED
    BY <2>1, <2>2
<1> QED
  BY <1>5, <1>6, <1>7, <1>8, <1>9, <1>10 DEF MemOk, n

-----------------------------------------------------------------------------
(* The walk. *)

(***************************************************************************)
(* n is m with tables added for environment e.                             *)
(***************************************************************************)
Walked(m, n, e) ==
  /\ n.w = m.w /\ n.bad = m.bad /\ (n.ok => m.ok) /\ n.free \subseteq m.free
  /\ \A y \in Places : n.at[y] # m.at[y] =>
       y[1] = e /\ y[2] \notin VAs /\ m.at[y] = NULL /\ n.at[y] \in m.free
  /\ \A p \in Pages \ m.free : n.ref[p] = m.ref[p]

(* One level adds one table or none.                                       *)
LEMMA CreateLevelOk ==
  ASSUME NEW m \in Mem, NEW H, MemOk(m, H), lost \in [Pages -> Nat],
         NEW x \in Places, x[2] \notin VAs
  PROVE  LET n == CreateLevel(m, x) IN
         n \in Mem /\ MemOk(n, H) /\ Walked(m, n, x[1])
         /\ (n.ok => n.at[x] # NULL)
<1> DEFINE n == CreateLevel(m, x)
<1>0. NULL \notin Pages /\ RefLimit \in Nat \ {0, 1}
  BY PmapAssumption DEF Pages
<1>1. CASE ~m.ok \/ m.at[x] # NULL
  <2>1. n = m
    BY <1>1 DEF CreateLevel
  <2> QED
    BY <1>1, <2>1 DEF Walked
<1>2. CASE m.ok /\ m.at[x] = NULL /\ m.free = {}
  <2>1. n = [m EXCEPT !.ok = FALSE]
    BY <1>2 DEF CreateLevel
  <2>2. /\ n \in Mem /\ n.at = m.at /\ n.ref = m.ref /\ n.free = m.free
        /\ n.w = m.w /\ n.bad = m.bad /\ n.ok = FALSE
    BY <2>1 DEF Mem
  <2> HIDE DEF n
  <2>3. MemOk(n, H)
    BY SMTT(60), <2>2 DEF MemOk, Counted, Listed, Held, Private, Rooted, Kept, Refs
  <2> QED
    BY <2>2, <2>3 DEF Walked, n
<1>3. CASE m.ok /\ m.at[x] = NULL /\ m.free # {}
  <2> DEFINE a == page_alloc(m)
             p == FirstFree(m)
  <2>1. n = Attach(a, x, p)
    BY <1>3 DEF CreateLevel
  <2>2. /\ p \in m.free /\ p \in Pages /\ a \in Mem /\ a.at = m.at /\ a.w = m.w
        /\ a.ref = m.ref /\ a.free = m.free \ {p} /\ a.ok = m.ok /\ a.bad = m.bad
    BY <1>3, PageAlloc
  <2>3. MemOk(a, H \cup {p}) /\ p \notin H
    BY <1>3, PageAllocOk
  <2> HIDE DEF a, p
  <2>4. a.ref[p] = 0 /\ a.ref[p] + 1 < RefLimit
    BY SMTT(60), <1>0, <2>3 DEF MemOk, Held
  <2>5. \A y \in Places : a.at[y] = p => y[2] \in VAs
    BY SMTT(60), <2>2, <2>3, <2>4, NoRefs DEF MemOk, Refs
  <2>6. MemOk(n, (H \cup {p}) \ {p})
    <3>1. a.at[x] = NULL /\ p \notin a.free /\ a \in Mem /\ p \in Pages
      BY <1>3, <2>2
    <3>2. MemOk(Attach(a, x, p), (H \cup {p}) \ {p})
      BY <2>3, <2>4, <2>5, <3>1, AttachOk
    <3> QED
      BY <2>1, <3>2
  <2>7. (H \cup {p}) \ {p} = H
    BY <2>3
  <2>8. /\ n \in Mem /\ n.at = [m.at EXCEPT ![x] = p] /\ n.free = m.free \ {p}
        /\ n.w = m.w /\ n.ok = m.ok /\ n.bad = m.bad
        /\ n.ref = [m.ref EXCEPT ![p] = (m.ref[p] + 1) % RefLimit]
    <3> HIDE DEF n
    <3>1. a \in Mem /\ p \in Pages
      BY <2>2
    <3>2. /\ Attach(a, x, p) \in Mem
          /\ Attach(a, x, p).at = [a.at EXCEPT ![x] = p]
          /\ Attach(a, x, p).ref = [a.ref EXCEPT ![p] = (a.ref[p] + 1) % RefLimit]
          /\ Attach(a, x, p).w = a.w /\ Attach(a, x, p).free = a.free
          /\ Attach(a, x, p).ok = a.ok /\ Attach(a, x, p).bad = a.bad
      BY <3>1, AttachFields
    <3> QED
      BY <2>1, <2>2, <3>2
  <2>9. m.at \in [Places -> Pages \cup {NULL}] /\ m.ref \in [Pages -> 0 .. RefLimit - 1]
    BY DEF Mem
  <2> HIDE DEF n
  <2>10. n.at[x] = p /\ \A y \in Places \ {x} : n.at[y] = m.at[y]
    BY <2>8, <2>9
  <2>11. \A q \in Pages \ m.free : n.ref[q] = m.ref[q]
    BY <2>2, <2>8, <2>9
  <2>12. Walked(m, n, x[1])
    BY <1>3, <2>2, <2>8, <2>10, <2>11 DEF Walked
  <2> QED
    BY <1>0, <2>2, <2>6, <2>7, <2>8, <2>10, <2>12 DEF n
<1> QED
  BY <1>1, <1>2, <1>3 DEF Mem

(* Walks compose.                                                          *)
LEMMA WalkedTwice ==
  ASSUME NEW m \in Mem, NEW n \in Mem, NEW r \in Mem, NEW e,
         Walked(m, n, e), Walked(n, r, e)
  PROVE  Walked(m, r, e)
<1>0. NULL \notin Pages
  BY PmapAssumption DEF Pages
<1>1. ASSUME NEW y \in Places, r.at[y] # m.at[y]
      PROVE  y[1] = e /\ y[2] \notin VAs /\ m.at[y] = NULL /\ r.at[y] \in m.free
  <2>1. CASE n.at[y] # m.at[y]
    <3>1. y[1] = e /\ y[2] \notin VAs /\ m.at[y] = NULL /\ n.at[y] \in m.free
      BY <2>1 DEF Walked
    <3>2. n.at[y] # NULL
      BY <1>0, <3>1 DEF Mem
    <3>3. r.at[y] = n.at[y]
      BY <3>2 DEF Walked
    <3> QED
      BY <3>1, <3>3
  <2>2. CASE n.at[y] = m.at[y]
    BY <1>1, <2>2 DEF Walked
  <2> QED
    BY <2>1, <2>2
<1>2. \A p \in Pages \ m.free : r.ref[p] = m.ref[p]
  BY SMTT(60) DEF Walked
<1> QED
  BY <1>1, <1>2 DEF Walked

(* pgdir_walk adds up to three tables, and all of them when it succeeds.   *)
LEMMA WalkOk ==
  ASSUME NEW m \in Mem, NEW H, MemOk(m, H), lost \in [Pages -> Nat],
         NEW e \in Envs, NEW va \in VAs
  PROVE  LET n == pgdir_walk(m, e, va) IN
         /\ n \in Mem /\ MemOk(n, H) /\ Walked(m, n, e)
         /\ n.ok => n.at[<<e, Dir1(va)>>] # NULL
<1> DEFINE a == CreateLevel(m, <<e, Dir1(va)>>)
           b == CreateLevel(a, <<e, Dir2(va)>>)
           n == CreateLevel(b, <<e, Dir3(va)>>)
<1>0. /\ <<e, Dir1(va)>> \in Places /\ <<e, Dir1(va)>>[2] \notin VAs
      /\ <<e, Dir2(va)>> \in Places /\ <<e, Dir2(va)>>[2] \notin VAs
      /\ <<e, Dir3(va)>> \in Places /\ <<e, Dir3(va)>>[2] \notin VAs
      /\ <<e, Dir1(va)>>[1] = e /\ <<e, Dir2(va)>>[1] = e /\ <<e, Dir3(va)>>[1] = e
  BY ArePlaces, DirsAreNotPages
<1>1. a \in Mem /\ MemOk(a, H) /\ Walked(m, a, e) /\ (a.ok => a.at[<<e, Dir1(va)>>] # NULL)
  BY <1>0, CreateLevelOk
<1> HIDE DEF a
<1>2. b \in Mem /\ MemOk(b, H) /\ Walked(a, b, e)
  BY <1>0, <1>1, CreateLevelOk
<1> HIDE DEF b
<1>3. n \in Mem /\ MemOk(n, H) /\ Walked(b, n, e)
  BY <1>0, <1>2, CreateLevelOk
<1>4. n = pgdir_walk(m, e, va)
  BY DEF pgdir_walk, a, b
<1> HIDE DEF n
<1>5. Walked(m, n, e)
  BY <1>1, <1>2, <1>3, WalkedTwice
<1>6. ASSUME n.ok PROVE n.at[<<e, Dir1(va)>>] # NULL
  <2>1. b.ok /\ a.ok
    BY <1>2, <1>3, <1>6 DEF Walked
  <2>2. b.at[<<e, Dir1(va)>>] # NULL
    BY <1>0, <1>1, <1>2, <2>1 DEF Walked
  <2> QED
    BY <1>0, <1>3, <2>2 DEF Walked
<1> QED
  BY <1>3, <1>4, <1>5, <1>6

-----------------------------------------------------------------------------
(* Removing and inserting a mapping. *)

(* page_free, its two checks passed.                                       *)
LEMMA FreeFields ==
  ASSUME NEW m \in Mem, NEW p \in Pages, m.ref[p] = 0, p \notin m.free
  PROVE  LET n == page_free(m, p) IN
         /\ n \in Mem /\ n.at = m.at /\ n.w = m.w /\ n.ref = m.ref /\ n.ok = m.ok
         /\ n.bad = m.bad /\ n.free = m.free \cup {p}
<1> DEFINE f == m.free \cup {p}
<1>1. f \in SUBSET Pages
  BY DEF Mem
<1>2. page_free(m, p) = [m EXCEPT !.free = f]
  BY DEF page_free
<1> HIDE DEF f
<1>3. LET n == [m EXCEPT !.free = f] IN
      /\ n \in Mem /\ n.at = m.at /\ n.w = m.w /\ n.ref = m.ref /\ n.ok = m.ok
      /\ n.bad = m.bad /\ n.free = f
  BY <1>1 DEF Mem
<1> QED
  BY <1>2, <1>3 DEF f

(* page_decref on any page: it takes nothing from the free list.           *)
LEMMA DecrefAny ==
  ASSUME NEW m \in Mem, NEW p \in Pages
  PROVE  LET d == page_decref(m, p) IN
         d \in Mem /\ d.ok = m.ok /\ m.free \subseteq d.free
<1> DEFINE r == (m.ref[p] - 1) % RefLimit
           n == [m EXCEPT !.ref[p] = r]
<1>1. m.ref[p] \in Int /\ RefLimit \in Nat \ {0}
  BY SMTT(60), PmapAssumption DEF Mem
<1>2. r \in 0 .. RefLimit - 1
  BY SMTT(60), <1>1
<1>3. page_decref(m, p) = IF r = 0 THEN page_free(n, p) ELSE n
  BY DEF page_decref
<1> HIDE DEF r
<1>4. n \in Mem /\ n.ok = m.ok /\ n.free = m.free
  BY <1>2 DEF Mem
<1> HIDE DEF n
<1>5. page_free(n, p) \in Mem /\ page_free(n, p).ok = n.ok
      /\ n.free \subseteq page_free(n, p).free
  <2>1. CASE n.ref[p] # 0 \/ p \in n.free
    BY <1>4, <2>1 DEF page_free, Mem
  <2>2. CASE ~(n.ref[p] # 0 \/ p \in n.free)
    BY <1>4, <2>2 DEF page_free, Mem
  <2> QED
    BY <2>1, <2>2
<1> QED
  BY <1>3, <1>4, <1>5

(* page_decref, the page being counted at least once and so not free.      *)
LEMMA DecrefFields ==
  ASSUME NEW m \in Mem, NEW p \in Pages, m.ref[p] # 0, p \notin m.free
  PROVE  LET d == page_decref(m, p) IN
         /\ d \in Mem /\ d.at = m.at /\ d.w = m.w /\ d.ok = m.ok /\ d.bad = m.bad
         /\ d.ref = [m.ref EXCEPT ![p] = m.ref[p] - 1]
         /\ d.free = IF m.ref[p] = 1 THEN m.free \cup {p} ELSE m.free
<1>1. m.ref[p] \in 1 .. RefLimit - 1 /\ RefLimit \in Nat \ {0}
  BY SMTT(60), PmapAssumption DEF Mem
<1>2. (m.ref[p] - 1) % RefLimit = m.ref[p] - 1
  BY SMTT(60), <1>1
<1>3. m.ref[p] - 1 \in 0 .. RefLimit - 1 /\ (m.ref[p] - 1 = 0 <=> m.ref[p] = 1)
  BY SMTT(60), <1>1
<1> DEFINE n == [m EXCEPT !.ref[p] = m.ref[p] - 1]
<1>4. /\ n \in Mem /\ n.at = m.at /\ n.w = m.w /\ n.ok = m.ok /\ n.bad = m.bad
      /\ n.ref = [m.ref EXCEPT ![p] = m.ref[p] - 1] /\ n.free = m.free
      /\ n.ref[p] = m.ref[p] - 1
  BY <1>3 DEF Mem
<1>5. page_decref(m, p) = IF m.ref[p] - 1 = 0 THEN page_free(n, p) ELSE n
  BY <1>2 DEF page_decref
<1> HIDE DEF n
<1>6. CASE m.ref[p] = 1
  <2>1. page_decref(m, p) = page_free(n, p) /\ n.ref[p] = 0 /\ p \notin n.free
    BY <1>3, <1>4, <1>5, <1>6
  <2>2. /\ page_free(n, p) \in Mem /\ page_free(n, p).at = n.at
        /\ page_free(n, p).w = n.w /\ page_free(n, p).ref = n.ref
        /\ page_free(n, p).ok = n.ok /\ page_free(n, p).bad = n.bad
        /\ page_free(n, p).free = n.free \cup {p}
    BY <1>4, <2>1, FreeFields
  <2> QED
    BY <1>4, <1>6, <2>1, <2>2
<1>7. CASE m.ref[p] # 1
  BY <1>3, <1>4, <1>5, <1>7
<1> QED
  BY <1>6, <1>7

(* page_remove makes a record of memory of one, consistent or not.         *)
LEMMA RemoveType ==
  ASSUME NEW m \in Mem, NEW e \in Envs, NEW va \in VAs
  PROVE  /\ page_remove(m, e, va) \in Mem
         /\ page_remove(m, e, va).ok = m.ok
         /\ m.free \subseteq page_remove(m, e, va).free
<1> DEFINE x == <<e, va>>
           p == m.at[x]
           d == page_decref(m, p)
<1>0. x \in Places /\ x \in Envs \X VAs
  BY ArePlaces
<1>1. CASE p = NULL
  BY <1>1 DEF page_remove
<1>2. CASE p # NULL /\ m.ref[p] = 0
  BY <1>2 DEF page_remove, Mem
<1>3. CASE p # NULL /\ m.ref[p] # 0
  <2>1. p \in Pages
    BY <1>0, <1>3 DEF Mem
  <2>2. d \in Mem /\ d.ok = m.ok /\ m.free \subseteq d.free
    BY <2>1, DecrefAny
  <2>3. page_remove(m, e, va) = [d EXCEPT !.at[x] = NULL, !.w[x] = FALSE]
    BY <1>3 DEF page_remove
  <2> HIDE DEF d, x
  <2>4. /\ [d.at EXCEPT ![x] = NULL] \in [Places -> Pages \cup {NULL}]
        /\ [d.w EXCEPT ![x] = FALSE] \in [Envs \X VAs -> BOOLEAN]
    BY <1>0, <2>2 DEF Mem
  <2>5. page_remove(m, e, va) =
          [at |-> [d.at EXCEPT ![x] = NULL], w |-> [d.w EXCEPT ![x] = FALSE],
           ref |-> d.ref, free |-> d.free, ok |-> d.ok, bad |-> d.bad]
    BY <2>2, <2>3 DEF Mem
  <2> QED
    BY SMTT(60), <2>2, <2>4, <2>5 DEF Mem
<1> QED
  BY <1>1, <1>2, <1>3

(***************************************************************************)
(* n is m without what was mapped at va in e.                              *)
(***************************************************************************)
Removed(m, n, e, va) ==
  /\ n.at[<<e, va>>] = NULL
  /\ \A y \in Places \ {<<e, va>>} : n.at[y] = m.at[y]
  /\ \A y \in (Envs \X VAs) \ {<<e, va>>} : n.w[y] = m.w[y]
  /\ n.ok = m.ok /\ n.bad = m.bad
  /\ n.free \subseteq m.free \cup {m.at[<<e, va>>]}
  /\ \A q \in Pages : q # m.at[<<e, va>>] => n.ref[q] = m.ref[q]

(* page_remove takes a mapping away, and frees the page with its last      *)
(* reference; the assertion that it is counted holds.                      *)
LEMMA RemoveOk ==
  ASSUME NEW m \in Mem, NEW H, MemOk(m, H), lost \in [Pages -> Nat],
         NEW e \in Envs, NEW va \in VAs
  PROVE  LET n == page_remove(m, e, va) IN
         n \in Mem /\ MemOk(n, H) /\ Removed(m, n, e, va)
<1> DEFINE x == <<e, va>>
           p == m.at[x]
           d == page_decref(m, p)
           n == page_remove(m, e, va)
<1>0. x \in Places /\ x \in Envs \X VAs /\ NULL \notin Pages
  BY ArePlaces, PmapAssumption DEF Pages
<1>1. CASE p = NULL
  <2>1. n = m
    BY <1>1 DEF page_remove
  <2>2. Removed(m, m, e, va)
    BY <1>1 DEF Removed
  <2> QED
    BY <2>1, <2>2
<1>2. CASE p # NULL
  <2>1. p \in Pages /\ m.ref[p] # 0 /\ m.ref[p] \in Nat
    <3>1. p \in Pages /\ m.ref[p] > 0
      BY <1>0, <1>2, RefCounted DEF MemOk
    <3> QED
      BY SMTT(60), <3>1 DEF Mem
  <2>2. n = [d EXCEPT !.at[x] = NULL, !.w[x] = FALSE]
    BY <1>2, <2>1 DEF page_remove
  <2>3. /\ d \in Mem /\ d.at = m.at /\ d.w = m.w /\ d.ok = m.ok /\ d.bad = m.bad
        /\ d.ref = [m.ref EXCEPT ![p] = m.ref[p] - 1]
        /\ d.free = IF m.ref[p] = 1 THEN m.free \cup {p} ELSE m.free
    <3>1. p \notin m.free
      BY <2>1 DEF MemOk, Listed
    <3> QED
      BY <2>1, <3>1, DecrefFields
  <2>4. n \in Mem
    BY RemoveType
  <2> HIDE DEF d, n, x, p
  <2>5. /\ n.at = [m.at EXCEPT ![x] = NULL] /\ n.w = [m.w EXCEPT ![x] = FALSE]
        /\ n.ref = [m.ref EXCEPT ![p] = m.ref[p] - 1]
        /\ n.free = IF m.ref[p] = 1 THEN m.free \cup {p} ELSE m.free
        /\ n.ok = m.ok /\ n.bad = m.bad
    BY <2>2, <2>3 DEF Mem
  <2>6. /\ m.at \in [Places -> Pages \cup {NULL}] /\ m.w \in [Envs \X VAs -> BOOLEAN]
        /\ m.ref \in [Pages -> 0 .. RefLimit - 1]
    BY DEF Mem
  <2>7. /\ n.at[x] = NULL /\ \A y \in Places \ {x} : n.at[y] = m.at[y]
        /\ \A y \in (Envs \X VAs) \ {x} : n.w[y] = m.w[y]
        /\ n.ref[p] = m.ref[p] - 1 /\ \A q \in Pages \ {p} : n.ref[q] = m.ref[q]
    BY <1>0, <2>1, <2>5, <2>6
  <2>8. Removed(m, n, e, va)
    BY <2>5, <2>7 DEF Removed, x, p
  <2>9. Counted(n)
    <3>1. ASSUME NEW q \in Pages, q # p
          PROVE  n.ref[q] = Cardinality(Refs(n, q)) + lost[q]
      <4>1. Refs(n, q) = Refs(m, q)
        BY SMTT(60), <1>0, <2>7, <3>1 DEF Refs, p
      <4> QED
        BY <2>7, <3>1, <4>1 DEF MemOk, Counted
    <3>2. n.ref[p] = Cardinality(Refs(n, p)) + lost[p]
      <4>1. Refs(n, p) = Refs(m, p) \ {x} /\ x \in Refs(m, p)
        BY SMTT(60), <1>0, <2>1, <2>7 DEF Refs, p
      <4>2. IsFiniteSet(Refs(m, p))
        BY RefsFinite
      <4>3. Cardinality(Refs(n, p)) = Cardinality(Refs(m, p)) - 1
        BY <4>1, <4>2, FS_RemoveElement
      <4>4. m.ref[p] = Cardinality(Refs(m, p)) + lost[p]
        BY <2>1 DEF MemOk, Counted
      <4>5. Cardinality(Refs(m, p)) \in Nat /\ lost[p] \in Nat
        BY <2>1, RefsFinite
      <4> QED
        BY SMTT(60), <2>7, <4>3, <4>4, <4>5
    <3> QED
      BY <3>1, <3>2 DEF Counted
  <2>10. Held(n, H)
    <3>1. p \notin H
      BY <2>1 DEF MemOk, Held
    <3>2. \A q \in H : n.ref[q] = m.ref[q]
      BY SMTT(60), <2>5, <2>6, <3>1
    <3> QED
      BY <3>2 DEF MemOk, Held
  <2>11. Listed(n, H)
    <3> SUFFICES ASSUME NEW q \in Pages
                 PROVE  q \in n.free <=> n.ref[q] = 0 /\ q \notin H
      BY DEF Listed
    <3>1. CASE q # p
      BY SMTT(60), <2>5, <2>7, <3>1 DEF MemOk, Listed
    <3>2. CASE q = p
      <4>1. q \notin H /\ q \notin m.free
        BY <2>1, <3>2 DEF MemOk, Held, Listed
      <4>2. n.ref[q] = 0 <=> m.ref[p] = 1
        BY SMTT(60), <2>1, <2>7, <3>2
      <4> QED
        BY <2>5, <3>2, <4>1, <4>2
    <3> QED
      BY <3>1, <3>2
  <2>12. Private(n)
    <3> SUFFICES ASSUME NEW y \in Places, NEW z \in Places, n.at[y] # NULL,
                        y[2] \notin VAs, n.at[z] = n.at[y]
                 PROVE  y = z
      BY DEF Private
    <3>1. y # x /\ z # x
      BY <2>7
    <3> QED
      BY <2>7, <3>1 DEF MemOk, Private
  <2>13. Rooted(n)
    <3> SUFFICES ASSUME NEW f \in Envs, NEW v \in VAs, n.at[<<f, v>>] # NULL
                 PROVE  n.at[<<f, Dir1(v)>>] # NULL
      BY DEF Rooted
    <3>1. /\ <<f, v>> \in Places /\ <<f, Dir1(v)>> \in Places
          /\ <<f, v>> # x /\ <<f, Dir1(v)>> # x
      <4>1. <<f, v>> \in Places /\ <<f, Dir1(v)>> \in Places
        BY ArePlaces
      <4>2. <<f, v>> # x
        BY <2>7
      <4>3. <<f, Dir1(v)>> # x
        BY DirsAreNotPages DEF x
      <4> QED
        BY <4>1, <4>2, <4>3
    <3> QED
      BY <2>7, <3>1 DEF MemOk, Rooted
  <2>14. Kept(n)
    BY <2>7 DEF MemOk, Kept
  <2> QED
    BY <2>4, <2>8, <2>9, <2>10, <2>11, <2>12, <2>13, <2>14 DEF MemOk, n
<1> QED
  BY <1>1, <1>2

(***************************************************************************)
(* What page_insert leaves of m in r: other address spaces as they were,   *)
(* and every table.                                                        *)
(***************************************************************************)
Within(m, r, e) ==
  /\ \A y \in Places : y[1] # e => r.at[y] = m.at[y]
  /\ \A y \in Envs \X VAs : y[1] # e => r.w[y] = m.w[y]
  /\ \A y \in Places : y[2] \notin VAs /\ m.at[y] # NULL => r.at[y] = m.at[y]

(* page_insert keeps memory consistent, whether it succeeds, runs out of   *)
(* pages for tables, replaces another page or re-inserts the one there,    *)
(* unless the count of the page overflows.                                 *)
LEMMA InsertOk ==
  ASSUME NEW m \in Mem, NEW H, MemOk(m, H), lost \in [Pages -> Nat],
         NEW e \in Envs, NEW va \in VAs, NEW p \in Pages, NEW w \in BOOLEAN,
         p \notin m.free, H \subseteq {p},
         \A y \in Places : m.at[y] = p => y[2] \in VAs,
         NEW r, r = page_insert(m, e, va, p, w),
         \/ m.ref[p] + 1 < RefLimit
         \/ r.ok => Cardinality(Refs(r, p)) + lost[p] < RefLimit
  PROVE  /\ r \in Mem /\ r.bad = m.bad /\ Within(m, r, e)
         /\ r.ok => MemOk(r, {})
         /\ ~r.ok => MemOk(r, H)
         /\ Refs(r, p) \subseteq Refs(m, p) \cup {<<e, va>>}
         /\ p \notin r.free
<1> DEFINE x == <<e, va>>
           t == pgdir_walk(m, e, va)
           u == page_remove(t, e, va)
           n == IF t.at[x] = p THEN t ELSE Attach(u, x, p)
<1>0. /\ x \in Places /\ x \in Envs \X VAs /\ x[1] = e /\ x[2] = va /\ va \in VAs
      /\ NULL \notin Pages
  BY ArePlaces, PmapAssumption DEF Pages
<1>1. t \in Mem /\ MemOk(t, H) /\ Walked(m, t, e) /\ (t.ok => t.at[<<e, Dir1(va)>>] # NULL)
  BY WalkOk
<1>2. r = IF t.ok THEN [n EXCEPT !.w[x] = w, !.free = @ \ {p}] ELSE t
  BY DEF page_insert
<1>3. u \in Mem /\ MemOk(u, H) /\ Removed(t, u, e, va)
  BY <1>1, RemoveOk
<1> HIDE DEF t, u, x
<1>4. p \notin t.free
  BY <1>1 DEF Walked
<1>5. ASSUME NEW y \in Places, t.at[y] = p PROVE m.at[y] = p
  BY <1>1, <1>5 DEF Walked
<1>6. Within(m, t, e)
  <2>1. \A y \in Places : y[1] # e => t.at[y] = m.at[y]
    BY <1>1 DEF Walked
  <2>2. \A y \in Places : y[2] \notin VAs /\ m.at[y] # NULL => t.at[y] = m.at[y]
    BY <1>1 DEF Walked
  <2>3. t.w = m.w
    BY <1>1 DEF Walked
  <2> QED
    BY <2>1, <2>2, <2>3 DEF Within
<1>7. Refs(t, p) \subseteq Refs(m, p)
  BY <1>5 DEF Refs
<1>8. t.bad = m.bad /\ t.ok \in BOOLEAN
  BY <1>1 DEF Walked, Mem
<1>9. CASE ~t.ok
  <2>1. r = t
    BY <1>2, <1>9
  <2> QED
    BY <1>1, <1>4, <1>6, <1>7, <1>8, <1>9, <2>1
<1>10. ASSUME t.ok, n \in Mem, n.ok = t.ok, n.bad = t.bad, p \notin n.free,
              MemOk(n, {}), Within(m, n, e), Refs(n, p) \subseteq Refs(m, p) \cup {x}
       PROVE  /\ r \in Mem /\ r.bad = m.bad /\ Within(m, r, e)
              /\ r.ok /\ MemOk(r, {})
              /\ Refs(r, p) \subseteq Refs(m, p) \cup {x} /\ p \notin r.free
  <2> HIDE DEF n
  <2>1. r = [n EXCEPT !.w[x] = w, !.free = @ \ {p}]
    BY <1>2, <1>10
  <2>2. [n.w EXCEPT ![x] = w] \in [Envs \X VAs -> BOOLEAN] /\ n.free \ {p} = n.free
    BY SMTT(60), <1>0, <1>10 DEF Mem
  <2>3. r = [at |-> n.at, w |-> [n.w EXCEPT ![x] = w], ref |-> n.ref,
             free |-> n.free, ok |-> n.ok, bad |-> n.bad]
    BY <1>10, <2>1, <2>2 DEF Mem
  <2>4. r \in Mem
    BY SMTT(60), <1>10, <2>2, <2>3 DEF Mem
  <2>5. /\ r.at = n.at /\ r.ref = n.ref /\ r.free = n.free /\ r.ok = n.ok
        /\ r.bad = n.bad /\ r.w = [n.w EXCEPT ![x] = w]
    BY SMTT(60), <2>3
  <2>6. MemOk(r, {}) /\ Refs(r, p) = Refs(n, p)
    BY SMTT(60), <1>10, <2>5 DEF MemOk, Counted, Listed, Held, Private, Rooted, Kept,
       Refs
  <2>7. \A y \in Envs \X VAs : y[1] # e => r.w[y] = n.w[y]
    BY <1>0, <1>10, <2>5 DEF Mem
  <2>8. Within(m, r, e)
    BY SMTT(60), <1>10, <2>5, <2>7 DEF Within
  <2> QED
    BY <1>8, <1>10, <2>4, <2>5, <2>6, <2>8
<1>11. CASE t.ok /\ t.at[x] = p
  <2>1. n = t
    BY <1>11
  <2>2. t.ref[p] # 0
    <3>1. t.ref[p] > 0 /\ t.ref[p] \in Nat
      <4>1. t.at[x] # NULL
        BY <1>0, <1>11
      <4>2. t.ref[t.at[x]] > 0
        BY <1>0, <1>1, <4>1, RefCounted DEF MemOk
      <4> QED
        BY SMTT(60), <1>1, <1>11, <4>2 DEF Mem
    <3> QED
      BY SMTT(60), <3>1
  <2>3. H = {}
    BY <1>1, <2>2 DEF MemOk, Held
  <2>4. MemOk(n, {})
    BY <1>1, <2>1, <2>3
  <2>5. Refs(n, p) \subseteq Refs(m, p) \cup {x}
    BY <1>7, <2>1
  <2> QED
    BY <1>1, <1>4, <1>6, <1>10, <1>11, <2>1, <2>4, <2>5 DEF x
<1>12. CASE t.ok /\ t.at[x] # p
  <2>1. n = Attach(u, x, p)
    BY <1>12
  <2>2. /\ u.at[x] = NULL /\ \A y \in Places \ {x} : u.at[y] = t.at[y]
        /\ u.ok = t.ok /\ u.bad = t.bad /\ u.free \subseteq t.free \cup {t.at[x]}
        /\ \A y \in (Envs \X VAs) \ {x} : u.w[y] = t.w[y]
    BY <1>3 DEF Removed, x
  <2>3. p \notin u.free
    BY <1>4, <1>12, <2>2
  <2>4. \A y \in Places : u.at[y] = p => y[2] \in VAs
    BY SMTT(60), <1>0, <1>5, <2>2
  <2>5. /\ n \in Mem /\ n.at = [u.at EXCEPT ![x] = p] /\ n.w = u.w
        /\ n.free = u.free /\ n.ok = u.ok /\ n.bad = u.bad
    <3> HIDE DEF n
    <3>1. u \in Mem /\ x \in Places /\ p \in Pages
      BY <1>0, <1>3
    <3>2. /\ Attach(u, x, p) \in Mem
          /\ Attach(u, x, p).at = [u.at EXCEPT ![x] = p]
          /\ Attach(u, x, p).ref = [u.ref EXCEPT ![p] = (u.ref[p] + 1) % RefLimit]
          /\ Attach(u, x, p).w = u.w /\ Attach(u, x, p).free = u.free
          /\ Attach(u, x, p).ok = u.ok /\ Attach(u, x, p).bad = u.bad
      BY <3>1, AttachFields
    <3> QED
      BY <2>1, <3>2
  <2> HIDE DEF n
  <2>6. n.at[x] = p /\ \A y \in Places \ {x} : n.at[y] = u.at[y]
    BY <1>0, <1>3, <2>5 DEF Mem
  <2>7. u.ref[p] + 1 < RefLimit
    <3>1. CASE m.ref[p] + 1 < RefLimit
      BY SMTT(60), <1>1, <1>3, <1>12, <3>1 DEF Removed, Walked, x
    <3>2. CASE r.ok => Cardinality(Refs(r, p)) + lost[p] < RefLimit
      <4>1. r.ok /\ r.at = n.at
        <5>1. r = [n EXCEPT !.w[x] = w, !.free = @ \ {p}]
          BY <1>2, <1>12 DEF n
        <5> QED
          BY <1>12, <2>2, <2>5, <5>1 DEF Mem
      <4>2. Refs(r, p) = Refs(u, p) \cup {x} /\ x \notin Refs(u, p)
        BY SMTT(60), <1>0, <2>2, <2>6, <4>1 DEF Refs
      <4>3. IsFiniteSet(Refs(u, p)) /\ Cardinality(Refs(u, p)) \in Nat
        BY RefsFinite
      <4>4. Cardinality(Refs(r, p)) = Cardinality(Refs(u, p)) + 1
        BY <4>2, <4>3, FS_AddElement
      <4>5. u.ref[p] = Cardinality(Refs(u, p)) + lost[p] /\ lost[p] \in Nat
        BY <1>3 DEF MemOk, Counted
      <4>6. Cardinality(Refs(r, p)) + lost[p] < RefLimit /\ RefLimit \in Nat
        BY <3>2, <4>1, PmapAssumption
      <4> QED
        BY SMTT(60), <4>3, <4>4, <4>5, <4>6
    <3> QED
      BY <3>1, <3>2
  <2>8. MemOk(n, {})
    <3>1. u.at[<<x[1], Dir1(x[2])>>] # NULL
      <4>1. <<e, Dir1(va)>> \in Places /\ <<e, Dir1(va)>> # x
        BY ArePlaces, DirsAreNotPages DEF x
      <4> QED
        BY <1>0, <1>1, <1>12, <2>2, <4>1
    <3>2. MemOk(Attach(u, x, p), H \ {p})
      BY <1>0, <1>3, <2>2, <2>3, <2>4, <2>7, <3>1, AttachOk
    <3>3. H \ {p} = {}
      OBVIOUS
    <3> QED
      BY <2>1, <3>2, <3>3
  <2>9. Refs(n, p) \subseteq Refs(m, p) \cup {x}
    BY <1>5, <2>2, <2>6 DEF Refs
  <2>10. Within(m, n, e)
    <3>1. \A y \in Places : y[1] # e => n.at[y] = m.at[y]
      BY <1>0, <1>6, <2>2, <2>6 DEF Within
    <3>2. \A y \in Envs \X VAs : y[1] # e => n.w[y] = m.w[y]
      BY <1>0, <1>6, <2>2, <2>5 DEF Within
    <3>3. \A y \in Places : y[2] \notin VAs /\ m.at[y] # NULL => n.at[y] = m.at[y]
      BY <1>0, <1>6, <2>2, <2>6 DEF Within
    <3> QED
      BY <3>1, <3>2, <3>3 DEF Within
  <2>11. n \in Mem /\ n.ok = t.ok /\ n.bad = t.bad /\ p \notin n.free
    BY <2>2, <2>3, <2>5
  <2> QED
    BY <1>10, <1>12, <2>8, <2>9, <2>10, <2>11 DEF x, n
<1> QED
  BY <1>8, <1>9, <1>11, <1>12

-----------------------------------------------------------------------------
(* The inductive invariant. *)

(***************************************************************************)
(* No page is referred to so often that its count wraps around.            *)
(***************************************************************************)
NoOverflow ==
  \A p \in Pages : Cardinality(References(p)) + lost[p] < RefLimit

CpuOk ==
  /\ \A c, d \in CPUs : curenv[c] # NULL /\ curenv[c] = curenv[d] => c = d
  /\ \A c \in CPUs : curenv[c] # NULL =>
       Live(curenv[c]) /\ ~env_ipc_recving[curenv[c]]

IInv ==
  /\ TypeOK
  /\ ~crashed => MemOk(Memory, {}) /\ CpuOk /\ (~MayEditRunning => TlbCoherent)

OtherTypes ==
  /\ lost \in [Pages -> Nat]
  /\ env_ipc_recving \in [Envs -> BOOLEAN]
  /\ env_ipc_dstva \in [Envs -> VAs]
  /\ curenv \in [CPUs -> Envs \cup {NULL}]
  /\ tlb \in [CPUs -> SUBSET (VAs \X Pages \X BOOLEAN)]

(* The record of all memory, as the variables give it.                     *)
LEMMA MemoryIs ==
  ASSUME TypeOK
  PROVE  /\ Memory \in Mem /\ Memory.at = at /\ Memory.w = writable
         /\ Memory.ref = pp_ref /\ Memory.free = page_free_list
         /\ Memory.ok = TRUE /\ Memory.bad = FALSE
BY DEF TypeOK, Memory, Mem

(* Storing a record gives the variables their types.                       *)
LEMMA StoreTypes ==
  ASSUME NEW m \in Mem, Store(m), OtherTypes'
  PROVE  TypeOK'
BY DEF Mem, Store, OtherTypes, TypeOK

(* Storing a consistent record leaves consistent memory.                   *)
LEMMA StoreOk ==
  ASSUME NEW m \in Mem, Store(m), MemOk(m, {}), UNCHANGED lost
  PROVE  MemOk(Memory, {})'
<1>1. /\ Memory.at' = m.at /\ Memory.ref' = m.ref /\ Memory.free' = m.free
  BY DEF Store, Memory
<1>2. \A p : Refs(Memory, p)' = Refs(m, p)
  BY <1>1 DEF Refs
<1>3. Counted(Memory)'
  BY <1>1, <1>2 DEF MemOk, Counted
<1>4. Listed(Memory, {})' /\ Held(Memory, {})'
  BY <1>1 DEF MemOk, Listed, Held
<1>5. Private(Memory)' /\ Rooted(Memory)' /\ Kept(Memory)'
  BY <1>1 DEF MemOk, Private, Rooted, Kept
<1> QED
  BY <1>3, <1>4, <1>5 DEF MemOk

(* A stored record without overflow has room for every reference.          *)
LEMMA StoreRoom ==
  ASSUME NEW m, Store(m), UNCHANGED lost, NoOverflow', NEW p \in Pages
  PROVE  Cardinality(Refs(m, p)) + lost[p] < RefLimit
<1>1. References(p)' = Refs(m, p)
  BY DEF Store, References, Refs
<1> QED
  BY <1>1 DEF NoOverflow

(* Going back to the caller or away from it keeps what is known of the     *)
(* CPUs when no environment loses its page directory and nobody who runs   *)
(* is marked as receiving.                                                 *)
LEMMA CpusKeep ==
  ASSUME TypeOK, CpuOk, NEW c \in CPUs, Resume(c) \/ Leave(c),
         \A d \in CPUs : curenv'[d] # NULL =>
           at'[<<curenv[d], Dir0>>] # NULL /\ ~env_ipc_recving'[curenv[d]]
  PROVE  CpuOk' /\ curenv' \in [CPUs -> Envs \cup {NULL}]
         /\ tlb' \in [CPUs -> SUBSET (VAs \X Pages \X BOOLEAN)]
<1>1. \A d \in CPUs : curenv'[d] # NULL => curenv'[d] = curenv[d]
  BY DEF Resume, Leave, TypeOK
<1>2. \A d \in CPUs : curenv'[d] # NULL =>
        at'[<<curenv'[d], Dir0>>] # NULL /\ ~env_ipc_recving'[curenv'[d]]
  BY <1>1
<1>3. \A d, f \in CPUs : curenv'[d] # NULL /\ curenv'[d] = curenv'[f] => d = f
  BY <1>1 DEF CpuOk
<1>4. CpuOk'
  BY <1>2, <1>3 DEF CpuOk, Live
<1> QED
  BY <1>4 DEF Resume, Leave, TypeOK

(* The TLBs stay coherent when the tables that change are those of an      *)
(* environment no other CPU runs: the one CPU that may be running it       *)
(* flushes its TLB on the way back.                                        *)
LEMMA TlbKeeps ==
  ASSUME TypeOK, ~crashed, TlbCoherent, NEW c \in CPUs, Resume(c) \/ Leave(c),
         NEW e, \A d \in CPUs \ {c} : curenv[d] # e,
         \A y \in Places : y[1] # e => at'[y] = at[y],
         \A y \in Envs \X VAs : y[1] # e => writable'[y] = writable[y]
  PROVE  TlbCoherent'
<1> SUFFICES ASSUME NEW d \in CPUs, curenv'[d] # NULL, NEW t \in tlb'[d]
             PROVE  /\ at'[<<curenv'[d], t[1]>>] = t[2]
                    /\ writable'[<<curenv'[d], t[1]>>] = t[3]
  BY DEF TlbCoherent
<1>1. d # c /\ tlb'[d] = tlb[d] /\ curenv'[d] = curenv[d]
  BY DEF Resume, Leave, TypeOK
<1>2. curenv[d] \in Envs /\ t \in VAs \X Pages \X BOOLEAN /\ curenv[d] # e
  BY <1>1 DEF TypeOK
<1>3. <<curenv[d], t[1]>> \in Places /\ <<curenv[d], t[1]>> \in Envs \X VAs
  BY <1>2, ArePlaces
<1>4. at[<<curenv[d], t[1]>>] = t[2] /\ writable[<<curenv[d], t[1]>>] = t[3]
  BY <1>1 DEF TlbCoherent
<1> QED
  BY <1>1, <1>2, <1>3, <1>4

(***************************************************************************)
(* The common end of the calls that change the tables of one environment.  *)
(***************************************************************************)
(* A call that stores a consistent record, r, which differs from memory in *)
(* the tables of e only, keeps the invariant, provided e runs on no other  *)
(* CPU.                                                                    *)
LEMMA CallKeeps ==
  ASSUME IInv, ~crashed, NEW r \in Mem, MemOk(r, {}), Store(r),
         NEW e, Within(Memory, r, e),
         NEW c \in CPUs, Resume(c), UNCHANGED <<lost, env_ipc_dstva>>,
         env_ipc_recving' \in [Envs -> BOOLEAN],
         \A f \in Envs : env_ipc_recving'[f] => env_ipc_recving[f],
         ~MayEditRunning => \A d \in CPUs \ {c} : curenv[d] # e
  PROVE  IInv'
<1>0. TypeOK /\ CpuOk /\ OtherTypes
  BY DEF IInv, TypeOK, OtherTypes
<1>1. Memory.at = at /\ Memory.w = writable
  BY <1>0, MemoryIs
<1>2. at' = r.at /\ writable' = r.w
  BY DEF Store
<1>3. MemOk(Memory, {})'
  BY StoreOk
<1>4. ASSUME NEW f \in Envs, Live(f) PROVE Live(f)'
  <2>1. <<f, Dir0>> \in Places /\ Dir0 \notin VAs
    BY ArePlaces, DirsAreNotPages, PmapAssumption
  <2>2. r.at[<<f, Dir0>>] = at[<<f, Dir0>>]
    BY <1>1, <1>4, <2>1 DEF Within, Live
  <2> QED
    BY <1>2, <1>4, <2>2 DEF Live
<1>5. \A d \in CPUs : curenv'[d] # NULL =>
        at'[<<curenv[d], Dir0>>] # NULL /\ ~env_ipc_recving'[curenv[d]]
  <2> SUFFICES ASSUME NEW d \in CPUs, curenv[d] # NULL
               PROVE  at'[<<curenv[d], Dir0>>] # NULL
                      /\ ~env_ipc_recving'[curenv[d]]
    BY DEF Resume
  <2>1. curenv[d] \in Envs /\ Live(curenv[d]) /\ ~env_ipc_recving[curenv[d]]
    BY <1>0 DEF CpuOk, TypeOK
  <2> QED
    BY <1>4, <2>1 DEF Live
<1>6. CpuOk' /\ curenv' \in [CPUs -> Envs \cup {NULL}]
      /\ tlb' \in [CPUs -> SUBSET (VAs \X Pages \X BOOLEAN)]
  BY <1>0, <1>5, CpusKeep
<1>7. OtherTypes'
  BY <1>0, <1>6 DEF OtherTypes
<1>8. ~MayEditRunning => TlbCoherent'
  BY SMTT(60), <1>0, <1>1, <1>2, TlbKeeps DEF Within, IInv
<1> QED
  BY <1>3, <1>6, <1>7, <1>8, StoreTypes DEF IInv

(* When the kernel crashes only the types are claimed.                     *)
LEMMA CrashKeeps ==
  ASSUME IInv, NEW r \in Mem, r.bad = TRUE, Store(r),
         NEW c \in CPUs, Resume(c), UNCHANGED <<lost, env_ipc_dstva>>,
         env_ipc_recving' \in [Envs -> BOOLEAN]
  PROVE  IInv'
<1>1. OtherTypes'
  BY DEF IInv, TypeOK, OtherTypes, Resume
<1>2. TypeOK'
  BY <1>1, StoreTypes
<1>3. crashed' = TRUE
  BY DEF Store
<1> QED
  BY <1>2, <1>3 DEF IInv

-----------------------------------------------------------------------------
(* The system calls. *)

InsertFresh(m, e, va, w) == page_insert(page_alloc(m), e, va, FirstFree(m), w)

(* A page fresh from page_alloc is mapped, or nothing is left of it.       *)
LEMMA FreshInsert ==
  ASSUME NEW m \in Mem, MemOk(m, {}), lost \in [Pages -> Nat], m.free # {},
         NEW e \in Envs, NEW va \in VAs, NEW w \in BOOLEAN
  PROVE  /\ InsertFresh(m, e, va, w) \in Mem
         /\ InsertFresh(m, e, va, w).bad = m.bad
         /\ Within(m, InsertFresh(m, e, va, w), e)
         /\ InsertFresh(m, e, va, w).ok => MemOk(InsertFresh(m, e, va, w), {})
         /\ ~InsertFresh(m, e, va, w).ok =>
              MemOk(InsertFresh(m, e, va, w), {FirstFree(m)})
         /\ FirstFree(m) \in Pages
<1> DEFINE a == page_alloc(m)
           p == FirstFree(m)
           r == InsertFresh(m, e, va, w)
<1>1. /\ p \in m.free /\ p \in Pages /\ a \in Mem /\ a.at = m.at /\ a.w = m.w
      /\ a.ref = m.ref /\ a.free = m.free \ {p} /\ a.ok = m.ok /\ a.bad = m.bad
  BY PageAlloc
<1>2. MemOk(a, {p})
  <2>1. MemOk(a, {} \cup {p})
    BY PageAllocOk
  <2>2. {} \cup {p} = {p}
    OBVIOUS
  <2> QED
    BY <2>1, <2>2
<1> HIDE DEF a, p
<1>3. a.ref[p] = 0 /\ a.ref[p] + 1 < RefLimit
  BY SMTT(60), <1>2, PmapAssumption DEF MemOk, Held
<1>4. \A y \in Places : a.at[y] # p
  BY SMTT(60), <1>1, <1>2, <1>3, NoRefs DEF MemOk, Refs
<1>5. p \notin a.free /\ {p} \subseteq {p}
  BY <1>1
<1>6. r = page_insert(a, e, va, p, w)
  BY DEF a, p, InsertFresh
<1> HIDE DEF r
<1>7. /\ r \in Mem /\ r.bad = a.bad /\ Within(a, r, e)
      /\ (r.ok => MemOk(r, {})) /\ (~r.ok => MemOk(r, {p}))
  BY SMTT(60), <1>1, <1>2, <1>3, <1>4, <1>5, <1>6, InsertOk
<1>8. Within(m, r, e)
  BY <1>1, <1>7 DEF Within
<1> QED
  BY <1>1, <1>7, <1>8 DEF p, r

(* page_free gives the page back.                                          *)
LEMMA GiveBack ==
  ASSUME NEW m \in Mem, NEW r \in Mem, NEW e, Within(m, r, e),
         NEW p \in Pages, MemOk(r, {p})
  PROVE  LET n == page_free(r, p) IN
         n \in Mem /\ n.bad = r.bad /\ Within(m, n, e) /\ MemOk(n, {})
<1> DEFINE n == page_free(r, p)
<1>1. /\ n \in Mem /\ n.at = r.at /\ n.w = r.w /\ n.ref = r.ref /\ n.ok = r.ok
      /\ n.bad = r.bad /\ n.free = r.free \cup {p}
  <2>1. r.ref[p] = 0 /\ p \notin r.free
    BY DEF MemOk, Held, Listed
  <2> QED
    BY <2>1, FreeFields
<1> HIDE DEF n
<1>2. Within(m, n, e)
  BY <1>1 DEF Within
<1>3. Counted(n) /\ Private(n) /\ Held(n, {}) /\ Rooted(n) /\ Kept(n)
  BY SMTT(60), <1>1 DEF MemOk, Counted, Private, Refs, Held, Rooted, Kept
<1>4. Listed(n, {})
  BY <1>1 DEF MemOk, Listed, Held
<1> QED
  BY <1>1, <1>2, <1>3, <1>4 DEF MemOk, n

(* sys_page_alloc.                                                         *)
LEMMA PageAllocStep ==
  ASSUME IInv, NEW c \in CPUs, NEW e \in Envs, NEW va \in VAs, NEW w \in BOOLEAN,
         sys_page_alloc(c, e, va, w)
  PROVE  IInv'
<1> DEFINE p == FirstFree(Memory)
           r == InsertFresh(Memory, e, va, w)
           removed == IF at[<<e, Dir3(va)>>] = NULL THEN Memory
                      ELSE page_remove(Memory, e, va)
           s == IF page_free_list = {} THEN [removed EXCEPT !.bad = TRUE]
                ELSE IF r.ok THEN r ELSE page_free(r, p)
<1>1. /\ ~crashed /\ Target(c, e) /\ Store(s) /\ Resume(c)
      /\ UNCHANGED <<lost, env_ipc_recving, env_ipc_dstva>>
  BY DEF sys_page_alloc, Calls, ipcVars, InsertFresh
<1>2. TypeOK /\ MemOk(Memory, {}) /\ lost \in [Pages -> Nat]
      /\ env_ipc_recving \in [Envs -> BOOLEAN]
  BY <1>1 DEF IInv, TypeOK
<1>3. /\ Memory \in Mem /\ Memory.free = page_free_list /\ Memory.bad = FALSE
  BY <1>2, MemoryIs
<1>4. CASE page_free_list = {}
  <2>1. removed \in Mem
    BY <1>3, RemoveType
  <2>2. s = [removed EXCEPT !.bad = TRUE]
    BY <1>4
  <2> HIDE DEF removed, s
  <2>3. s \in Mem /\ s.bad = TRUE
    BY <2>1, <2>2 DEF Mem
  <2> QED
    BY <1>1, <1>2, <2>3, CrashKeeps
<1>5. CASE page_free_list # {}
  <2>1. /\ r \in Mem /\ r.bad = FALSE /\ Within(Memory, r, e) /\ p \in Pages
        /\ (r.ok => MemOk(r, {})) /\ (~r.ok => MemOk(r, {p}))
    <3>1. Memory.free # {}
      BY <1>3, <1>5
    <3> QED
      BY <1>2, <1>3, <3>1, FreshInsert
  <2> HIDE DEF r, p
  <2>2. s = IF r.ok THEN r ELSE page_free(r, p)
    BY <1>5
  <2> HIDE DEF s
  <2>3. s \in Mem /\ MemOk(s, {}) /\ Within(Memory, s, e)
    <3>1. CASE r.ok
      BY <2>1, <2>2, <3>1
    <3>2. CASE ~r.ok
      BY <1>3, <2>1, <2>2, <3>2, GiveBack
    <3> QED
      BY <3>1, <3>2
  <2>4. ~MayEditRunning => \A d \in CPUs \ {c} : curenv[d] # e
    BY <1>1 DEF Target
  <2> QED
    BY <1>1, <1>2, <2>3, <2>4, CallKeeps
<1> QED
  BY <1>4, <1>5

(* Mapping a page that some PTE refers to, as sys_page_map and the page    *)
(* half of sys_ipc_try_send do.                                            *)
LEMMA ShareOk ==
  ASSUME TypeOK, ~crashed, MemOk(Memory, {}),
         NEW src \in Envs, NEW srcva \in VAs, at[<<src, srcva>>] # NULL,
         NEW e \in Envs, NEW va \in VAs, NEW w \in BOOLEAN,
         NEW r, r = page_insert(Memory, e, va, at[<<src, srcva>>], w),
         Store(r), UNCHANGED lost, NoOverflow'
  PROVE  r \in Mem /\ MemOk(r, {}) /\ Within(Memory, r, e)
<1> DEFINE p == at[<<src, srcva>>]
<1>1. /\ Memory \in Mem /\ Memory.at = at /\ Memory.ref = pp_ref
      /\ Memory.free = page_free_list /\ lost \in [Pages -> Nat]
  BY MemoryIs DEF TypeOK
<1>2. <<src, srcva>> \in Places /\ <<src, srcva>>[2] = srcva
  BY ArePlaces
<1>3. p \in Pages /\ Memory.ref[p] > 0
  BY <1>1, <1>2, RefCounted DEF MemOk
<1>4. p \notin Memory.free
  <2>1. Memory.ref[p] # 0
    BY SMTT(60), <1>1, <1>3 DEF Mem
  <2> QED
    BY <1>3, <2>1 DEF MemOk, Listed
<1>5. ASSUME NEW y \in Places, Memory.at[y] = p PROVE y[2] \in VAs
  <2>1. Memory.at[<<src, srcva>>] = Memory.at[y] /\ Memory.at[y] # NULL
    BY <1>1, <1>5
  <2> QED
    BY <1>2, <2>1 DEF MemOk, Private
<1>6. Cardinality(Refs(r, p)) + lost[p] < RefLimit
  BY <1>3, StoreRoom
<1>7. r = page_insert(Memory, e, va, p, w)
  OBVIOUS
<1> HIDE DEF p
<1> QED
  BY SMTT(60), <1>1, <1>3, <1>4, <1>5, <1>6, <1>7, InsertOk

(* sys_page_map.                                                           *)
LEMMA PageMapStep ==
  ASSUME IInv, NoOverflow', NEW c \in CPUs, NEW src \in Envs, NEW srcva \in VAs,
         NEW dst \in Envs, NEW dstva \in VAs, NEW w \in BOOLEAN,
         sys_page_map(c, src, srcva, dst, dstva, w)
  PROVE  IInv'
<1>1. /\ ~crashed /\ Target(c, dst) /\ Resume(c)
      /\ UNCHANGED <<lost, env_ipc_recving, env_ipc_dstva>>
  BY DEF sys_page_map, Calls, ipcVars
<1>2. TypeOK /\ MemOk(Memory, {}) /\ env_ipc_recving \in [Envs -> BOOLEAN]
  BY <1>1 DEF IInv, TypeOK
<1>3. PICK r : /\ Store(r)
               /\ r = IF MayMap(src, srcva, w)
                      THEN page_insert(Memory, dst, dstva, at[<<src, srcva>>], w)
                      ELSE Memory
  BY DEF sys_page_map
<1>4. r \in Mem /\ MemOk(r, {}) /\ Within(Memory, r, dst)
  <2>1. CASE MayMap(src, srcva, w)
    BY <1>1, <1>2, <1>3, <2>1, ShareOk DEF MayMap
  <2>2. CASE ~MayMap(src, srcva, w)
    BY <1>2, <1>3, <2>2, MemoryIs DEF Within
  <2> QED
    BY <2>1, <2>2
<1>5. ~MayEditRunning => \A d \in CPUs \ {c} : curenv[d] # dst
  BY <1>1 DEF Target
<1> QED
  BY <1>1, <1>2, <1>3, <1>4, <1>5, CallKeeps

(* sys_page_unmap.                                                         *)
LEMMA PageUnmapStep ==
  ASSUME IInv, NEW c \in CPUs, NEW e \in Envs, NEW va \in VAs,
         sys_page_unmap(c, e, va)
  PROVE  IInv'
<1> DEFINE r == page_remove(Memory, e, va)
<1>1. /\ ~crashed /\ Target(c, e) /\ Resume(c) /\ Store(r)
      /\ UNCHANGED <<lost, env_ipc_recving, env_ipc_dstva>>
  BY DEF sys_page_unmap, Calls, ipcVars
<1>2. TypeOK /\ MemOk(Memory, {}) /\ env_ipc_recving \in [Envs -> BOOLEAN]
      /\ lost \in [Pages -> Nat] /\ Memory \in Mem
  BY <1>1, MemoryIs DEF IInv, TypeOK
<1>3. r \in Mem /\ MemOk(r, {}) /\ Removed(Memory, r, e, va)
  BY <1>2, RemoveOk
<1> HIDE DEF r
<1>4. Within(Memory, r, e)
  BY SMTT(60), <1>3 DEF Within, Removed
<1>5. ~MayEditRunning => \A d \in CPUs \ {c} : curenv[d] # e
  BY <1>1 DEF Target
<1> QED
  BY <1>1, <1>2, <1>3, <1>4, <1>5, CallKeeps

(* sys_ipc_recv: the caller leaves its CPU.                                *)
LEMMA IpcRecvStep ==
  ASSUME IInv, NEW c \in CPUs, NEW dstva \in VAs \cup {NULL}, sys_ipc_recv(c, dstva)
  PROVE  IInv'
<1>1. /\ ~crashed /\ curenv[c] # NULL /\ Leave(c)
      /\ env_ipc_recving' = [env_ipc_recving EXCEPT ![curenv[c]] = TRUE]
      /\ env_ipc_dstva' = [env_ipc_dstva EXCEPT ![curenv[c]] =
                             IF dstva = NULL THEN @ ELSE dstva]
      /\ UNCHANGED <<at, writable, pp_ref, page_free_list, crashed, lost>>
  BY DEF sys_ipc_recv, Calls, memVars
<1>2. TypeOK /\ MemOk(Memory, {}) /\ CpuOk /\ curenv[c] \in Envs
  BY <1>1 DEF IInv, TypeOK
<1>3. ASSUME NEW d \in CPUs, curenv'[d] # NULL
      PROVE  at'[<<curenv[d], Dir0>>] # NULL /\ ~env_ipc_recving'[curenv[d]]
  <2>1. d # c /\ curenv[d] # NULL
    BY <1>1, <1>2, <1>3 DEF Leave, TypeOK
  <2>2. curenv[d] # curenv[c]
    BY <1>1, <1>2, <2>1 DEF CpuOk
  <2>3. Live(curenv[d]) /\ ~env_ipc_recving[curenv[d]] /\ curenv[d] \in Envs
    BY <1>2, <2>1 DEF CpuOk, TypeOK
  <2> QED
    BY <1>1, <1>2, <2>2, <2>3 DEF Live, TypeOK
<1>4. CpuOk' /\ curenv' \in [CPUs -> Envs \cup {NULL}]
      /\ tlb' \in [CPUs -> SUBSET (VAs \X Pages \X BOOLEAN)]
  BY <1>1, <1>2, <1>3, CpusKeep
<1>5. TypeOK'
  BY <1>1, <1>2, <1>4 DEF TypeOK
<1>6. MemOk(Memory, {})'
  BY <1>1, <1>2 DEF MemOk, Counted, Listed, Held, Private, Rooted, Kept, Refs, Memory
<1>7. ~MayEditRunning => TlbCoherent'
  <2>1. \A d \in CPUs \ {c} : curenv[d] # curenv[c]
    BY <1>1, <1>2 DEF CpuOk
  <2> QED
    BY <1>1, <1>2, <2>1, TlbKeeps DEF IInv
<1> QED
  BY <1>4, <1>5, <1>6, <1>7 DEF IInv

(* sys_ipc_try_send: the receiver does not run anywhere.                   *)
LEMMA IpcTrySendStep ==
  ASSUME IInv, NoOverflow', NEW c \in CPUs, NEW e \in Envs,
         NEW srcva \in VAs \cup {NULL}, NEW w \in BOOLEAN,
         sys_ipc_try_send(c, e, srcva, w)
  PROVE  IInv'
<1> DEFINE r == IF srcva = NULL THEN Memory
                ELSE IF ~MayMap(curenv[c], srcva, w) THEN [Memory EXCEPT !.ok = FALSE]
                ELSE page_insert(Memory, e, env_ipc_dstva[e],
                                 at[<<curenv[c], srcva>>], w)
<1>1. /\ ~crashed /\ curenv[c] # NULL /\ env_ipc_recving[e] /\ Store(r) /\ Resume(c)
      /\ env_ipc_recving' = [env_ipc_recving EXCEPT ![e] = ~r.ok]
      /\ UNCHANGED <<lost, env_ipc_dstva>>
  BY DEF sys_ipc_try_send, Calls
<1>2. /\ TypeOK /\ MemOk(Memory, {}) /\ CpuOk /\ Memory \in Mem
      /\ curenv[c] \in Envs /\ env_ipc_dstva[e] \in VAs
      /\ env_ipc_recving \in [Envs -> BOOLEAN]
  BY <1>1, MemoryIs DEF IInv, TypeOK
<1>3. r \in Mem /\ MemOk(r, {}) /\ Within(Memory, r, e)
  <2>1. CASE srcva = NULL
    BY <1>2, <2>1 DEF Within
  <2>2. CASE srcva # NULL /\ ~MayMap(curenv[c], srcva, w)
    <3>1. r = [Memory EXCEPT !.ok = FALSE]
      BY <2>2
    <3> HIDE DEF r
    <3>2. r \in Mem /\ r.at = Memory.at /\ r.w = Memory.w /\ r.ref = Memory.ref
          /\ r.free = Memory.free
      BY <1>2, <3>1 DEF Mem
    <3> QED
      BY <1>2, <3>2 DEF Within, MemOk, Counted, Listed, Held, Private, Rooted, Kept,
         Refs
  <2>3. CASE srcva # NULL /\ MayMap(curenv[c], srcva, w)
    <3>1. r = page_insert(Memory, e, env_ipc_dstva[e], at[<<curenv[c], srcva>>], w)
      BY <2>3
    <3> HIDE DEF r
    <3>2. srcva \in VAs /\ at[<<curenv[c], srcva>>] # NULL
      BY <2>3 DEF MayMap
    <3> QED
      BY <1>1, <1>2, <3>1, <3>2, ShareOk
  <2> QED
    BY <2>1, <2>2, <2>3
<1> HIDE DEF r
<1>4. \A d \in CPUs \ {c} : curenv[d] # e
  BY <1>1, <1>2, PmapAssumption DEF CpuOk
<1>5. r.ok \in BOOLEAN
  BY <1>3 DEF Mem
<1>6. /\ env_ipc_recving' \in [Envs -> BOOLEAN]
      /\ \A f \in Envs : env_ipc_recving'[f] => env_ipc_recving[f]
  BY <1>1, <1>2, <1>5
<1> QED
  BY <1>1, <1>3, <1>4, <1>6, CallKeeps

(* A walk changes tables of one environment only.                          *)
LEMMA WalkedWithin ==
  ASSUME NEW m, NEW n, NEW e, Walked(m, n, e)
  PROVE  Within(m, n, e)
BY DEF Walked, Within

(* env_setup_vm puts a fresh page into env_pgdir.                          *)
LEMMA SetupVm ==
  ASSUME TypeOK, MemOk(Memory, {}), page_free_list # {}, NEW e \in Envs, ~Live(e)
  PROVE  LET r == Attach(page_alloc(Memory), <<e, Dir0>>, FirstFree(Memory)) IN
         r \in Mem /\ MemOk(r, {}) /\ Within(Memory, r, e) /\ r.bad = FALSE
<1> DEFINE x == <<e, Dir0>>
           r == Attach(page_alloc(Memory), x, FirstFree(Memory))
<1>1. /\ x \in Places /\ x[2] \notin VAs /\ x[1] = e
  BY ArePlaces, DirsAreNotPages, PmapAssumption
<1>2. /\ Memory \in Mem /\ Memory.at = at /\ Memory.free = page_free_list
      /\ Memory.ok = TRUE /\ Memory.bad = FALSE /\ lost \in [Pages -> Nat]
  BY MemoryIs DEF TypeOK
<1>3. r = CreateLevel(Memory, x)
  BY <1>2 DEF CreateLevel, Live
<1> HIDE DEF r, x
<1>4. r \in Mem /\ MemOk(r, {}) /\ Walked(Memory, r, e)
  BY <1>1, <1>2, <1>3, CreateLevelOk
<1> QED
  BY <1>2, <1>4, WalkedWithin DEF Walked, r, x

(* sys_exofork.                                                            *)
LEMMA ExoforkStep ==
  ASSUME IInv, NEW c \in CPUs, NEW e \in Envs, sys_exofork(c, e)
  PROVE  IInv'
<1> DEFINE a == Attach(page_alloc(Memory), <<e, Dir0>>, FirstFree(Memory))
           r == IF page_free_list = {} THEN [Memory EXCEPT !.bad = TRUE] ELSE a
<1>1. /\ ~crashed /\ ~Live(e) /\ Store(r) /\ Resume(c)
      /\ env_ipc_recving' = [env_ipc_recving EXCEPT ![e] = FALSE]
      /\ UNCHANGED <<lost, env_ipc_dstva>>
  BY DEF sys_exofork, Calls
<1>2. /\ TypeOK /\ MemOk(Memory, {}) /\ CpuOk /\ Memory \in Mem
      /\ env_ipc_recving \in [Envs -> BOOLEAN]
  BY <1>1, MemoryIs DEF IInv, TypeOK
<1>3. /\ env_ipc_recving' \in [Envs -> BOOLEAN]
      /\ \A f \in Envs : env_ipc_recving'[f] => env_ipc_recving[f]
  BY <1>1, <1>2
<1>4. CASE page_free_list = {}
  <2>1. r = [Memory EXCEPT !.bad = TRUE]
    BY <1>4
  <2> HIDE DEF r
  <2>2. r \in Mem /\ r.bad = TRUE
    BY <1>2, <2>1 DEF Mem
  <2> QED
    BY <1>1, <1>3, <2>2, CrashKeeps
<1>5. CASE page_free_list # {}
  <2>1. a \in Mem /\ MemOk(a, {}) /\ Within(Memory, a, e)
    BY <1>1, <1>2, <1>5, SetupVm
  <2>2. Store(a)
    BY <1>1, <1>5
  <2> HIDE DEF a
  <2>3. \A d \in CPUs \ {c} : curenv[d] # e
    BY <1>1, <1>2, PmapAssumption DEF CpuOk
  <2> QED
    BY <1>1, <1>3, <2>1, <2>2, <2>3, CallKeeps
<1> QED
  BY <1>4, <1>5

(* There are n free pages, and no walk has failed.                         *)
Room(m, n) == m.ok /\ Cardinality(m.free) >= n

(* Free pages are finitely many.                                           *)
LEMMA FreeFinite ==
  ASSUME NEW m \in Mem
  PROVE  IsFiniteSet(m.free) /\ Cardinality(m.free) \in Nat
<1>1. IsFiniteSet(Pages)
  <2>1. 1 \in Int /\ NPAGE \in Int
    BY SMTT(60), PmapAssumption
  <2> QED
    BY <2>1, FS_Interval DEF Pages
<1>2. m.free \subseteq Pages
  BY DEF Mem
<1>3. IsFiniteSet(m.free)
  BY <1>1, <1>2, FS_Subset
<1> QED
  BY <1>3, FS_CardinalityType

(* page_alloc takes one page.                                              *)
LEMMA AllocRoom ==
  ASSUME NEW m \in Mem, NEW n \in Nat, Room(m, n + 1)
  PROVE  m.free # {} /\ page_alloc(m) \in Mem /\ Room(page_alloc(m), n)
<1>1. IsFiniteSet(m.free) /\ Cardinality(m.free) \in Nat
  BY FreeFinite
<1>2. m.free # {}
  <2>1. Cardinality(m.free) # 0
    BY SMTT(60), <1>1 DEF Room
  <2> QED
    BY <2>1, FS_EmptySet
<1>3. /\ FirstFree(m) \in m.free /\ page_alloc(m) \in Mem
      /\ page_alloc(m).free = m.free \ {FirstFree(m)} /\ page_alloc(m).ok = m.ok
  BY <1>2, PageAlloc
<1>4. Cardinality(page_alloc(m).free) = Cardinality(m.free) - 1
  BY <1>1, <1>3, FS_RemoveElement
<1>5. Cardinality(m.free) - 1 >= n
  BY SMTT(60), <1>1 DEF Room
<1> QED
  BY <1>2, <1>3, <1>4, <1>5 DEF Room

(* One level of a walk takes at most one page, and succeeds if there is    *)
(* one.                                                                    *)
LEMMA LevelRoom ==
  ASSUME NEW m \in Mem, NEW x \in Places, NEW n \in Nat, Room(m, n + 1)
  PROVE  CreateLevel(m, x) \in Mem /\ Room(CreateLevel(m, x), n)
<1>1. m.free # {} /\ page_alloc(m) \in Mem /\ Room(page_alloc(m), n)
  BY AllocRoom
<1>2. m.ok
  BY DEF Room
<1>3. CASE m.at[x] # NULL
  <2>1. CreateLevel(m, x) = m
    BY <1>3 DEF CreateLevel
  <2>2. Cardinality(m.free) >= n
    BY SMTT(60), FreeFinite DEF Room
  <2> QED
    BY <1>2, <2>1, <2>2 DEF Room
<1>4. CASE m.at[x] = NULL
  <2>1. CreateLevel(m, x) = Attach(page_alloc(m), x, FirstFree(m))
    BY <1>1, <1>2, <1>4 DEF CreateLevel
  <2>2. FirstFree(m) \in Pages
    BY <1>1, PageAlloc
  <2>3. /\ Attach(page_alloc(m), x, FirstFree(m)) \in Mem
        /\ Attach(page_alloc(m), x, FirstFree(m)).free = page_alloc(m).free
        /\ Attach(page_alloc(m), x, FirstFree(m)).ok = page_alloc(m).ok
    BY <1>1, <2>2, AttachFields
  <2> QED
    BY <1>1, <2>1, <2>3 DEF Room
<1> QED
  BY <1>3, <1>4

(* A walk takes at most three pages, and succeeds if there are three.      *)
LEMMA WalkRoom ==
  ASSUME NEW m \in Mem, NEW e \in Envs, NEW va \in VAs, NEW n \in Nat,
         Room(m, n + 3)
  PROVE  pgdir_walk(m, e, va) \in Mem /\ Room(pgdir_walk(m, e, va), n)
<1> DEFINE a == CreateLevel(m, <<e, Dir1(va)>>)
           b == CreateLevel(a, <<e, Dir2(va)>>)
           c == CreateLevel(b, <<e, Dir3(va)>>)
<1>0. <<e, Dir1(va)>> \in Places /\ <<e, Dir2(va)>> \in Places
      /\ <<e, Dir3(va)>> \in Places
  BY ArePlaces
<1>1. /\ n + 2 \in Nat /\ n + 1 \in Nat
      /\ n + 3 = (n + 2) + 1 /\ n + 2 = (n + 1) + 1
  BY SMTT(60)
<1>2. a \in Mem /\ Room(a, n + 2)
  <2>1. Room(m, (n + 2) + 1)
    BY <1>1
  <2> QED
    BY <1>0, <1>1, <2>1, LevelRoom
<1> HIDE DEF a
<1>3. b \in Mem /\ Room(b, n + 1)
  <2>1. Room(a, (n + 1) + 1)
    BY <1>1, <1>2
  <2> QED
    BY <1>0, <1>1, <1>2, <2>1, LevelRoom
<1> HIDE DEF b
<1>4. c \in Mem /\ Room(c, n)
  BY <1>0, <1>3, LevelRoom
<1> QED
  BY <1>4 DEF pgdir_walk, a, b

(* With four free pages a page can be allocated and mapped.                *)
LEMMA FreshRoom ==
  ASSUME NEW m \in Mem, MemOk(m, {}), lost \in [Pages -> Nat],
         NEW e \in Envs, NEW va \in VAs, NEW n \in Nat, Room(m, n + 4)
  PROVE  LET r == InsertFresh(m, e, va, TRUE) IN
         /\ m.free # {} /\ r \in Mem /\ r.bad = m.bad /\ MemOk(r, {}) /\ Room(r, n)
<1> DEFINE a == page_alloc(m)
           p == FirstFree(m)
           x == <<e, va>>
           t == pgdir_walk(a, e, va)
           u == page_remove(t, e, va)
           v == IF t.at[x] = p THEN t ELSE Attach(u, x, p)
           r == InsertFresh(m, e, va, TRUE)
<1>1. m.free # {} /\ a \in Mem /\ Room(a, n + 3)
  <2>1. n + 4 = (n + 3) + 1 /\ n + 3 \in Nat
    BY SMTT(60)
  <2>2. Room(m, (n + 3) + 1)
    BY <2>1
  <2> QED
    BY <2>1, <2>2, AllocRoom
<1>2. p \in m.free /\ p \in Pages /\ a.free = m.free \ {p}
  BY <1>1, PageAlloc
<1>3. MemOk(a, {p})
  <2>1. MemOk(a, {} \cup {p})
    BY <1>1, PageAllocOk
  <2>2. {} \cup {p} = {p}
    OBVIOUS
  <2> QED
    BY <2>1, <2>2
<1>4. /\ r \in Mem /\ r.bad = m.bad
      /\ r.ok => MemOk(r, {})
  BY <1>1, FreshInsert
<1>5. r = IF t.ok THEN [v EXCEPT !.w[x] = TRUE, !.free = @ \ {p}] ELSE t
  BY DEF InsertFresh, page_insert
<1>6. t \in Mem /\ Room(t, n)
  BY <1>1, WalkRoom
<1>7. t.free \subseteq a.free
  BY <1>1, <1>3, WalkOk DEF Walked
<1>8. x \in Places
  BY ArePlaces
<1> HIDE DEF a, p, t, r, x
<1>9. u \in Mem /\ u.ok = t.ok /\ t.free \subseteq u.free
  BY <1>6, RemoveType
<1> HIDE DEF u
<1>10. /\ Attach(u, x, p) \in Mem
       /\ Attach(u, x, p).free = u.free /\ Attach(u, x, p).ok = u.ok
  BY <1>2, <1>8, <1>9, AttachFields
<1>11. v \in Mem /\ v.ok = t.ok /\ t.free \subseteq v.free
  BY <1>6, <1>9, <1>10
<1> HIDE DEF v
<1>12. t.ok
  BY <1>6 DEF Room
<1>13. r.free = v.free \ {p} /\ r.ok = v.ok
  BY <1>5, <1>11, <1>12 DEF Mem
<1>14. t.free \subseteq r.free
  BY <1>2, <1>7, <1>11, <1>13
<1>15. Cardinality(t.free) <= Cardinality(r.free)
  BY <1>4, <1>14, FreeFinite, FS_Subset
<1>16. Cardinality(r.free) >= n
  <2>1. Cardinality(t.free) >= n
    BY <1>6 DEF Room
  <2>2. Cardinality(t.free) \in Nat /\ Cardinality(r.free) \in Nat
    BY <1>4, <1>6, FreeFinite
  <2> QED
    BY SMTT(60), <1>15, <2>1, <2>2
<1> QED
  BY <1>1, <1>4, <1>11, <1>12, <1>13, <1>16 DEF Room, r

(* ENV_CREATE at boot: no environment exists, so no CPU runs one, and      *)
(* there are pages enough for all that env_setup_vm and load_icode take,   *)
(* so that the result load_icode does not look at is a success.            *)
LEMMA EnvCreateStep ==
  ASSUME IInv, NEW e \in Envs, env_create(e)
  PROVE  IInv'
<1> DEFINE x == <<e, Dir0>>
           root == Attach(page_alloc(Memory), x, FirstFree(Memory))
           i == InsertFresh(root, e, ImageVA, TRUE)
           a == LoadPage(root, e, ImageVA)
           r == LoadStack(a, e)
<1>1. /\ ~crashed /\ (\A f \in Envs : ~Live(f)) /\ page_free_list = Pages /\ Store(r)
      /\ UNCHANGED <<lost, env_ipc_recving, env_ipc_dstva, curenv, tlb>>
  BY DEF env_create, ipcVars
<1>2. /\ TypeOK /\ MemOk(Memory, {}) /\ CpuOk /\ OtherTypes
  BY <1>1 DEF IInv, TypeOK, OtherTypes
<1>3. /\ Memory \in Mem /\ Memory.free = page_free_list /\ Memory.ok = TRUE
      /\ Memory.at = at /\ lost \in [Pages -> Nat]
      /\ ImageVA \in VAs /\ StackVA \in VAs /\ x \in Places
  BY <1>2, MemoryIs, ArePlaces, PmapAssumption DEF TypeOK
<1>4. Room(Memory, 8 + 1)
  <2>1. Cardinality(Pages) = NPAGE
    <3>1. Cardinality(1 .. NPAGE) = IF 1 > NPAGE THEN 0 ELSE NPAGE - 1 + 1
      <4>1. 1 \in Int /\ NPAGE \in Int
        BY SMTT(60), PmapAssumption
      <4> QED
        BY <4>1, FS_Interval
    <3> QED
      BY SMTT(60), <3>1, PmapAssumption DEF Pages
  <2>2. NPAGE >= 8 + 1
    BY SMTT(60), PmapAssumption
  <2> QED
    BY <1>1, <1>3, <2>1, <2>2 DEF Room
<1>5. Memory.free # {} /\ page_free_list # {}
  BY <1>3, <1>4, AllocRoom
<1>6. root \in Mem /\ MemOk(root, {}) /\ root.bad = FALSE
  BY <1>1, <1>2, <1>5, SetupVm
<1>7. Room(root, 8)
  <2>1. root = CreateLevel(Memory, x)
    BY <1>1, <1>3, <1>5 DEF CreateLevel, Live
  <2>2. Room(CreateLevel(Memory, x), 8)
    BY <1>3, <1>4, LevelRoom
  <2> QED
    BY <2>1, <2>2
<1> HIDE DEF root, x
<1>8. root.free # {} /\ i \in Mem /\ i.bad = FALSE /\ MemOk(i, {}) /\ Room(i, 4)
  <2>1. Room(root, 4 + 4)
    BY SMTT(60), <1>7 DEF Room
  <2> QED
    BY <1>3, <1>6, <2>1, FreshRoom
<1>9. a = [i EXCEPT !.bad = ~i.ok]
  BY <1>6, <1>8 DEF LoadPage, InsertFresh
<1> HIDE DEF i
<1>10. a = i
  <2>1. i.ok
    BY <1>8 DEF Room
  <2> QED
    BY <1>8, <1>9, <2>1 DEF Mem
<1> HIDE DEF a
<1>11. LET s == InsertFresh(i, e, StackVA, TRUE) IN
       i.free # {} /\ s \in Mem /\ s.bad = FALSE /\ MemOk(s, {})
  <2>1. Room(i, 0 + 4)
    BY SMTT(60), <1>8 DEF Room
  <2> QED
    BY <1>3, <1>8, <2>1, FreshRoom
<1>12. r = InsertFresh(i, e, StackVA, TRUE)
  BY <1>8, <1>10, <1>11 DEF LoadStack, InsertFresh
<1> HIDE DEF r
<1>13. r \in Mem /\ MemOk(r, {})
  BY <1>11, <1>12
<1>14. OtherTypes'
  BY <1>1, <1>2 DEF OtherTypes
<1>15. TypeOK'
  BY <1>1, <1>13, <1>14, StoreTypes
<1>16. ~crashed' => MemOk(Memory, {})'
  BY <1>1, <1>13, StoreOk DEF Store
<1>17. \A c \in CPUs : curenv[c] = NULL
  BY <1>1, <1>2 DEF CpuOk, TypeOK
<1>18. CpuOk' /\ TlbCoherent'
  BY <1>1, <1>17 DEF CpuOk, TlbCoherent
<1> QED
  BY <1>15, <1>16, <1>18 DEF IInv

(* env_run gives a CPU to an environment and flushes its TLB.              *)
LEMMA EnvRunStep ==
  ASSUME IInv, NEW c \in CPUs, NEW e \in Envs, env_run(c, e)
  PROVE  IInv'
<1>1. /\ ~crashed /\ curenv[c] = NULL /\ Live(e) /\ ~env_ipc_recving[e]
      /\ (\A d \in CPUs : curenv[d] # e)
      /\ curenv' = [curenv EXCEPT ![c] = e] /\ tlb' = [tlb EXCEPT ![c] = {}]
      /\ UNCHANGED <<at, writable, pp_ref, page_free_list, crashed, lost,
                     env_ipc_recving, env_ipc_dstva>>
  BY DEF env_run, memVars, ipcVars
<1>2. TypeOK /\ MemOk(Memory, {}) /\ CpuOk
  BY <1>1 DEF IInv
<1>3. TypeOK'
  BY <1>1, <1>2 DEF TypeOK
<1>4. MemOk(Memory, {})'
  BY <1>1, <1>2 DEF MemOk, Counted, Listed, Held, Private, Rooted, Kept, Refs, Memory
<1>5. curenv'[c] = e /\ tlb'[c] = {}
      /\ \A d \in CPUs \ {c} : curenv'[d] = curenv[d] /\ tlb'[d] = tlb[d]
  BY <1>1, <1>2 DEF TypeOK
<1>6. CpuOk'
  BY SMTT(60), <1>1, <1>2, <1>5 DEF CpuOk, Live
<1>7. ~MayEditRunning => TlbCoherent'
  BY SMTT(60), <1>1, <1>5 DEF TlbCoherent, IInv
<1> QED
  BY <1>3, <1>4, <1>6, <1>7 DEF IInv

(* The hardware caches what it finds in the tables.                        *)
LEMMA TouchStep ==
  ASSUME IInv, NEW c \in CPUs, NEW va \in VAs, Touch(c, va)
  PROVE  IInv'
<1> DEFINE new == <<va, at[<<curenv[c], va>>], writable[<<curenv[c], va>>]>>
<1>1. /\ ~crashed /\ curenv[c] # NULL /\ at[<<curenv[c], va>>] # NULL
      /\ tlb' = [tlb EXCEPT ![c] = @ \cup {new}]
      /\ UNCHANGED <<at, writable, pp_ref, page_free_list, crashed, lost,
                     env_ipc_recving, env_ipc_dstva, curenv>>
  BY DEF Touch, Calls, memVars, ipcVars
<1>2. TypeOK /\ MemOk(Memory, {}) /\ CpuOk
  BY <1>1 DEF IInv
<1>3. curenv[c] \in Envs /\ <<curenv[c], va>> \in Places
      /\ <<curenv[c], va>> \in Envs \X VAs
  BY <1>1, <1>2, ArePlaces DEF TypeOK
<1>4. new \in VAs \X Pages \X BOOLEAN
  BY <1>1, <1>2, <1>3 DEF TypeOK
<1>5. new[1] = va /\ new[2] = at[<<curenv[c], va>>]
      /\ new[3] = writable[<<curenv[c], va>>]
  OBVIOUS
<1> HIDE DEF new
<1>6. tlb'[c] = tlb[c] \cup {new} /\ \A d \in CPUs \ {c} : tlb'[d] = tlb[d]
  BY <1>1, <1>2 DEF TypeOK
<1>7. TypeOK'
  BY <1>1, <1>2, <1>4 DEF TypeOK
<1>8. MemOk(Memory, {})'
  BY <1>1, <1>2 DEF MemOk, Counted, Listed, Held, Private, Rooted, Kept, Refs, Memory
<1>9. CpuOk'
  BY <1>1, <1>2 DEF CpuOk, Live
<1>10. ~MayEditRunning => TlbCoherent'
  BY <1>1, <1>5, <1>6 DEF TlbCoherent, IInv
<1> QED
  BY <1>7, <1>8, <1>9, <1>10 DEF IInv

(* env_free: the references to a page are those of other environments,     *)
(* those it drops and those it skips.                                      *)
LEMMA FreeCounts ==
  ASSUME TypeOK, NEW e \in Envs, NEW p \in Pages,
         at' = [x \in Places |-> IF x[1] = e THEN NULL ELSE at[x]]
  PROVE  /\ Cardinality(Refs(Memory, p)) = Cardinality(Refs(Memory, p)')
              + Cardinality(Dropped(e, p)) + Cardinality(Skipped(e, p))
         /\ Cardinality(Refs(Memory, p)') \in Nat
         /\ Cardinality(Dropped(e, p)) \in Nat /\ IsFiniteSet(Dropped(e, p))
         /\ Cardinality(Skipped(e, p)) \in Nat
<1> DEFINE D == Dropped(e, p)
           S == Skipped(e, p)
           N == {x \in Places : at'[x] = p}
           T == {x \in Places : x[1] = e /\ at[x] = p}
           R == {x \in Places : at[x] = p}
<1>0. NULL \notin Pages
  BY PmapAssumption DEF Pages
<1>1. Refs(Memory, p) = R /\ Refs(Memory, p)' = N
  BY DEF Refs, Memory
<1>2. R = N \cup T /\ N \cap T = {}
  BY <1>0
<1>3. D \in SUBSET Entries /\ S \in SUBSET Entries /\ D \cap S = {}
  BY DEF Dropped, Skipped
<1>4. ExistsBijection(D \cup S, T)
  <2> DEFINE f == [i \in D \cup S |-> <<e, i>>]
  <2>1. \A i \in D \cup S : i \in Entries /\ at[<<e, i>>] = p
    BY DEF Dropped, Skipped
  <2>2. \A i \in D \cup S : <<e, i>> \in T
    BY <2>1 DEF Places
  <2>3. ASSUME NEW x \in T PROVE \E i \in D \cup S : f[i] = x
    <3>1. x \in Envs \X Entries /\ x[1] = e /\ at[x] = p
      BY DEF Places
    <3>2. x = <<e, x[2]>> /\ x[2] \in Entries
      BY SMTT(60), <3>1
    <3>3. x[2] \in D \cup S
      BY <3>1, <3>2 DEF Dropped, Skipped
    <3> QED
      BY <3>2, <3>3
  <2>4. \A i, j \in D \cup S : f[i] = f[j] => i = j
    OBVIOUS
  <2>5. f \in [D \cup S -> T]
    BY <2>2
  <2> HIDE DEF f
  <2>6. f \in Bijection(D \cup S, T)
    <3> HIDE DEF D, S, T
    <3> QED
      BY <2>3, <2>4, <2>5 DEF Bijection, Injection, Surjection, IsInjective
  <2> QED
    BY <2>6 DEF ExistsBijection
<1>5. N \in SUBSET Places /\ T \in SUBSET Places
  OBVIOUS
<1> HIDE DEF D, S, N, T, R
<1>6. IsFiniteSet(N) /\ IsFiniteSet(T)
  BY <1>5, PlacesFinite, FS_Subset
<1>7. IsFiniteSet(D) /\ IsFiniteSet(S)
  BY <1>3, EntriesFinite, FS_Subset
<1>8. /\ Cardinality(N) \in Nat /\ Cardinality(T) \in Nat
      /\ Cardinality(D) \in Nat /\ Cardinality(S) \in Nat
      /\ Cardinality({}) = 0
  BY <1>6, <1>7, FS_CardinalityType, FS_EmptySet
<1>9. Cardinality(R) = Cardinality(N) + Cardinality(T)
  <2>1. Cardinality(N \cup T)
          = Cardinality(N) + Cardinality(T) - Cardinality(N \cap T)
    BY <1>6, FS_Union
  <2>2. Cardinality(N \cap T) = 0
    BY <1>2, <1>8
  <2>3. Cardinality(R) = Cardinality(N \cup T)
    BY <1>2
  <2> QED
    BY SMTT(60), <1>8, <2>1, <2>2, <2>3
<1>10. IsFiniteSet(D \cup S) /\ Cardinality(D \cup S) = Cardinality(D) + Cardinality(S)
  BY SMTT(60), <1>3, <1>7, <1>8, FS_Union
<1>11. Cardinality(T) = Cardinality(D \cup S)
  BY <1>4, <1>10, FS_Bijection
<1> QED
  BY SMTT(60), <1>1, <1>7, <1>8, <1>9, <1>10, <1>11 DEF D, S

(* env_free drops exactly what it counted, keeps counted what it skipped,  *)
(* and takes the environment off this CPU.                                 *)
LEMMA EnvFreeStep ==
  ASSUME IInv, NEW c \in CPUs, NEW e \in Envs, env_free(c, e)
  PROVE  IInv'
<1> DEFINE ref == [p \in Pages |-> pp_ref[p] - Cardinality(Dropped(e, p))]
<1>1. /\ ~crashed /\ (\A d \in CPUs \ {c} : curenv[d] # e)
      /\ at' = [x \in Places |-> IF x[1] = e THEN NULL ELSE at[x]]
      /\ writable' = [x \in Envs \X VAs |-> x[1] # e /\ writable[x]]
      /\ pp_ref' = ref
      /\ page_free_list' = page_free_list \cup
           {p \in Pages : Dropped(e, p) # {} /\ ref[p] = 0}
      /\ (crashed' = \E p \in Pages : ref[p] < 0)
      /\ lost' = [p \in Pages |-> lost[p] + Cardinality(Skipped(e, p))]
      /\ (IF e = curenv[c] THEN Leave(c) ELSE Resume(c))
      /\ UNCHANGED <<env_ipc_recving, env_ipc_dstva>>
  BY DEF env_free, Calls, ipcVars
<1>2. TypeOK /\ MemOk(Memory, {}) /\ CpuOk
  BY <1>1 DEF IInv
<1>3. ASSUME NEW p \in Pages
      PROVE  /\ pp_ref'[p] = pp_ref[p] - Cardinality(Dropped(e, p))
             /\ lost'[p] = lost[p] + Cardinality(Skipped(e, p))
             /\ pp_ref'[p] = Cardinality(Refs(Memory, p)') + lost'[p]
             /\ pp_ref'[p] \in 0 .. RefLimit - 1 /\ lost'[p] \in Nat
             /\ p \in page_free_list' <=> pp_ref'[p] = 0
  <2>1. /\ Cardinality(Refs(Memory, p)) = Cardinality(Refs(Memory, p)')
              + Cardinality(Dropped(e, p)) + Cardinality(Skipped(e, p))
         /\ Cardinality(Refs(Memory, p)') \in Nat
         /\ Cardinality(Dropped(e, p)) \in Nat /\ IsFiniteSet(Dropped(e, p))
         /\ Cardinality(Skipped(e, p)) \in Nat
    BY <1>1, <1>2, FreeCounts
  <2>2. /\ pp_ref[p] = Cardinality(Refs(Memory, p)) + lost[p]
        /\ (p \in page_free_list <=> pp_ref[p] = 0)
    BY <1>2, MemoryIs DEF MemOk, Counted, Listed
  <2>3. lost[p] \in Nat /\ pp_ref[p] \in 0 .. RefLimit - 1 /\ RefLimit \in Nat
    BY <1>2, PmapAssumption DEF TypeOK
  <2>4. /\ pp_ref'[p] = pp_ref[p] - Cardinality(Dropped(e, p))
        /\ lost'[p] = lost[p] + Cardinality(Skipped(e, p))
        /\ (p \in page_free_list' <=>
              p \in page_free_list \/ (Dropped(e, p) # {} /\ pp_ref'[p] = 0))
    BY <1>1
  <2>5. /\ pp_ref'[p] = Cardinality(Refs(Memory, p)') + lost'[p]
        /\ pp_ref'[p] \in 0 .. RefLimit - 1 /\ lost'[p] \in Nat
    <3>1. PICK n \in Nat : n = Cardinality(Refs(Memory, p)')
      BY <2>1
    <3>2. PICK d \in Nat : d = Cardinality(Dropped(e, p))
      BY <2>1
    <3>3. PICK k \in Nat : k = Cardinality(Skipped(e, p))
      BY <2>1
    <3>4. pp_ref[p] = n + d + k + lost[p]
      BY <2>1, <2>2, <2>3, <3>1, <3>2, <3>3
    <3>5. pp_ref'[p] = pp_ref[p] - d /\ lost'[p] = lost[p] + k
      BY <2>4, <3>2, <3>3
    <3>6. /\ pp_ref'[p] = n + lost'[p]
          /\ pp_ref'[p] \in 0 .. RefLimit - 1 /\ lost'[p] \in Nat
      BY SMTT(60), <2>3, <3>4, <3>5
    <3> QED
      BY <3>1, <3>6
  <2>6. Dropped(e, p) = {} => Cardinality(Dropped(e, p)) = 0
    BY FS_EmptySet
  <2>7. p \in page_free_list' <=> pp_ref'[p] = 0
    BY SMTT(60), <2>1, <2>2, <2>3, <2>4, <2>5, <2>6
  <2> QED
    BY <2>4, <2>5, <2>7
<1>4. pp_ref' \in [Pages -> 0 .. RefLimit - 1] /\ lost' \in [Pages -> Nat]
  <2>1. pp_ref' = [p \in Pages |-> pp_ref'[p]] /\ lost' = [p \in Pages |-> lost'[p]]
    BY <1>1
  <2> QED
    BY <1>3, <2>1
<1>5. at' \in [Places -> Pages \cup {NULL}] /\ writable' \in [Envs \X VAs -> BOOLEAN]
  BY <1>1, <1>2 DEF TypeOK
<1>6. ~crashed'
  BY SMTT(60), <1>1, <1>3
<1>7. \A d \in CPUs : curenv'[d] # NULL =>
        at'[<<curenv[d], Dir0>>] # NULL /\ ~env_ipc_recving'[curenv[d]]
  <2> SUFFICES ASSUME NEW d \in CPUs, curenv'[d] # NULL
               PROVE  at'[<<curenv[d], Dir0>>] # NULL
                      /\ ~env_ipc_recving'[curenv[d]]
    OBVIOUS
  <2>1. curenv[d] # NULL /\ curenv[d] # e /\ curenv[d] \in Envs
    BY <1>1, <1>2 DEF Leave, Resume, TypeOK
  <2>2. Live(curenv[d]) /\ ~env_ipc_recving[curenv[d]]
    BY <1>2, <2>1 DEF CpuOk
  <2>3. <<curenv[d], Dir0>> \in Places /\ <<curenv[d], Dir0>>[1] = curenv[d]
    BY <2>1, ArePlaces, PmapAssumption
  <2> QED
    BY <1>1, <2>1, <2>2, <2>3 DEF Live
<1>8. CpuOk' /\ curenv' \in [CPUs -> Envs \cup {NULL}]
      /\ tlb' \in [CPUs -> SUBSET (VAs \X Pages \X BOOLEAN)]
  BY <1>1, <1>2, <1>7, CpusKeep
<1>9. page_free_list' \subseteq Pages /\ crashed' \in BOOLEAN
  BY <1>1, <1>2 DEF TypeOK
<1>10. TypeOK'
  BY <1>1, <1>2, <1>4, <1>5, <1>8, <1>9 DEF TypeOK
<1>11. MemOk(Memory, {})'
  <2>1. Memory.at' = at' /\ Memory.ref' = pp_ref' /\ Memory.free' = page_free_list'
    BY DEF Memory
  <2>2. Counted(Memory)'
    BY <1>3, <2>1 DEF Counted
  <2>3. Listed(Memory, {})' /\ Held(Memory, {})'
    BY <1>3, <2>1 DEF Listed, Held
  <2>4. Private(Memory)'
    <3>1. \A x \in Places : at'[x] # NULL => at'[x] = at[x]
      BY <1>1
    <3>2. \A x, y \in Places :
            at[x] # NULL /\ x[2] \notin VAs /\ at[y] = at[x] => x = y
      BY <1>2, MemoryIs DEF MemOk, Private
    <3> QED
      BY <2>1, <3>1, <3>2 DEF Private
  <2>5. Rooted(Memory)'
    <3> SUFFICES ASSUME NEW f \in Envs, NEW va \in VAs, at'[<<f, va>>] # NULL
                 PROVE  at'[<<f, Dir1(va)>>] # NULL
      BY <2>1 DEF Rooted
    <3>1. <<f, va>> \in Places /\ <<f, Dir1(va)>> \in Places
      BY ArePlaces
    <3>2. f # e /\ at[<<f, va>>] # NULL
      BY <1>1, <3>1
    <3>3. at[<<f, Dir1(va)>>] # NULL
      BY <1>2, <3>2, MemoryIs DEF MemOk, Rooted
    <3> QED
      BY <1>1, <3>1, <3>2, <3>3
  <2>6. Kept(Memory)'
    <3> SUFFICES ASSUME NEW x \in Places, at'[x] # NULL, x[2] \notin VAs
                 PROVE  lost'[at'[x]] = 0
      BY <2>1 DEF Kept
    <3>1. x[1] # e /\ at'[x] = at[x] /\ at[x] \in Pages
      BY <1>1, <1>2 DEF TypeOK
    <3>2. lost[at[x]] = 0
      BY <1>2, <3>1, MemoryIs DEF MemOk, Kept
    <3>3. \A y \in Places : at[y] = at[x] => x = y
      BY <1>2, <3>1, MemoryIs DEF MemOk, Private
    <3>4. Skipped(e, at[x]) = {}
      BY SMTT(60), <3>1, <3>3 DEF Skipped, Places
    <3>5. lost'[at[x]] = 0 + Cardinality({})
      BY <1>3, <3>1, <3>2, <3>4
    <3> QED
      BY SMTT(60), <3>1, <3>5, FS_EmptySet
  <2> QED
    BY <2>2, <2>3, <2>4, <2>5, <2>6 DEF MemOk
<1>12. /\ \A y \in Places : y[1] # e => at'[y] = at[y]
       /\ \A y \in Envs \X VAs : y[1] # e => writable'[y] = writable[y]
  BY <1>1, <1>2 DEF TypeOK
<1>13. ~MayEditRunning => TlbCoherent'
  BY <1>1, <1>2, <1>12, TlbKeeps DEF IInv
<1> QED
  BY <1>8, <1>10, <1>11, <1>13 DEF IInv

-----------------------------------------------------------------------------
(* The theorems. *)

(* Boot starts consistent: every page is free and nothing is mapped.       *)
LEMMA InitInv == Init => IInv
<1> SUFFICES ASSUME Init PROVE IInv
  OBVIOUS
<1>0. NULL \notin Pages /\ RefLimit \in Nat \ {0, 1} /\ ZeroVA \in VAs
  BY PmapAssumption DEF Pages
<1>1. TypeOK
  <2>1. 0 \in 0 .. RefLimit - 1
    BY SMTT(60), <1>0
  <2>2. /\ at \in [Places -> Pages \cup {NULL}]
        /\ writable \in [Envs \X VAs -> BOOLEAN]
        /\ page_free_list \subseteq Pages /\ crashed \in BOOLEAN
    BY DEF Init
  <2>3. pp_ref \in [Pages -> 0 .. RefLimit - 1] /\ lost \in [Pages -> Nat]
    BY <2>1 DEF Init
  <2>4. OtherTypes
    BY <1>0, <2>3 DEF Init, OtherTypes
  <2> QED
    BY <2>2, <2>3, <2>4 DEF TypeOK, OtherTypes
<1>2. Memory.at = at /\ Memory.ref = pp_ref /\ Memory.free = page_free_list
  BY <1>1, MemoryIs
<1>3. ASSUME NEW p \in Pages PROVE Cardinality(Refs(Memory, p)) = 0
  <2>1. Refs(Memory, p) = {}
    BY <1>0, <1>2 DEF Refs, Init
  <2> QED
    BY <2>1, FS_EmptySet
<1>4. MemOk(Memory, {})
  <2>1. Counted(Memory) /\ Listed(Memory, {}) /\ Held(Memory, {})
    BY SMTT(60), <1>2, <1>3 DEF Counted, Listed, Held, Init
  <2>2. \A x \in Places : Memory.at[x] = NULL
    BY <1>2 DEF Init
  <2>3. Private(Memory) /\ Kept(Memory)
    BY <2>2 DEF Private, Kept
  <2>4. Rooted(Memory)
    BY <2>2, ArePlaces DEF Rooted
  <2> QED
    BY <2>1, <2>3, <2>4 DEF MemOk
<1>5. CpuOk /\ TlbCoherent
  BY DEF Init, CpuOk, TlbCoherent
<1> QED
  BY <1>1, <1>4, <1>5 DEF IInv

(* Every step keeps the invariant.                                         *)
LEMMA NextInv == IInv /\ NoOverflow' /\ [Next]_vars => IInv'
<1> SUFFICES ASSUME IInv, NoOverflow', [Next]_vars PROVE IInv'
  OBVIOUS
<1>1. ASSUME NEW e \in Envs, env_create(e) PROVE IInv'
  BY <1>1, EnvCreateStep
<1>2. ASSUME NEW c \in CPUs, NEW e \in Envs, NEW va \in VAs, NEW w \in BOOLEAN,
             sys_page_alloc(c, e, va, w)
      PROVE  IInv'
  BY <1>2, PageAllocStep
<1>3. ASSUME NEW c \in CPUs, NEW e \in Envs, NEW va \in VAs, NEW w \in BOOLEAN,
             NEW f \in Envs, NEW fva \in VAs, sys_page_map(c, e, va, f, fva, w)
      PROVE  IInv'
  BY <1>3, PageMapStep
<1>4. ASSUME NEW c \in CPUs, NEW e \in Envs, NEW va \in VAs, sys_page_unmap(c, e, va)
      PROVE  IInv'
  BY <1>4, PageUnmapStep
<1>5. ASSUME NEW c \in CPUs, NEW va \in VAs \cup {NULL}, sys_ipc_recv(c, va)
      PROVE  IInv'
  BY <1>5, IpcRecvStep
<1>6. ASSUME NEW c \in CPUs, NEW e \in Envs, NEW va \in VAs \cup {NULL},
             NEW w \in BOOLEAN, sys_ipc_try_send(c, e, va, w)
      PROVE  IInv'
  BY <1>6, IpcTrySendStep
<1>7. ASSUME NEW c \in CPUs, NEW e \in Envs,
             sys_exofork(c, e) \/ env_free(c, e) \/ env_run(c, e)
      PROVE  IInv'
  BY <1>7, ExoforkStep, EnvFreeStep, EnvRunStep
<1>8. ASSUME NEW c \in CPUs, NEW va \in VAs, Touch(c, va) PROVE IInv'
  BY <1>8, TouchStep
<1>9. CASE UNCHANGED vars
  <2>1. UNCHANGED <<at, writable, pp_ref, page_free_list, crashed, lost,
                    env_ipc_recving, env_ipc_dstva, curenv, tlb>>
    BY <1>9 DEF vars, memVars, ipcVars
  <2> QED
    BY <2>1 DEF IInv, TypeOK, MemOk, Counted, Listed, Held, Private, Rooted, Kept,
       Refs, Memory, CpuOk, Live, TlbCoherent
<1> QED
  BY <1>1, <1>2, <1>3, <1>4, <1>5, <1>6, <1>7, <1>8, <1>9 DEF Next

(* While no page has RefLimit references or more, which is when the        *)
(* uint16_t pp_ref would wrap around, the invariant holds in every state.  *)
THEOREM InvariantHolds == Spec /\ []NoOverflow => []IInv
<1>1. IInv /\ NoOverflow' /\ [Next]_vars => IInv'
  BY NextInv
<1> QED
  BY InitInv, <1>1, PTL DEF Spec

(* Every variable keeps its type (TypeOK), unless a count overflows.       *)
THEOREM TypeCorrect == Spec /\ []NoOverflow => []TypeOK
<1>1. IInv => TypeOK
  BY DEF IInv
<1> QED
  BY <1>1, InvariantHolds, PTL

(* RefCountsExact: through page_insert, page_remove, failed walks, page    *)
(* transfers and env_free, pp_ref of every page is the number of entries   *)
(* that refer to it (and of those env_free left behind), and the free list *)
(* holds exactly the pages with count 0.                                   *)
THEOREM CountsAreExact == Spec /\ []NoOverflow => []RefCountsExact
<1>1. ASSUME IInv PROVE RefCountsExact
  <2> SUFFICES ASSUME ~crashed, NEW p \in Pages
               PROVE  /\ pp_ref[p] = Cardinality(References(p)) + lost[p]
                      /\ p \in page_free_list <=> pp_ref[p] = 0
    BY DEF RefCountsExact
  <2>1. TypeOK /\ MemOk(Memory, {})
    BY <1>1 DEF IInv
  <2>2. Refs(Memory, p) = References(p)
    BY <2>1, MemoryIs DEF Refs, References
  <2> QED
    BY <2>1, <2>2, MemoryIs DEF MemOk, Counted, Listed
<1> QED
  BY <1>1, InvariantHolds, PTL

(* TablesPrivate: a page that serves as a page table is referred to by the *)
(* one entry above it and by nothing else, in any address space.           *)
THEOREM TablesArePrivate == Spec /\ []NoOverflow => []TablesPrivate
<1>1. ASSUME IInv PROVE TablesPrivate
  <2> SUFFICES ASSUME ~crashed, NEW x \in Places, at[x] # NULL, x[2] \notin VAs
               PROVE  References(at[x]) = {x}
    BY DEF TablesPrivate
  <2>1. TypeOK /\ Private(Memory)
    BY <1>1 DEF IInv, MemOk
  <2>2. \A y \in Places : at[y] = at[x] => x = y
    BY <2>1, MemoryIs DEF Private
  <2> QED
    BY <2>2 DEF References
<1> QED
  BY <1>1, InvariantHolds, PTL

(* TlbCoherent: as long as no call edits the tables of an environment that *)
(* is running on another CPU, the flush in env_run keeps every TLB in      *)
(* agreement with the tables.                                              *)
THEOREM TlbsAreCoherent ==
  ASSUME ~MayEditRunning
  PROVE  Spec /\ []NoOverflow => []TlbCoherent
<1>1. IInv => TlbCoherent
  BY DEF IInv, TlbCoherent
<1> QED
  BY <1>1, InvariantHolds, PTL

=============================================================================
