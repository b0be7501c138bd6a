--------------------------------- MODULE Fs ---------------------------------
(***************************************************************************)
(* The file system of the file server: the free-block bitmap, the blocks   *)
(* of files and of the root directory (fs/fs.c), the block cache           *)
(* (fs/bc.c), and the disk, which alone survives a crash of the machine.   *)
(*                                                                         *)
(* A block is an array of words, as the code sees it: a struct File is the *)
(* words f_name, f_size, f_direct[] and f_indirect at its place in a       *)
(* directory block, a bitmap word is one bit.  Sizes and offsets are in    *)
(* words.  Cached pages are never evicted, so the cache is the disk with   *)
(* the changes made since the last restart; bc_pgfault's own panic, on a   *)
(* block read in that is marked free, is what BitmapExact excludes.  The   *)
(* server is one thread and a request is one step for the cache, but the   *)
(* blocks it flushes reach the disk one by one, and the machine may stop   *)
(* between any two.                                                        *)
(***************************************************************************)
EXTENDS Integers, Sequences, FiniteSets, FiniteSetsExt, SequencesExt

CONSTANTS
  NBLOCKS,       \* super->s_nblocks
  NDIRECT, NINDIRECT,
  BLKFILES,      \* struct Files in a block
  Names,         \* file names, as numbers greater than 0
  Extents,       \* arguments of read and write: <<name, offset, count>>, in words;
                 \* the name of the root directory is 0
  Sizes,         \* arguments of set_size
  MaxCrashes,
  RestartAnyImage, \* FALSE: the machine is not restarted from a disk on which
                   \* a file has an indirect block
  MayEditRoot      \* FALSE: "/" is opened, read and flushed (as ls does), and not
                   \* written, resized or truncated

FSZ == NDIRECT + 3                  \* sizeof(struct File)
BLKSIZE == BLKFILES * FSZ

ASSUME FsAssumption ==
  /\ NBLOCKS \in Nat /\ NBLOCKS > 3 /\ NDIRECT \in Nat \ {0}
  /\ NINDIRECT \in 0 .. BLKSIZE /\ BLKFILES \in Nat \ {0}
  /\ Names \subseteq Nat \ {0} /\ Sizes \subseteq Nat
  /\ Extents \subseteq (Names \cup {0}) \X Nat \X Nat
  /\ MaxCrashes \in Nat /\ RestartAnyImage \in BOOLEAN /\ MayEditRoot \in BOOLEAN

Blocks == 0 .. NBLOCKS - 1
Super == 1
Bitmap == 2
Root == <<Super, 0>>               \* &super->s_root
BadBlock == NBLOCKS                \* -E_NO_DISK as a block number

VARIABLES
  mem,         \* the blocks as the server sees them through the cache
  dirty,       \* PTE_D of the cached blocks
  out,         \* flushes of the current request that have not reached the disk
  disk,
  panicked,
  stale,       \* the directory has grown into a block with old contents
  crashes,
  written,     \* <<name, position>> of the words written and not cut off since
  flushed,     \* those the current request makes durable when it is done
  durable      \* those a completed flush or sync has put on the disk

ghosts == <<written, flushed, durable>>
vars == <<mem, dirty, out, disk, panicked, stale, crashes, ghosts>>

-----------------------------------------------------------------------------
(* A request works on a record of the cache, its pending flushes and its   *)
(* outcome; slot and blk are the results of file_block_walk and            *)
(* file_get_block.                                                         *)

Begin == [mem |-> mem, dirty |-> dirty, out |-> <<>>, err |-> "none",
          slot |-> Root, blk |-> 0, stale |-> FALSE, written |-> written]

Word(s, l) == s.mem[l[1]][l[2]]
Put(s, l, v) == [s EXCEPT !.mem[l[1]][l[2]] = v, !.dirty = @ \cup {l[1]}]
Fail(s, e) == [s EXCEPT !.err = e]
Ok(s) == s.err = "none"
Then(s, Op(_)) == IF Ok(s) THEN Op(s) ELSE s

f_size(f) == <<f[1], f[2] + 1>>
f_direct(f, n) == <<f[1], f[2] + 2 + n>>
f_indirect(f) == <<f[1], f[2] + 2 + NDIRECT>>

(* Blocks needed for n words, and the blocks a .. b - 1 in order. *)
NBlocks(n) == (n + BLKSIZE - 1) \div BLKSIZE
Span(a, b) == [i \in 1 .. (IF b > a THEN b - a ELSE 0) |-> a + i - 1]

(* diskaddr panics for a number that is not one of the disk's blocks. *)
diskaddr(s, b) == IF b = 0 \/ b >= NBLOCKS THEN Fail(s, "panic") ELSE s

flush_block(s, b) ==
  IF b \in s.dirty
  THEN [s EXCEPT !.out = Append(@, <<b, s.mem[b]>>), !.dirty = @ \ {b}]
  ELSE s

-----------------------------------------------------------------------------
(* The bitmap: a set bit is a free block. *)

Free(image) == {b \in Blocks : image[Bitmap][b] = 1}

(***************************************************************************)
(* The code does not check the number: for a stored error code the word of *)
(* the bitmap lies beyond the disk, and bc_pgfault panics.                 *)
(***************************************************************************)
free_block(s, b) ==
  IF b >= NBLOCKS THEN Fail(s, "panic") ELSE Put(s, <<Bitmap, b>>, 1)

(* Mutant: the changed bitmap stays in the cache. *)
Take_NoFlush(s, b) == [Put(s, <<Bitmap, b>>, 0) EXCEPT !.blk = b]

Take(s, b) == [flush_block(Put(s, <<Bitmap, b>>, 0), Bitmap) EXCEPT !.blk = b]

alloc_block(s) ==
  IF Free(s.mem) = {} THEN [s EXCEPT !.blk = BadBlock, !.err = "no_disk"]
  ELSE Take(s, Min(Free(s.mem)))

(* Mutant: the error code keeps its sign. *)
StoreBlk_Signed(s, slot) == Put(s, slot, IF Ok(s) THEN s.blk ELSE 0 - BadBlock)

(***************************************************************************)
(* *slot = ret = alloc_block(): the error code is stored as well.          *)
(***************************************************************************)
StoreBlk(s, slot) == Put(s, slot, s.blk)
AllocInto(s, slot) == StoreBlk(alloc_block(s), slot)

-----------------------------------------------------------------------------
(* Blocks of a file. *)

Cleared == [i \in 0 .. BLKSIZE - 1 |-> 0]


ClearNew(s) == [s EXCEPT !.mem[s.blk] = Cleared, !.dirty = @ \cup {s.blk}]

IndirectBlock(s, f, alloc) ==
  Then(IF Word(s, f_indirect(f)) # 0 THEN s
       ELSE IF ~alloc THEN Fail(s, "not_found")
       ELSE Then(AllocInto(s, f_indirect(f)), ClearNew),
       LAMBDA t : diskaddr(t, Word(t, f_indirect(f))))

file_block_walk(s, f, n, alloc) ==
  IF n < NDIRECT THEN [s EXCEPT !.slot = f_direct(f, n)]
  ELSE IF n >= NDIRECT + NINDIRECT THEN Fail(s, "inval")
  ELSE Then(IndirectBlock(s, f, alloc),
            LAMBDA t : [t EXCEPT !.slot = <<Word(t, f_indirect(f)), n - NDIRECT>>])

FillSlot(s) == IF Word(s, s.slot) = 0 THEN AllocInto(s, s.slot) ELSE s
GetSlot(s) == diskaddr([s EXCEPT !.blk = Word(s, s.slot)], Word(s, s.slot))

file_get_block(s, f, n) ==
  IF n > NBLOCKS THEN Fail(s, "inval")
  ELSE Then(Then(file_block_walk(s, f, n, TRUE), FillSlot), GetSlot)

(***************************************************************************)
(* The callers of file_block_walk that allocate nothing go on after an     *)
(* error, but not after a panic.                                           *)
(***************************************************************************)
Warned(s) == IF s.err = "panic" THEN s ELSE Fail(s, "none")

FreeSlot(s) ==
  IF Word(s, s.slot) = 0 THEN s
  ELSE Then(free_block(s, Word(s, s.slot)), LAMBDA t : Put(t, t.slot, 0))

file_free_block(s, f, n) == Warned(Then(file_block_walk(s, f, n, FALSE), FreeSlot))

FreeIndirect(s, f) ==
  IF Word(s, f_indirect(f)) = 0 THEN s
  ELSE Then(free_block(s, Word(s, f_indirect(f))), LAMBDA t : Put(t, f_indirect(f), 0))

(* Mutant: one block too many stays. *)
file_truncate_blocks_OneOff(s, f, newsize) ==
  Then(FoldLeft(LAMBDA t, n : Then(t, LAMBDA u : file_free_block(u, f, n)), s,
                Span(NBlocks(newsize) + 1, NBlocks(Word(s, f_size(f))))),
       LAMBDA t : IF NBlocks(newsize) <= NDIRECT THEN FreeIndirect(t, f) ELSE t)

file_truncate_blocks(s, f, newsize) ==
  Then(FoldLeft(LAMBDA t, n : Then(t, LAMBDA u : file_free_block(u, f, n)), s,
                Span(NBlocks(newsize), NBlocks(Word(s, f_size(f))))),
       LAMBDA t : IF NBlocks(newsize) <= NDIRECT THEN FreeIndirect(t, f) ELSE t)

(* What was written to the file beyond its new size is no longer expected. *)
CutOff(s, name, newsize) ==
  [s EXCEPT !.written = {w \in @ : w[1] = name => w[2] < newsize}]

file_set_size(s, f, newsize) ==
  Then(CutOff(IF Word(s, f_size(f)) > newsize THEN file_truncate_blocks(s, f, newsize)
              ELSE s, Word(s, f), newsize),
       LAMBDA t : flush_block(Put(t, f_size(f), newsize), f[1]))

FlushSlot(s) ==
  IF Word(s, s.slot) = 0 THEN s
  ELSE flush_block(diskaddr(s, Word(s, s.slot)), Word(s, s.slot))

(* Mutant: the indirect block is forgotten. *)
FlushIndirect_Not(s, f) == s

FlushIndirect(s, f) ==
  IF Word(s, f_indirect(f)) = 0 THEN s
  ELSE flush_block(diskaddr(s, Word(s, f_indirect(f))), Word(s, f_indirect(f)))

(* Mutant: the inode goes first, and the data after it. *)
file_flush_InodeFirst(s, f) ==
  FlushIndirect(
    FoldLeft(LAMBDA t, n : Then(t, LAMBDA u :
                   Warned(Then(file_block_walk(u, f, n, FALSE), FlushSlot))),
             flush_block(s, f[1]), Span(0, NBlocks(Word(s, f_size(f))))), f)

file_flush(s, f) ==
  Then(FoldLeft(LAMBDA t, n : Then(t, LAMBDA u :
                   Warned(Then(file_block_walk(u, f, n, FALSE), FlushSlot))),
                s, Span(0, NBlocks(Word(s, f_size(f))))),
       LAMBDA t : FlushIndirect(flush_block(t, f[1]), f))

(***************************************************************************)
(* The word at position p of the file named n has a value of its own,      *)
(* which may be the number of a block.                                     *)
(***************************************************************************)
Datum(n, p) == 1 + (Max(Names) + 1) * p + n

(* Mutant: the last word of the range is not copied. *)
InRange_Short(p, offset, count) == p >= offset /\ p < offset + count - 1

InRange(p, offset, count) == p >= offset /\ p < offset + count

(* The part of the range that lies in block k of the file. *)
CopyIn(s, name, k, offset, count) ==
  [s EXCEPT
     !.mem[s.blk] = [i \in 0 .. BLKSIZE - 1 |->
                       IF InRange(k * BLKSIZE + i, offset, count)
                       THEN Datum(name, k * BLKSIZE + i) ELSE @[i]],
     !.dirty = @ \cup {s.blk},
     !.written = @ \cup {<<name, p>> : p \in
                    {q \in offset .. offset + count - 1 : q \div BLKSIZE = k}}]

(* A failure leaves what the earlier blocks got. *)
file_write(s, f, offset, count) ==
  Then(IF offset + count > Word(s, f_size(f)) THEN file_set_size(s, f, offset + count)
       ELSE s,
       LAMBDA t :
         FoldLeft(LAMBDA u, k : Then(u, LAMBDA v :
                     Then(file_get_block(v, f, k),
                          LAMBDA w : CopyIn(w, Word(s, f), k, offset, count))),
                  t, Span(offset \div BLKSIZE, NBlocks(offset + count))))

(***************************************************************************)
(* file_read changes the file system too: it allocates blocks for holes.   *)
(***************************************************************************)
file_read(s, f, offset, count) ==
  IF offset >= Word(s, f_size(f)) THEN s
  ELSE FoldLeft(LAMBDA t, k : Then(t, LAMBDA u : file_get_block(u, f, k)), s,
                Span(offset \div BLKSIZE,
                     NBlocks(Min({offset + count, Word(s, f_size(f))}))))

-----------------------------------------------------------------------------
(* The directory. *)

FreeEntry == 0

Hits(s, name) == {j \in 0 .. BLKFILES - 1 : s.mem[s.blk][j * FSZ] = name}

SearchBlock(s, name) ==
  IF Hits(s, name) = {} THEN Fail(s, "not_found")
  ELSE [s EXCEPT !.slot = <<s.blk, Min(Hits(s, name)) * FSZ>>]

(***************************************************************************)
(* The loop of dir_lookup and dir_alloc_file: the first entry of that      *)
(* name, block after block, or not_found; slot is its place.  A free entry *)
(* has the empty name.  Both assert that the size is whole blocks.         *)
(***************************************************************************)
dir_lookup(s, name) ==
  IF Word(s, f_size(Root)) % BLKSIZE # 0 THEN Fail(s, "panic")
  ELSE FoldLeft(LAMBDA t, k :
             IF t.err # "not_found" THEN t
             ELSE Then(file_get_block(Fail(t, "none"), Root, k),
                       LAMBDA u : SearchBlock(u, name)),
           Fail(s, "not_found"), Span(0, Word(s, f_size(Root)) \div BLKSIZE))

(***************************************************************************)
(* A new directory block is taken as it is, not cleared, and the size has  *)
(* grown before it is known whether there is one.                          *)
(***************************************************************************)
GrowDir(s, n) ==
  Then(file_get_block(Put(Fail(s, "none"), f_size(Root), (n + 1) * BLKSIZE), Root, n),
       LAMBDA t : [t EXCEPT !.slot = <<t.blk, 0>>, !.stale = t.mem[t.blk] # Cleared])

OrGrowDir(s) ==
  IF s.err = "not_found" THEN GrowDir(s, Word(s, f_size(Root)) \div BLKSIZE) ELSE s

dir_alloc_file(s) == OrGrowDir(dir_lookup(s, FreeEntry))

(* The error "exists" carries the entry found. *)
MakeEntry(s, name) ==
  IF Ok(s) THEN Fail(s, "exists")
  ELSE IF s.err # "not_found" THEN s
  ELSE Then(dir_alloc_file(Fail(s, "none")),
            LAMBDA t : [file_flush(Put(t, t.slot, name), Root) EXCEPT !.slot = t.slot])

(***************************************************************************)
(* "/" is the root itself; every other path has one element here.          *)
(***************************************************************************)
walk_path(s, name) ==
  IF name = 0 THEN [s EXCEPT !.slot = Root] ELSE dir_lookup(s, name)

file_create(s, name) == MakeEntry(walk_path(s, name), name)

fs_sync(s) == FoldLeft(flush_block, s, Span(1, NBLOCKS))

-----------------------------------------------------------------------------
(* Requests.  The next one is served when the flushes of the last are      *)
(* done.  Once old contents have become a directory entry they are sizes   *)
(* and block numbers to the server: nothing is claimed of what it does     *)
(* from then on, and the model ends with the request.                      *)

Serve(s, makesDurable) ==
  /\ out = <<>> /\ ~panicked /\ ~stale
  /\ mem' = s.mem /\ dirty' = s.dirty /\ out' = s.out
  /\ panicked' = (s.err = "panic") /\ stale' = s.stale
  /\ written' = s.written
  /\ flushed' = IF Ok(s) THEN makesDurable ELSE {}
  /\ durable' = durable \cap s.written
  /\ UNCHANGED <<disk, crashes>>

(* Pointers that lead somewhere, and the entries of the directory. *)
Valid(image, slots) == {l \in slots : image[l[1]][l[2]] \in 1 .. NBLOCKS - 1}

InodeSlots(f) == {f_direct(f, n) : n \in 0 .. NDIRECT - 1} \cup {f_indirect(f)}

IndirectSlots(image, f) ==
  IF Valid(image, {f_indirect(f)}) = {} THEN {}
  ELSE {image[f[1]][f[2] + 2 + NDIRECT]} \X (0 .. NINDIRECT - 1)

DataSlots(image, f) ==
  {f_direct(f, n) : n \in 0 .. NDIRECT - 1} \cup IndirectSlots(image, f)

DirBlocks(image) == {image[l[1]][l[2]] : l \in Valid(image, DataSlots(image, Root))}

Files(image) ==
  {f \in DirBlocks(image) \X {j * FSZ : j \in 0 .. BLKFILES - 1} :
     image[f[1]][f[2]] # FreeEntry}

(***************************************************************************)
(* serve_open, with O_CREAT and O_TRUNC.  (With O_EXCL as well a file that *)
(* exists is an error after the same look-up.)  The last step of the code  *)
(* looks the file up again.                                                *)
(***************************************************************************)
OrFound(s) == IF s.err = "exists" THEN Fail(s, "none") ELSE s

Open(name, creat, trunc) ==
  Serve(Then(Then(IF creat THEN OrFound(file_create(Begin, name))
                  ELSE walk_path(Begin, name),
                  LAMBDA s : IF trunc THEN file_set_size(s, s.slot, 0) ELSE s),
             LAMBDA s : walk_path(s, name)), {})

Read(f, offset, count) == Serve(file_read(Begin, f, offset, count), {})
Write(f, offset, count) == Serve(file_write(Begin, f, offset, count), {})
SetSize(f, size) == Serve(file_set_size(Begin, f, size), {})
Flush(f) ==
  Serve(file_flush(Begin, f), {w \in written : w[1] = mem[f[1]][f[2]]})
Sync == Serve(fs_sync(Begin), written)

(***************************************************************************)
(* cfi_flash_write: a block reaches the disk as a whole.                   *)
(***************************************************************************)
DiskWrite ==
  /\ out # <<>>
  /\ disk' = [disk EXCEPT ![Head(out)[1]] = Head(out)[2]]
  /\ out' = Tail(out)
  /\ UNCHANGED <<mem, dirty, panicked, stale, crashes, ghosts>>

FlushDone ==
  /\ out = <<>> /\ flushed # {}
  /\ durable' = durable \cup flushed /\ flushed' = {}
  /\ UNCHANGED <<mem, dirty, out, disk, panicked, stale, crashes, written>>

(***************************************************************************)
(* The machine stops and starts again: what the cache held is gone.        *)
(***************************************************************************)
Crash ==
  /\ ~stale /\ crashes < MaxCrashes /\ crashes' = crashes + 1
  /\ \/ RestartAnyImage
     \/ \A f \in Files(disk) : disk[f[1]][f[2] + 2 + NDIRECT] = 0
  /\ mem' = disk /\ dirty' = {} /\ out' = <<>> /\ panicked' = FALSE
  /\ written' = durable /\ flushed' = {}
  /\ UNCHANGED <<disk, durable, stale>>

-----------------------------------------------------------------------------
(***************************************************************************)
(* An image made by fsformat with no file on it.                           *)
(***************************************************************************)
Image ==
  [b \in Blocks |->
     IF b = Bitmap THEN [i \in Blocks |-> IF i > Bitmap THEN 1 ELSE 0]
     ELSE Cleared]

Init ==
  /\ disk = Image /\ mem = disk /\ dirty = {} /\ out = <<>>
  /\ panicked = FALSE /\ stale = FALSE /\ crashes = 0
  /\ written = {} /\ flushed = {} /\ durable = {}

MayEdit(f) == f # Root \/ MayEditRoot

Next ==
  \/ \E n \in Names \cup {0}, creat, trunc \in BOOLEAN :
       (trunc => n # 0 \/ MayEditRoot) /\ Open(n, creat, trunc)
  \/ \E f \in Files(mem) \cup {Root} :
       \/ \E x \in Extents : /\ x[1] = mem[f[1]][f[2]]
                             /\ \/ Read(f, x[2], x[3])
                                \/ MayEdit(f) /\ Write(f, x[2], x[3])
       \/ \E z \in Sizes : MayEdit(f) /\ SetSize(f, z)
       \/ Flush(f)
  \/ Sync \/ DiskWrite \/ FlushDone \/ Crash

Spec == Init /\ [][Next]_vars

-----------------------------------------------------------------------------
(* Properties. *)

(* Types of the two images and of the flushes in between.                  *)
TypeOK ==
  /\ \A b \in Blocks \ {Bitmap} : \A i \in 0 .. BLKSIZE - 1 :
       mem[b][i] \in Nat /\ disk[b][i] \in Nat
  /\ \A i \in Blocks : mem[Bitmap][i] \in {0, 1} /\ disk[Bitmap][i] \in {0, 1}
  /\ dirty \subseteq Blocks \ {0}
  /\ \A k \in 1 .. Len(out) : out[k][1] \in Blocks \ {0}
  /\ panicked \in BOOLEAN /\ stale \in BOOLEAN /\ crashes \in 0 .. MaxCrashes

(* The directory is whole, in the cache and on the disk, after a failed    *)
(* create (dir_alloc_file has raised the size before it knows whether      *)
(* there is a block) and at whatever moment the machine stops in the       *)
(* middle of one: its size is a multiple of the block size, as dir_lookup  *)
(* and dir_alloc_file assert, and on the disk each of its blocks is there  *)
(* with a name in its first entry, or an error code stands in its place:   *)
(* file_flush writes the block before the inode that leads to it.          *)
DirWhole ==
  /\ mem[Super][1] % BLKSIZE = 0 /\ disk[Super][1] % BLKSIZE = 0
  /\ \A n \in 0 .. NDIRECT - 1 :
       n < disk[Super][1] \div BLKSIZE =>
         LET b == disk[Super][2 + n]
         IN b = BadBlock \/ (b \in Blocks \ {0} /\ disk[b][0] \in Names)

AllSlots(image) ==
  UNION {InodeSlots(f) \cup IndirectSlots(image, f) : f \in Files(image) \cup {Root}}

Targets(image, slots) == {image[l[1]][l[2]] : l \in Valid(image, slots)}

NoSharing(image, slots) ==
  \A l, m \in Valid(image, slots) :
    l # m => image[l[1]][l[2]] # image[m[1]][m[2]]

(* Every block in use belongs to exactly one pointer of one file, whatever *)
(* was written, cut off, extended or refused for want of space             *)
(* (alloc_block, free_block, file_truncate_blocks): none is owned twice or *)
(* free while owned, none is kept beyond the end of its file, and until a  *)
(* crash none is lost.  (Nothing is said once the directory has grown into *)
(* old contents.)                                                          *)
BitmapExact ==
  stale \/
  LET used == Blocks \ Free(mem)
      owned == Targets(mem, AllSlots(mem)) \cup {0, Super, Bitmap}
  IN /\ NoSharing(mem, AllSlots(mem))
     /\ owned \subseteq used
     /\ crashes = 0 => used = owned
     /\ \A f \in Files(mem) \cup {Root} : panicked \/ \A n \in 0 .. NDIRECT + NINDIRECT - 1 :
          LET l == IF n < NDIRECT THEN f_direct(f, n)
                   ELSE <<mem[f[1]][f[2] + 2 + NDIRECT], n - NDIRECT>>
          IN l \in Valid(mem, DataSlots(mem, f)) => n < NBlocks(mem[f[1]][f[2] + 1])

(* At whatever moment the machine stops, no inode on the disk points to a  *)
(* block that the disk's bitmap calls free or that another inode on the    *)
(* disk has: alloc_block flushes the bitmap before the pointer is stored,  *)
(* and file_set_size flushes the inode before a freed block is used again. *)
(* (Until the directory has grown into old contents.)                      *)
DiskSafe ==
  stale \/
  LET slots == UNION {InodeSlots(f) : f \in Files(disk) \cup {Root}}
  IN NoSharing(disk, slots) /\ Targets(disk, slots) \cap Free(disk) = {}

(* The word at position p of the file named n of an image, or -1.          *)
ReadWord(image, n, p) ==
  LET fs == {f \in Files(image) : image[f[1]][f[2]] = n}
      f == CHOOSE x \in fs : TRUE
      k == p \div BLKSIZE
      slot == IF k < NDIRECT THEN f_direct(f, k)
              ELSE <<image[f[1]][f[2] + 2 + NDIRECT], k - NDIRECT>>
      b == image[slot[1]][slot[2]]
  IN IF Cardinality(fs) # 1 \/ p >= image[f[1]][f[2] + 1] THEN -1
     ELSE IF slot[1] \notin 1 .. NBLOCKS - 1 \/ b \notin 1 .. NBLOCKS - 1 THEN -1
     ELSE image[b][p % BLKSIZE]

(* file_read finds at every position what file_write put there, as long as *)
(* the file was not cut off before it.  (A position is always written with *)
(* the same value: words that end up in the wrong place, file or block are *)
(* told apart, an old and a new value of one word are not.)                *)
ReadsBack ==
  panicked \/ stale \/ \A w \in written : ReadWord(mem, w[1], w[2]) = Datum(w[1], w[2])

(* What was written before a flush (the close of a descriptor) or a sync   *)
(* that completed is found on the disk, through the directory, the inode   *)
(* and the indirect block on the disk, if the machine stops at any later   *)
(* moment (file_flush, fs_sync, file_create).                              *)
Durable ==
  \A w \in durable : ReadWord(disk, w[1], w[2]) = Datum(w[1], w[2])


(* The disk being full is an error that is returned: file_get_block says   *)
(* "-E_NO_DISK if a block needed to be allocated but the disk is full".    *)
NeverPanics == ~panicked

(* A file is created empty: dir_alloc_file finds "a free File structure".  *)
NewFileEmpty ==
  [][\A f \in Files(mem') \ Files(mem) : crashes' = crashes =>
       mem'[f[1]][f[2] + 1] = 0]_vars
=============================================================================
