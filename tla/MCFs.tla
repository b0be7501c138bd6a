-------------------------------- MODULE MCFs --------------------------------
(***************************************************************************)
(* An instance of Fs with one directory entry in a block.  File 1 lives    *)
(* behind its indirect block with a hole before it and fills the disk of   *)
(* four blocks with its entry; file 2 has one block.  The directory grows  *)
(* for the second create whatever the disk is like then: empty, full, or   *)
(* with the old data of a truncated file on it.                            *)
(***************************************************************************)
EXTENDS Fs

TwoFiles == {<<1, 5, 6>>, <<2, 0, 5>>, <<0, 0, 10>>}

(***************************************************************************)
(* What is in a block that is not the bitmap, an inode or an indirect      *)
(* block decides nothing but what reads return, and the dirty bit of a     *)
(* free block nothing but a write of it: two states are the same if they   *)
(* agree on all the rest, on what has been written and flushed, and on     *)
(* whether it reads back.  Whether a block is clear is kept, for the        *)
(* directory to grow into.                                                 *)
(***************************************************************************)
Inodes(image) == Files(image) \cup {Root}

Meta(image) ==
  <<image[Bitmap],
    {<<l, image[l[1]][l[2]]>> :
       l \in AllSlots(image) \cup Inodes(image) \cup {f_size(f) : f \in Inodes(image)}}>>

MetaBlocks ==
  {Super, Bitmap} \cup DirBlocks(mem)
  \cup {l[1] : l \in UNION {IndirectSlots(mem, f) : f \in Inodes(mem)}}

Clear(image) == {b \in Blocks : image[b] = Cleared}

UpToData ==
  <<Meta(mem), Meta(disk), Clear(mem), Clear(disk), dirty \ Free(mem),
    [k \in 1 .. Len(out) |-> IF out[k][1] \in MetaBlocks THEN out[k]
                             ELSE <<out[k][1], out[k][2] = Cleared>>],
    panicked, stale, crashes, ghosts, ReadsBack, Durable>>
=============================================================================
