------------------------------ MODULE BlockMap ------------------------------
(***************************************************************************)
(* The contents of files: the block bitmap, bmap() with its indirect       *)
(* block, itrunc(), readi() and writei() of fs.c, on the disk that mkfs    *)
(* lays out.  Everything that changes it runs inside a transaction, one at *)
(* a time, so an operation is one step; Log and Inode model what comes     *)
(* between.  A byte is a member of Byte and an indirect block holds one    *)
(* block number per byte.                                                  *)
(***************************************************************************)
EXTENDS Integers, Sequences, SequencesExt, FiniteSetsExt

CONSTANTS
    Inode,      \* inodes; Root is the directory whose size mkfs rounds up
    Root,
    Byte,       \* what user programs write
    BSIZE, NDIRECT,
    NMETA,      \* boot block, super block, inodes and bitmap
    NBLOCKS,    \* data blocks
    NLOG,       \* log blocks
    LOGSIZE,    \* blocks that one transaction may change
    Sizes,      \* the bytes mkfs may append to the root and to a file
    MaxOps      \* bound on the operations of a behaviour

VARIABLES
    addrs,      \* ip->addrs[0 .. NDIRECT], 0 for no block
    size,       \* ip->size
    data,       \* the blocks
    mark,       \* the blocks whose bit is set in the bitmap
    dirty,      \* history: the blocks the last operation logged
    hole,       \* history: the block of the root mkfs counts but never wrote
    ops,        \* operations so far
    panicked

vars == <<addrs, size, data, mark, dirty, hole, ops, panicked>>

SIZE == NMETA + NBLOCKS + NLOG
Block == 0 .. SIZE - 1
NINDIRECT == BSIZE
MAXFILE == NDIRECT + NINDIRECT
Zeroed == [k \in 0 .. BSIZE - 1 |-> 0]

BitmapBlock == 0
InodeBlock == 1

(* An operation in progress on one inode: its addrs, the disk, the block   *)
(* last returned, and whether balloc() has found one every time.           *)
Work(i) == [addrs |-> addrs[i], data |-> data, mark |-> mark, addr |-> 0,
            log |-> {}, ok |-> TRUE]

BallocStale(w) ==
    LET free == Block \ w.mark
        b == Min(free)
    IN  IF free = {} THEN [w EXCEPT !.ok = FALSE]
        ELSE [w EXCEPT !.mark = @ \cup {b}, !.addr = b,
                       !.log = @ \cup {BitmapBlock, b}]

(* balloc(): the first block of the whole disk whose bit is clear, zeroed. *)
Balloc(w) ==
    LET free == Block \ w.mark
        b == Min(free)
    IN  IF free = {} THEN [w EXCEPT !.ok = FALSE]
        ELSE [w EXCEPT !.mark = @ \cup {b}, !.data[b] = Zeroed, !.addr = b,
                       !.log = @ \cup {BitmapBlock, b}]

(* An entry of addrs[], allocated if there is none.                        *)
Direct(w, n) ==
    IF w.addrs[n] # 0 THEN [w EXCEPT !.addr = w.addrs[n]]
    ELSE LET v == Balloc(w) IN [v EXCEPT !.addrs[n] = v.addr]

bmap(w, bn) ==
    IF bn < NDIRECT THEN Direct(w, bn)
    ELSE LET v == Direct(w, NDIRECT)
             a == v.addr
             u == Balloc(v)
         IN  IF v.data[a][bn - NDIRECT] # 0
             THEN [v EXCEPT !.addr = v.data[a][bn - NDIRECT]]
             ELSE [u EXCEPT !.data[a][bn - NDIRECT] = u.addr, !.log = @ \cup {a}]

(* The blocks of bytes off .. off + n - 1 in order.                        *)
Blocks(off, n) ==
    IF n = 0 THEN <<>>
    ELSE LET first == off \div BSIZE
         IN  [k \in 1 .. (off + n - 1) \div BSIZE - first + 1 |-> first + k - 1]

(* The loop of writei(), with v for every byte.                            *)
Writei(w, off, n, v) ==
    LET piece(u, bn) ==
            LET m == bmap(u, bn)
            IN  [m EXCEPT !.log = @ \cup {m.addr},
                          !.data[m.addr] =
                             [k \in 0 .. BSIZE - 1 |->
                                IF off <= bn * BSIZE + k /\ bn * BSIZE + k < off + n
                                THEN v ELSE @[k]]]
    IN  FoldLeft(piece, w, Blocks(off, n))

IndirectForgotten(i) == {}

(* itrunc(): every block of the inode, by way of the indirect block.       *)
Indirect(i) == IF addrs[i][NDIRECT] = 0 THEN {}
               ELSE {data[addrs[i][NDIRECT]][k] : k \in 0 .. NINDIRECT - 1} \ {0}
Owned(i) == ({addrs[i][n] : n \in 0 .. NDIRECT} \ {0}) \cup Indirect(i)

(* mkfs: iappend() of n bytes to an empty inode takes the next free blocks *)
(* in the order in which bmap() would.  The root comes first.              *)
Empty == [addrs |-> [n \in 0 .. NDIRECT |-> 0], data |-> [b \in Block |-> Zeroed],
          mark |-> 0 .. NMETA - 1, addr |-> 0, log |-> {}, ok |-> TRUE]
Iappend(w, n) == Writei([w EXCEPT !.addrs = Empty.addrs], 0, n, Min(Byte))

RoundedUp(n) == (n \div BSIZE + 1) * BSIZE

Init ==
    \E n \in Sizes, m \in Sizes :
       LET r == Iappend(Empty, n)
           f == Iappend(r, m)
       IN  /\ addrs = [i \in Inode |-> IF i = Root THEN r.addrs ELSE f.addrs]
           /\ size = [i \in Inode |-> IF i = Root THEN RoundedUp(n) ELSE m]
           /\ data = f.data
           /\ mark = f.mark
           /\ dirty = {}
           /\ hole = IF n % BSIZE = 0 THEN n \div BSIZE ELSE -1
           /\ ops = 0
           /\ panicked = ""

-----------------------------------------------------------------------------
Running == /\ panicked = "" /\ ops < MaxOps
           /\ ops' = ops + 1

Commit(i, w) ==
    /\ addrs' = [addrs EXCEPT ![i] = w.addrs]
    /\ data' = w.data
    /\ mark' = w.mark

Panic(why) ==
    /\ panicked' = why
    /\ UNCHANGED <<addrs, size, data, mark, dirty, hole>>

maxAligned == ((LOGSIZE - 1 - 1) \div 2) * BSIZE

(* filewrite() cuts a write into transactions of at most max bytes.        *)
max == ((LOGSIZE - 1 - 1 - 2) \div 2) * BSIZE

(* writei() within one of them; -1 past the end or past MAXFILE.  A        *)
(* directory is written an entry at a time.                                *)
Write(i, off, n, v) ==
    LET w == Writei(Work(i), off, n, v)
        grows == off + n > size[i]
    IN  /\ Running
        /\ i = Root => n = 1 /\ v = Min(Byte)
        /\ off <= size[i] /\ off + n <= MAXFILE * BSIZE
        /\ IF w.ok
           THEN /\ Commit(i, w)
                /\ size' = [size EXCEPT ![i] = IF grows THEN off + n ELSE @]
                /\ dirty' = w.log \cup (IF grows THEN {InodeBlock} ELSE {})
                /\ UNCHANGED <<hole, panicked>>
           ELSE Panic("balloc: out of blocks")

Itrunc(i) ==
    /\ Running /\ i # Root
    /\ addrs' = [addrs EXCEPT ![i] = Empty.addrs]
    /\ size' = [size EXCEPT ![i] = 0]
    /\ mark' = mark \ Owned(i)
    /\ dirty' = {BitmapBlock, InodeBlock}
    /\ UNCHANGED <<data, hole, panicked>>

(* readi() of a block that was never written: bmap() allocates it, which   *)
(* log_write() refuses to a reader outside of a transaction.               *)
Allocated(i, bn) ==
    IF bn < NDIRECT THEN addrs[i][bn] # 0
    ELSE /\ addrs[i][NDIRECT] # 0
         /\ data[addrs[i][NDIRECT]][bn - NDIRECT] # 0

Readi(i, bn) ==
    LET w == bmap(Work(i), bn) IN
    /\ Running
    /\ bn * BSIZE < size[i] /\ ~ Allocated(i, bn)
    /\ \/ Panic("write outside of trans")
       \/ /\ w.ok
          /\ Commit(i, w)
          /\ dirty' = w.log
          /\ UNCHANGED <<size, hole, panicked>>

Halted == (panicked # "" \/ ops = MaxOps) /\ UNCHANGED vars

Next ==
    \/ \E i \in Inode :
          \/ \E off \in 0 .. MAXFILE * BSIZE, n \in 1 .. max, v \in Byte :
                Write(i, off, n, v)
          \/ Itrunc(i)
          \/ \E bn \in 0 .. MAXFILE - 1 : Readi(i, bn)
    \/ Halted

Spec == Init /\ [][Next]_vars

-----------------------------------------------------------------------------
(* Properties                                                              *)

Places(i) == {n \in 0 .. NDIRECT : addrs[i][n] # 0} \cup
             {n \in NDIRECT + 1 .. MAXFILE : Allocated(i, n - 1)}

(* Every block that the bitmap marks is a block of metadata or stands at   *)
(* exactly one place of one file, and every block of a file is marked:     *)
(* balloc() and itrunc() share, leak and free twice nothing, whatever the  *)
(* order of writes and truncations.                                        *)
OneOwner ==
    /\ mark = 0 .. NMETA - 1 \cup UNION {Owned(i) : i \in Inode}
    /\ Cardinality(mark) = NMETA + MapThenSumSet(LAMBDA i : Cardinality(Places(i)), Inode)

(* The bytes of a file, by way of bmap(); a hole reads as zeros.           *)
At(i, k) ==
    LET bn == k \div BSIZE
        b == IF bn < NDIRECT THEN addrs[i][bn] ELSE data[addrs[i][NDIRECT]][bn - NDIRECT]
    IN  IF Allocated(i, bn) THEN data[b][k % BSIZE] ELSE 0

Flat == INSTANCE FlatFile WITH
           MaxBytes <- MAXFILE * BSIZE,
           file <- [i \in Inode |-> [k \in 1 .. size[i] |-> At(i, k - 1)]]

(* Through bmap(), the indirect block and the reuse of freed blocks, files *)
(* stay independent sequences of bytes: a write changes the bytes it       *)
(* names, extends at most to its end, and never shows old contents.        *)
IsFlat == Flat!Spec

(* Every log_write() of a chunk of filewrite() finds room in the log: the  *)
(* data blocks of an unaligned chunk, the bitmap, the indirect block, and  *)
(* after them the inode.                                                   *)
LogFits == Cardinality(dirty \ {InodeBlock}) < LOGSIZE - 1

(* bmap() allocates for a reader only in the block that mkfs counted in    *)
(* the size of the root without writing it.                                *)
NoHoles ==
    \A i \in Inode, bn \in 0 .. MAXFILE - 1 :
       bn * BSIZE < size[i] /\ ~ Allocated(i, bn) => i = Root /\ bn = hole

(* The blocks of a disk and the files on it account for each other, after  *)
(* any writes, truncations and reads: each block is free or has one owner, *)
(* and a file has every block its size says.                               *)
BlocksExact == OneOwner /\ NoHoles
=============================================================================
