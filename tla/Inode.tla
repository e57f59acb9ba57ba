------------------------------- MODULE Inode -------------------------------
(***************************************************************************)
(* The inode cache of fs.c with the system calls of sysfile.c, exec.c and  *)
(* file.c that take and drop references to inodes, on top of the           *)
(* transactions of log.c (whose promise, AtomicDisk, appears here as disk  *)
(* and stable).                                                            *)
(*                                                                         *)
(* A step is one critical section: everything a process does under         *)
(* icache.lock, or to an inode that it holds locked (I_BUSY) up to its     *)
(* iunlock().  A process that runs namex(), ilock() or iput() remembers in *)
(* k where to go on.  What is abstracted: a directory is a map from names  *)
(* to inode numbers, the contents of files are left to BlockMap.           *)
(***************************************************************************)
EXTENDS Integers, Sequences, FiniteSets, FiniteSetsExt

CONSTANTS
    Proc,       \* processes
    NINODE,     \* entries of the inode cache
    NINUM,      \* inodes on the disk
    NFILE,      \* entries of the file table
    Name,       \* names other than "." and ".."
    Calls,      \* Calls[p]: the system calls that p makes, see Syscall
    MaxCalls,   \* bound: MaxCalls[p] is how many p makes
    MaxCrashes  \* bound: crashes

ASSUME InodeAssumption ==
    /\ IsFiniteSet(Proc) /\ Proc # {}
    /\ NINODE \in Nat \ {0} /\ NFILE \in Nat
    /\ \A p \in Proc : \A c \in Calls[p] :
          c.op \in {"creat", "mkdir", "mknod", "unlink", "link", "open", "chdir",
                   "exec", "retprt"}

VARIABLES
    icache,     \* icache.inode[]
    disk,       \* inodes, directories and bitmap as bread() returns them
    stable,     \* the same as of the last commit: what a crash leaves
    trans,      \* the process between begin_trans() and commit_trans()
    th,         \* what each process is doing in the kernel
    sleeping,   \* the processes in sleep(ip, &icache.lock)
    cwd,        \* proc->cwd: a slot of icache, 0 for an unused process
    ofile,      \* proc->ofile[], one descriptor per process
    ftable,     \* ftable.file[]: reference count and inode
    foreign,    \* history: somebody wrote inside another's transaction
    stale,      \* history: inodes taken by an entry of the root that was gone
    panicked,   \* the argument of panic(), "" while the kernel runs
    calls, crashes

vars == <<icache, disk, stable, trans, th, sleeping, cwd, ofile, ftable,
          foreign, stale, panicked, calls, crashes>>

Inum == 1 .. NINUM
ROOTINO == 1
Slot == 1 .. NINODE
File == 1 .. NFILE
NoProc == "none"
Elem == Name \cup {".", ".."}
NoSlot == [inum |-> 0, ref |-> 0, busy |-> FALSE, valid |-> FALSE,
           type |-> "none", nlink |-> 0]
NoFile == [ref |-> 0, ip |-> 0]
Idle == [pc |-> "idle", op |-> "none", path |-> <<>>, to |-> <<>>,
         wr |-> FALSE, cur |-> 0, ip |-> 0, dp |-> 0, pt |-> 0, lk |-> 0,
         ino |-> 0, k |-> "idle", aft |-> "idle"]

NoEntries == [n \in Elem |-> 0]
Dots(i, parent) == [NoEntries EXCEPT !["."] = i, ![".."] = parent]

(* The disk that mkfs writes: a root directory that is its own parent.     *)
Mkfs == [type  |-> [i \in Inum |-> IF i = ROOTINO THEN "dir" ELSE "none"],
         nlink |-> [i \in Inum |-> IF i = ROOTINO THEN 1 ELSE 0],
         ents  |-> [i \in Inum |-> IF i = ROOTINO THEN Dots(i, i)
                                   ELSE NoEntries],
         used  |-> {ROOTINO}]

(* userinit() gives the first process the root directory, and its first    *)
(* exec() has locked it and kept another reference.                        *)
InitProc == CHOOSE p \in Proc : TRUE

RootSlot(d) == [inum |-> ROOTINO, ref |-> 2, busy |-> FALSE, valid |-> TRUE,
                type |-> "dir", nlink |-> d.nlink[ROOTINO]]

BootCache(d) == [s \in Slot |-> IF s = 1 THEN RootSlot(d) ELSE NoSlot]
BootCwd == [p \in Proc |-> IF p = InitProc THEN 1 ELSE 0]

Init ==
    /\ icache = BootCache(Mkfs) /\ cwd = BootCwd
    /\ disk = Mkfs /\ stable = Mkfs
    /\ trans = NoProc
    /\ th = [p \in Proc |-> Idle] /\ sleeping = {}
    /\ ofile = [p \in Proc |-> 0] /\ ftable = [f \in File |-> NoFile]
    /\ foreign = FALSE /\ stale = {}
    /\ panicked = "" /\ calls = [p \in Proc |-> 0] /\ crashes = 0

-----------------------------------------------------------------------------
(* Moving on                                                               *)

io == <<disk, stable, trans, foreign>>
procs == <<cwd, ofile, ftable>>
bounds == <<stale, panicked, calls, crashes>>

Count(p) ==
    /\ calls[p] < MaxCalls[p]
    /\ calls' = [calls EXCEPT ![p] = @ + 1]
    /\ UNCHANGED <<stale, panicked, crashes>>

At(p, pc) == panicked = "" /\ th[p].pc = pc /\ p \notin sleeping

(* p goes on as t, and leaves the inode cache as c after it has called     *)
(* wakeup() for the slots in woken.                                        *)
Goto(p, t) == th' = [th EXCEPT ![p] = t]
Step(p, t, c, woken) ==
    /\ Goto(p, t)
    /\ icache' = c
    /\ sleeping' = {q \in sleeping : th[q].lk \notin woken}
    /\ UNCHANGED bounds

Panic(why) ==
    /\ panicked' = why
    /\ UNCHANGED <<icache, th, sleeping, io, procs, stale, calls, crashes>>

(* ilock(s), iput(s), and what follows them; iput() of the two local       *)
(* variables of the system calls.                                          *)
ThenLock(t, s, k) == [t EXCEPT !.pc = "ilock", !.lk = s, !.k = k]
ThenPut(t, s, k) == [t EXCEPT !.pc = "iput", !.pt = s, !.k = k]
PutIp(t, k) == ThenPut([t EXCEPT !.ip = 0], t.ip, k)
PutDp(t, k) == ThenPut([t EXCEPT !.dp = 0], t.dp, k)

(* iget(): the slot that holds inode i, else the first free one.           *)
Caching(i) == {s \in Slot : icache[s].ref > 0 /\ icache[s].inum = i}
Free == {s \in Slot : icache[s].ref = 0}
HasSlot(i) == Caching(i) \cup Free # {}
SlotOf(i) == IF Caching(i) # {} THEN CHOOSE s \in Caching(i) : TRUE
                                ELSE Min(Free)
Iget(i) == IF Caching(i) # {} THEN [icache EXCEPT ![SlotOf(i)].ref = @ + 1]
           ELSE [icache EXCEPT ![SlotOf(i)] = [NoSlot EXCEPT !.inum = i, !.ref = 1]]

(* Mutant: idup() forgets to count.                                        *)
idupUncounted(s) == icache

idup(s) == [icache EXCEPT ![s].ref = @ + 1]

iunlock(c, s) == [c EXCEPT ![s].busy = FALSE]

(* log_write() by p: it cannot tell whose transaction it is in.  Here the  *)
(* owner is not in the middle of a log_write() or commit_trans() of its    *)
(* own; when it is, see LogRace.                                           *)
LogWrite(p, d) ==
    /\ trans # NoProc
    /\ disk' = d
    /\ foreign' = (foreign \/ trans # p)
    /\ UNCHANGED <<stable, trans>>

inum(s) == icache[s].inum

(* The inode in slot s gets n links, in memory and by iupdate() on disk.   *)
Links(c, s, n) == [c EXCEPT ![s].nlink = n]
LinksOnDisk(d, s, n) == [d EXCEPT !.nlink[inum(s)] = n]

-----------------------------------------------------------------------------
(* Path names                                                              *)

(* nameiparent() or namei().                                               *)
Creates(op) == op \in {"creat", "mkdir", "mknod"}
Parent(op) == Creates(op) \/ op \in {"unlink", "link2"}

(* What the caller of namex() does with the inode it returns ...           *)
Found(t, s) ==
    LET u == IF Parent(t.op) THEN [t EXCEPT !.cur = 0, !.dp = s]
                             ELSE [t EXCEPT !.cur = 0, !.ip = s]
    IN  CASE Creates(t.op)               -> ThenLock(u, s, "create")
          [] t.op \in {"unlink", "link"} -> [u EXCEPT !.pc = "begin"]
          [] OTHER                       -> ThenLock(u, s, t.op)

(* ... and when there is none.                                             *)
Missing(t) ==
    CASE Creates(t.op)  -> [t EXCEPT !.pc = "commit"]
      [] t.op = "link2" -> ThenLock(t, t.ip, "linkbad")
      [] t.op = "exec"  -> [t EXCEPT !.pc = "execroot"]
      [] OTHER          -> Idle

(* The loop of namex(), at inode s with the rest of the path to go.        *)
Walk(t, s, path) ==
    IF path # <<>> THEN ThenLock([t EXCEPT !.cur = s, !.path = path], s, "look")
    ELSE IF Parent(t.op) THEN ThenPut([t EXCEPT !.cur = 0], s, "missing")
    ELSE Found(t, s)

NamexStart(p) ==
    /\ At(p, "namex")
    /\ IF Head(th[p].path) = "/"
       THEN /\ HasSlot(ROOTINO)
            /\ Step(p, Walk(th[p], SlotOf(ROOTINO), Tail(th[p].path)),
                    Iget(ROOTINO), {})
       ELSE Step(p, Walk(th[p], cwd[p], th[p].path), idup(cwd[p]), {})
    /\ UNCHANGED <<io, procs>>

(* One turn of the loop, with the directory locked: dirlookup() and the    *)
(* iunlock() that every branch ends with.                                  *)
Look(p) ==
    LET t == th[p]
        s == t.cur
        i == disk.ents[inum(s)][Head(t.path)]
    IN  /\ At(p, "look")
        /\ \/ /\ icache[s].type = "dir"
              /\ Parent(t.op) /\ Len(t.path) = 1
              /\ Step(p, Found(t, s), iunlock(icache, s), {s})
           \/ /\ icache[s].type # "dir" \/ i = 0
              /\ ~ (icache[s].type = "dir" /\ Parent(t.op) /\ Len(t.path) = 1)
              /\ Step(p, ThenPut([t EXCEPT !.cur = 0], s, "missing"),
                      iunlock(icache, s), {s})
           \/ /\ icache[s].type = "dir" /\ i # 0
              /\ ~ (Parent(t.op) /\ Len(t.path) = 1)
              /\ HasSlot(i)
              /\ Step(p, ThenPut([t EXCEPT !.cur = SlotOf(i), !.path = Tail(@)], s, "walk"),
                      iunlock(Iget(i), s), {s})
        /\ UNCHANGED <<io, procs>>

(* Where a process goes on after iput().                                   *)
Resume(t) ==
    LET u == [t EXCEPT !.pt = 0]
    IN  CASE t.k = "walk"    -> Walk(u, t.cur, t.path)
          [] t.k = "missing" -> Missing(u)
          [] t.k = "lockold" -> ThenLock(u, t.ip, "createold")
          [] t.k = "lockbad" -> ThenLock(u, t.ip, "linkbad")
          [] t.k = "putip"   -> PutIp(u, "commit")
          [] t.k = "idle"    -> Idle
          [] OTHER           -> [u EXCEPT !.pc = t.k]

-----------------------------------------------------------------------------
(* Locks and references                                                    *)

Loaded(s) == IF icache[s].valid THEN icache[s]
             ELSE [icache[s] EXCEPT !.valid = TRUE, !.type = disk.type[inum(s)],
                                    !.nlink = disk.nlink[inum(s)]]

Ilock(p) ==
    LET s == th[p].lk IN
    /\ At(p, "ilock")
    /\ ~ icache[s].busy
    /\ Loaded(s).type # "none"
    /\ Step(p, [th[p] EXCEPT !.pc = th[p].k],
            [icache EXCEPT ![s] = [Loaded(s) EXCEPT !.busy = TRUE]], {})
    /\ UNCHANGED <<io, procs>>

IlockSleep(p) ==
    /\ At(p, "ilock")
    /\ icache[th[p].lk].busy
    /\ sleeping' = sleeping \cup {p}
    /\ UNCHANGED <<icache, th, io, procs, bounds>>

IlockPanic(p) ==
    /\ At(p, "ilock")
    /\ ~ icache[th[p].lk].busy
    /\ Loaded(th[p].lk).type = "none"
    /\ Panic("ilock: no type")

(* Mutant: iput() does not look at ref.                                    *)
LastOfUnlinkedAnyRef(s) == icache[s].valid /\ icache[s].nlink = 0

LastOfUnlinked(s) == icache[s].ref = 1 /\ icache[s].valid /\ icache[s].nlink = 0

Dropped(c, s) == IF c[s].ref = 1 THEN [c EXCEPT ![s] = NoSlot]
                 ELSE [c EXCEPT ![s].ref = @ - 1]

(* iput() of a reference that is not the last one to an unlinked inode.    *)
Iput(p) ==
    LET s == th[p].pt IN
    /\ At(p, "iput")
    /\ ~ LastOfUnlinked(s)
    /\ Step(p, Resume(th[p]), Dropped(icache, s), {})
    /\ UNCHANGED <<io, procs>>

(* Otherwise it locks the inode, lets go of icache.lock, ...               *)
IputLast(p) ==
    LET s == th[p].pt IN
    /\ At(p, "iput")
    /\ LastOfUnlinked(s)
    /\ Step(p, [th[p] EXCEPT !.pc = "itrunc"], [icache EXCEPT ![s].busy = TRUE], {})
    /\ UNCHANGED <<io, procs>>

(* ... frees the blocks of the inode (the first log_write() may panic), ...*)
Itrunc(p) ==
    /\ At(p, "itrunc")
    /\ LogWrite(p, [disk EXCEPT !.used = @ \ {inum(th[p].pt)}])
    /\ Step(p, [th[p] EXCEPT !.pc = "ifree"], icache, {})
    /\ UNCHANGED procs

(* ... then the inode itself, ...                                          *)
FreeInode(d, i) == [d EXCEPT !.type[i] = "none", !.nlink[i] = 0,
                             !.ents[i] = NoEntries]

Ifree(p) ==
    /\ At(p, "ifree")
    /\ LogWrite(p, FreeInode(disk, inum(th[p].pt)))
    /\ Step(p, [th[p] EXCEPT !.pc = "iputend"], icache, {})
    /\ UNCHANGED procs

(* ... and takes icache.lock again to clear the flags and drop ref.        *)
IputEnd(p) ==
    LET s == th[p].pt IN
    /\ At(p, "iputend")
    /\ Step(p, Resume(th[p]),
            Dropped([icache EXCEPT ![s].busy = FALSE, ![s].valid = FALSE,
                                   ![s].type = "none"], s), {s})
    /\ UNCHANGED <<io, procs>>

LogWritePanic(p) ==
    /\ At(p, "itrunc") \/ At(p, "ifree")
    /\ trans = NoProc
    /\ Panic("write outside of trans")

(* log_write() and commit_trans() use log.lh without a lock: when the      *)
(* owner of the transaction is in one of them at the same time, an entry   *)
(* of the log may be overwritten, left out of the header or installed      *)
(* without being in it.  What is on the disk from then on is undefined,    *)
(* and the model goes no further.  (Not a panic of the kernel.)            *)
LogRace(p) ==
    /\ At(p, "itrunc") \/ At(p, "ifree")
    /\ trans \notin {NoProc, p}
    /\ Panic("log.lh")

Begin(p) ==
    LET t == th[p] IN
    /\ At(p, "begin")
    /\ trans = NoProc
    /\ trans' = p
    /\ Step(p, CASE Creates(t.op)   -> [t EXCEPT !.pc = "namex"]
                 [] t.op = "unlink" -> ThenLock(t, t.dp, "unlink")
                 [] t.op = "link"   -> ThenLock(t, t.ip, "link")
                 [] t.op = "write"  -> ThenLock(t, ftable[ofile[p]].ip, "used")
                 [] t.op = "close"  -> PutIp(t, "commit"),
            icache, {})
    /\ UNCHANGED <<disk, stable, foreign, procs>>

Commit(p) ==
    /\ At(p, "commit")
    /\ trans' = NoProc
    /\ stable' = disk
    /\ Step(p, IF th[p].aft = "idle" THEN Idle ELSE [th[p] EXCEPT !.pc = th[p].aft],
            icache, {})
    /\ UNCHANGED <<disk, foreign, procs>>

-----------------------------------------------------------------------------
(* System calls on path names                                              *)

(* A process traps into the kernel with one of Calls.  exec() and          *)
(* sys_retprt() take a reference to the root first.                        *)
Syscall(p) ==
    /\ At(p, "idle") /\ cwd[p] # 0
    /\ \E c \in Calls[p] :
          Goto(p, [Idle EXCEPT !.pc = IF Creates(c.op) THEN "begin"
                                      ELSE IF c.op \in {"exec", "retprt"} THEN "root"
                                      ELSE "namex",
                               !.op = c.op, !.path = c.path, !.to = c.to, !.wr = c.wr])
    /\ Count(p)
    /\ UNCHANGED <<icache, sleeping, io, procs>>

(* create(), with the parent locked: the name exists ...                   *)
CreateFound(p) ==
    LET t == th[p]
        i == disk.ents[inum(t.dp)][Head(t.path)]
    IN  /\ At(p, "create")
        /\ i # 0 /\ HasSlot(i)
        /\ Step(p, PutDp([t EXCEPT !.ip = SlotOf(i)], "lockold"),
                iunlock(Iget(i), t.dp), {t.dp})
        /\ UNCHANGED <<io, procs>>

CreateOld(p) ==
    LET t == th[p] IN
    /\ At(p, "createold")
    /\ IF t.op = "creat" /\ icache[t.ip].type = "file"
       THEN Step(p, [t EXCEPT !.pc = "commit", !.aft = "opened"], icache, {})
       ELSE Step(p, PutIp(t, "commit"), iunlock(icache, t.ip), {t.ip})
    /\ UNCHANGED <<io, procs>>

(* ... or it does not, and ialloc() takes the first free inode.            *)
FreeInums == {i \in Inum : disk.type[i] = "none"}
TypeOf(op) == CASE op = "creat" -> "file" [] op = "mkdir" -> "dir"
                [] op = "mknod" -> "dev"

Ialloc(p) ==
    LET t == th[p]
        i == Min(FreeInums)
    IN  /\ At(p, "create")
        /\ disk.ents[inum(t.dp)][Head(t.path)] = 0
        /\ FreeInums # {} /\ HasSlot(i)
        /\ LogWrite(p, [disk EXCEPT !.type[i] = TypeOf(t.op)])
        /\ Step(p, ThenLock([t EXCEPT !.ip = SlotOf(i)], SlotOf(i), "createnew"),
                Iget(i), {})
        /\ UNCHANGED procs

IallocPanic(p) ==
    /\ At(p, "create")
    /\ disk.ents[inum(th[p].dp)][Head(th[p].path)] = 0
    /\ FreeInums = {}
    /\ Panic("ialloc: no inodes")

(* Mutant: the block of a new directory is not marked in the bitmap.       *)
EnteredUnmarked(t, up) ==
    LET i == inum(t.ip)
        d == inum(t.dp)
    IN  [disk EXCEPT !.nlink[i] = 1, !.nlink[d] = up,
                     !.ents[i] = IF t.op = "mkdir" THEN Dots(i, d) ELSE NoEntries,
                     !.ents[d][Head(t.path)] = i]

(* The disk with the new inode, its dots and its name in the parent.       *)
Entered(t, up) ==
    LET i == inum(t.ip)
        d == inum(t.dp)
        dir == t.op = "mkdir"
    IN  [disk EXCEPT !.nlink[i] = 1, !.nlink[d] = up,
                     !.ents[i] = IF dir THEN Dots(i, d) ELSE NoEntries,
                     !.ents[d][Head(t.path)] = i,
                     !.used = IF dir THEN @ \cup {i} ELSE @]

CreateNew(p) ==
    LET t == th[p]
        up == icache[t.dp].nlink + (IF t.op = "mkdir" THEN 1 ELSE 0)
    IN  /\ At(p, "createnew")
        /\ LogWrite(p, Entered(t, up))
        /\ Step(p, IF t.op = "creat" THEN PutDp([t EXCEPT !.aft = "opened"], "commit")
                   ELSE PutDp(t, "made"),
                iunlock(Links(Links(icache, t.ip, 1), t.dp, up), t.dp), {t.dp})
        /\ UNCHANGED procs

(* sys_mkdir() and sys_mknod() drop the new inode before they commit.      *)
Made(p) ==
    LET t == th[p] IN
    /\ At(p, "made")
    /\ Step(p, PutIp(t, "commit"), iunlock(icache, t.ip), {t.ip})
    /\ UNCHANGED <<io, procs>>

(* The end of sys_open(), with the inode locked, after create() or namei():*)
(* a file and a descriptor, or iunlockput() outside of any transaction.    *)
FreeFiles == {f \in File : ftable[f].ref = 0}

SysOpen(p) ==
    LET t == th[p] IN
    /\ At(p, "opened") \/ At(p, "open")
    /\ IF /\ ~ (t.pc = "open" /\ t.wr /\ icache[t.ip].type = "dir")
          /\ FreeFiles # {} /\ ofile[p] = 0
       THEN /\ ftable' = [ftable EXCEPT ![Min(FreeFiles)] = [ref |-> 1, ip |-> t.ip]]
            /\ ofile' = [ofile EXCEPT ![p] = Min(FreeFiles)]
            /\ Step(p, Idle, iunlock(icache, t.ip), {t.ip})
       ELSE /\ UNCHANGED <<ftable, ofile>>
            /\ Step(p, PutIp(t, "idle"), iunlock(icache, t.ip), {t.ip})
    /\ UNCHANGED <<cwd, io>>

(* Mutant: the error path of sys_unlink() unlocks without iput().          *)
SysUnlinkBadKeeps(p) ==
    LET t == th[p] IN
    /\ \/ At(p, "unlinkbad")
       \/ /\ At(p, "unlink")
          /\ \/ Head(t.path) \in {".", ".."}
             \/ disk.ents[inum(t.dp)][Head(t.path)] = 0
    /\ Step(p, [t EXCEPT !.dp = 0, !.pc = "commit"], iunlock(icache, t.dp), {t.dp})
    /\ UNCHANGED <<io, procs>>

SysUnlinkBad(p) ==
    LET t == th[p] IN
    /\ \/ At(p, "unlinkbad")
       \/ /\ At(p, "unlink")
          /\ \/ Head(t.path) \in {".", ".."}
             \/ disk.ents[inum(t.dp)][Head(t.path)] = 0
    /\ Step(p, PutDp(t, "commit"), iunlock(icache, t.dp), {t.dp})
    /\ UNCHANGED <<io, procs>>

SysUnlink(p) ==
    LET t == th[p]
        i == disk.ents[inum(t.dp)][Head(t.path)]
    IN  /\ At(p, "unlink")
        /\ Head(t.path) \notin {".", ".."} /\ i # 0 /\ HasSlot(i)
        /\ Step(p, ThenLock([t EXCEPT !.ip = SlotOf(i)], SlotOf(i), "erase"), Iget(i), {})
        /\ UNCHANGED <<io, procs>>

isdirempty(i) == \A n \in Name : disk.ents[i][n] = 0

(* With both locked: the entry is erased and the parent released ...       *)
SysUnlinkErase(p) ==
    LET t == th[p]
        dir == icache[t.ip].type = "dir"
        up == icache[t.dp].nlink - (IF dir THEN 1 ELSE 0)
    IN  /\ At(p, "erase")
        /\ IF dir /\ ~ isdirempty(inum(t.ip))
           THEN /\ Step(p, PutIp(t, "unlinkbad"), iunlock(icache, t.ip), {t.ip})
                /\ UNCHANGED io
           ELSE /\ LogWrite(p, [LinksOnDisk(disk, t.dp, up) EXCEPT
                                  !.ents[inum(t.dp)][Head(t.path)] = 0])
                /\ Step(p, PutDp(t, "unlinked"),
                        iunlock(Links(icache, t.dp, up), t.dp), {t.dp})
        /\ UNCHANGED procs

(* ... before the inode loses its link.                                    *)
SysUnlinkDrop(p) ==
    LET t == th[p]
        n == icache[t.ip].nlink - 1
    IN  /\ At(p, "unlinked")
        /\ LogWrite(p, LinksOnDisk(disk, t.ip, n))
        /\ Step(p, PutIp(t, "commit"),
                iunlock(Links(icache, t.ip, n), t.ip), {t.ip})
        /\ UNCHANGED procs

SysLink(p) ==
    LET t == th[p]
        n == icache[t.ip].nlink + 1
    IN  /\ At(p, "link")
        /\ IF icache[t.ip].type = "dir"
           THEN /\ Step(p, PutIp(t, "commit"), iunlock(icache, t.ip), {t.ip})
                /\ UNCHANGED io
           ELSE /\ LogWrite(p, LinksOnDisk(disk, t.ip, n))
                /\ Step(p, [t EXCEPT !.pc = "namex", !.op = "link2", !.path = t.to],
                        iunlock(Links(icache, t.ip, n), t.ip), {t.ip})
        /\ UNCHANGED procs

(* dirlink() in the locked parent; the reference that its dirlookup()      *)
(* takes to a name that exists is dropped at once.                         *)
SysLinkEnter(p) ==
    LET t == th[p]
        d == inum(t.dp)
        c == iunlock(icache, t.dp)
    IN  /\ At(p, "link2")
        /\ IF disk.ents[d][Head(t.path)] # 0
           THEN /\ HasSlot(disk.ents[d][Head(t.path)])
                /\ Step(p, PutDp(t, "lockbad"), c, {t.dp})
                /\ UNCHANGED io
           ELSE /\ LogWrite(p, [disk EXCEPT !.ents[d][Head(t.path)] = inum(t.ip)])
                /\ Step(p, PutDp(t, "putip"), c, {t.dp})
        /\ UNCHANGED procs

(* Mutant: a failed sys_link() keeps the link it counted.                  *)
SysLinkBadKeeps(p) ==
    LET t == th[p] IN
    /\ At(p, "linkbad")
    /\ Step(p, PutIp(t, "commit"), iunlock(icache, t.ip), {t.ip})
    /\ UNCHANGED <<io, procs>>

SysLinkBad(p) ==
    LET t == th[p]
        n == icache[t.ip].nlink - 1
    IN  /\ At(p, "linkbad")
        /\ LogWrite(p, LinksOnDisk(disk, t.ip, n))
        /\ Step(p, PutIp(t, "commit"),
                iunlock(Links(icache, t.ip, n), t.ip), {t.ip})
        /\ UNCHANGED procs

(* The old directory is put outside of any transaction.                    *)
SysChdir(p) ==
    LET t == th[p] IN
    /\ At(p, "chdir")
    /\ IF icache[t.ip].type = "dir"
       THEN /\ cwd' = [cwd EXCEPT ![p] = t.ip]
            /\ Step(p, ThenPut([t EXCEPT !.ip = 0], cwd[p], "idle"),
                    iunlock(icache, t.ip), {t.ip})
       ELSE /\ UNCHANGED cwd
            /\ Step(p, PutIp(t, "idle"), iunlock(icache, t.ip), {t.ip})
    /\ UNCHANGED <<ofile, ftable, io>>

(* namei("/") in exec(), which keeps the reference for ever, and in        *)
(* sys_retprt(), which keeps it unless the root is the new directory.      *)
Root(p) ==
    LET t == th[p]
        s == SlotOf(ROOTINO)
    IN  /\ At(p, "root")
        /\ HasSlot(ROOTINO)
        /\ \/ /\ t.op = "exec"
              /\ Goto(p, [t EXCEPT !.pc = "namex", !.to = t.path])
              /\ UNCHANGED cwd
           \/ /\ t.op = "retprt" /\ t.path = <<>>
              /\ cwd' = [cwd EXCEPT ![p] = s]
              /\ Goto(p, ThenPut(t, cwd[p], "idle"))
           \/ /\ t.op = "retprt" /\ t.path # <<>>
              /\ Goto(p, [t EXCEPT !.pc = "retprt"])
              /\ UNCHANGED cwd
        /\ icache' = Iget(ROOTINO)
        /\ UNCHANGED <<sleeping, ofile, ftable, io, bounds>>

(* dirlookup(root, ...) of a name without the lock on the root: the entry  *)
(* is read, and may be gone by the time of the iget().                     *)
Taken(i, name) == stale' = IF disk.ents[ROOTINO][name] = i THEN stale ELSE stale \cup {i}

ExecRoot(p) ==
    LET t == th[p]
        i == IF Len(t.to) = 1 THEN disk.ents[ROOTINO][Head(t.to)] ELSE 0
    IN  /\ At(p, "execroot")
        /\ Step(p, IF i = 0 THEN Idle ELSE [t EXCEPT !.pc = "execget", !.ino = i], icache, {})
        /\ UNCHANGED <<io, procs>>

ExecGet(p) ==
    LET t == th[p] IN
    /\ At(p, "execget") /\ HasSlot(t.ino)
    /\ Goto(p, ThenLock([t EXCEPT !.ip = SlotOf(t.ino)], SlotOf(t.ino), "exec"))
    /\ icache' = Iget(t.ino)
    /\ Taken(t.ino, Head(t.to))
    /\ UNCHANGED <<sleeping, io, procs, panicked, calls, crashes>>

(* exec() reads the program and lets go of it outside of any transaction.  *)
Exec(p) ==
    LET t == th[p] IN
    /\ At(p, "exec")
    /\ Step(p, PutIp(t, "idle"), iunlock(icache, t.ip), {t.ip})
    /\ UNCHANGED <<io, procs>>

SysRetprt(p) ==
    LET t == th[p]
        i == disk.ents[ROOTINO][Head(t.path)]
    IN  /\ At(p, "retprt")
        /\ Step(p, IF i = 0 THEN Idle ELSE [t EXCEPT !.pc = "retget", !.ino = i], icache, {})
        /\ UNCHANGED <<io, procs>>

RetprtGet(p) ==
    LET t == th[p] IN
    /\ At(p, "retget") /\ HasSlot(t.ino)
    /\ cwd' = [cwd EXCEPT ![p] = SlotOf(t.ino)]
    /\ Goto(p, ThenPut(t, cwd[p], "idle"))
    /\ icache' = Iget(t.ino)
    /\ Taken(t.ino, Head(t.path))
    /\ UNCHANGED <<sleeping, ofile, ftable, io, panicked, calls, crashes>>

(* The inode that the next iget() of p asks for, 0 if it does not call it. *)
Gets(p) ==
    LET t == th[p]
        entry(i, path) == disk.ents[i][Head(path)]
    IN  CASE t.pc = "root" -> ROOTINO
          [] t.pc = "namex" -> IF Head(t.path) = "/" THEN ROOTINO ELSE 0
          [] t.pc = "look" -> IF Parent(t.op) /\ Len(t.path) = 1 THEN 0
                              ELSE entry(inum(t.cur), t.path)
          [] t.pc \in {"unlink", "link2"} -> entry(inum(t.dp), t.path)
          [] t.pc = "create" -> IF entry(inum(t.dp), t.path) # 0 THEN entry(inum(t.dp), t.path)
                                ELSE IF FreeInums = {} THEN 0 ELSE Min(FreeInums)
          [] t.pc \in {"execget", "retget"} -> t.ino
          [] OTHER -> 0

IgetPanic(p) ==
    /\ At(p, th[p].pc)
    /\ Gets(p) # 0 /\ ~ HasSlot(Gets(p))
    /\ Panic("iget: no inodes")

-----------------------------------------------------------------------------
(* Descriptors and processes                                               *)

(* fileclose(): the last reference puts the inode, in a transaction.       *)
SysClose(p) ==
    LET f == ofile[p] IN
    /\ At(p, "idle") /\ f # 0
    /\ ofile' = [ofile EXCEPT ![p] = 0]
    /\ IF ftable[f].ref > 1
       THEN /\ ftable' = [ftable EXCEPT ![f].ref = @ - 1]
            /\ UNCHANGED th
       ELSE /\ ftable' = [ftable EXCEPT ![f] = NoFile]
            /\ Goto(p, [th[p] EXCEPT !.pc = "begin", !.op = "close", !.ip = ftable[f].ip])
    /\ Count(p)
    /\ UNCHANGED <<icache, sleeping, cwd, io>>

(* filestat() and fileread(); filewrite() does the same in a transaction.  *)
SysRead(p) ==
    /\ At(p, "idle") /\ ofile[p] # 0
    /\ Goto(p, ThenLock(th[p], ftable[ofile[p]].ip, "used"))
    /\ Count(p)
    /\ UNCHANGED <<icache, sleeping, io, procs>>

SysWrite(p) ==
    /\ At(p, "idle") /\ ofile[p] # 0
    /\ Goto(p, [th[p] EXCEPT !.pc = "begin", !.op = "write"])
    /\ Count(p)
    /\ UNCHANGED <<icache, sleeping, io, procs>>

Used(p) ==
    LET t == th[p] IN
    /\ At(p, "used")
    /\ Step(p, IF t.op = "write" THEN [t EXCEPT !.pc = "commit"] ELSE Idle,
            iunlock(icache, t.lk), {t.lk})
    /\ UNCHANGED <<io, procs>>

Fork(p, q) ==
    /\ At(p, "idle") /\ cwd[p] # 0
    /\ cwd[q] = 0 /\ th[q] = Idle
    /\ cwd' = [cwd EXCEPT ![q] = cwd[p]]
    /\ ofile' = [ofile EXCEPT ![q] = ofile[p]]
    /\ ftable' = IF ofile[p] = 0 THEN ftable
                 ELSE [ftable EXCEPT ![ofile[p]].ref = @ + 1]
    /\ icache' = idup(cwd[p])
    /\ Count(p)
    /\ UNCHANGED <<th, sleeping, io>>

(* exit() has closed the files (SysClose) and puts the directory, outside  *)
(* of any transaction.                                                     *)
Exit(p) ==
    /\ At(p, "idle") /\ cwd[p] # 0 /\ ofile[p] = 0 /\ p # InitProc
    /\ cwd' = [cwd EXCEPT ![p] = 0]
    /\ Goto(p, ThenPut(th[p], cwd[p], "idle"))
    /\ Count(p)
    /\ UNCHANGED <<icache, sleeping, ofile, ftable, io>>

(* A crash loses everything but the disk as of the last commit.            *)
Crash ==
    /\ panicked = "" /\ crashes < MaxCrashes
    /\ crashes' = crashes + 1
    /\ icache' = BootCache(stable) /\ cwd' = BootCwd
    /\ disk' = stable
    /\ trans' = NoProc
    /\ th' = [p \in Proc |-> Idle] /\ sleeping' = {}
    /\ ofile' = [p \in Proc |-> 0] /\ ftable' = [f \in File |-> NoFile]
    /\ stale' = {}
    /\ UNCHANGED <<stable, foreign, panicked, calls>>

(* panic() stops every CPU; user programs may stop making calls.           *)
Rest ==
    /\ panicked # "" \/ \A p \in Proc : th[p].pc = "idle"
    /\ UNCHANGED vars

NameStep(p) == NamexStart(p) \/ Look(p) \/ Ilock(p) \/ IlockSleep(p) \/ IlockPanic(p)
PutStep(p) == \/ Iput(p) \/ IputLast(p) \/ Itrunc(p) \/ Ifree(p) \/ IputEnd(p)
              \/ LogWritePanic(p) \/ LogRace(p) \/ IgetPanic(p)
CreateStep(p) == \/ CreateFound(p) \/ CreateOld(p) \/ Ialloc(p) \/ IallocPanic(p)
                 \/ CreateNew(p) \/ Made(p) \/ SysOpen(p)
LinkStep(p) == \/ SysUnlink(p) \/ SysUnlinkBad(p) \/ SysUnlinkErase(p)
               \/ SysUnlinkDrop(p) \/ SysLink(p) \/ SysLinkEnter(p) \/ SysLinkBad(p)
ExecStep(p) == \/ SysChdir(p) \/ Root(p) \/ ExecRoot(p) \/ ExecGet(p) \/ Exec(p)
               \/ SysRetprt(p) \/ RetprtGet(p)
Kernel(p) == \/ NameStep(p) \/ PutStep(p) \/ CreateStep(p) \/ LinkStep(p)
             \/ ExecStep(p) \/ Begin(p) \/ Commit(p) \/ Used(p)
User(p) == \/ Syscall(p) \/ SysClose(p) \/ SysRead(p) \/ SysWrite(p) \/ Exit(p)
           \/ \E q \in Proc : Fork(p, q)

Next == (\E p \in Proc : Kernel(p) \/ User(p)) \/ Crash \/ Rest

Spec == Init /\ [][Next]_vars

-----------------------------------------------------------------------------
(* Properties                                                              *)

(* ip->ref is the number of in-memory pointers to the entry (fs.c says so  *)
(* of open files, current directories and, here, local variables); only    *)
(* exec() and sys_retprt() lose references, and only to the root.          *)
Pointers(s) ==
      Cardinality({p \in Proc : cwd[p] = s})
    + Cardinality({f \in File : ftable[f].ip = s})
    + Cardinality({p \in Proc : th[p].cur = s}) + Cardinality({p \in Proc : th[p].ip = s})
    + Cardinality({p \in Proc : th[p].dp = s}) + Cardinality({p \in Proc : th[p].pt = s})

RefExact ==
    /\ \A f \in File : ftable[f].ref = Cardinality({p \in Proc : ofile[p] = f})
    /\ \A s \in Slot : \/ icache[s].ref = Pointers(s)
                       \/ inum(s) = ROOTINO /\ icache[s].ref > Pointers(s)

(* ilock() and iput() are only called for an inode in use.                 *)
RefsHeld ==
    \A p \in Proc : /\ th[p].pc = "ilock" => icache[th[p].lk].ref > 0
                    /\ th[p].pc = "iput" => icache[th[p].pt].ref > 0

(* The checks that fs.c and sysfile.c make with panic() hold whenever a    *)
(* process reaches them: ilock() of an inode in use, iput() of the last    *)
(* reference to an unlocked inode, dirlookup() in a directory, unlink()    *)
(* of something that has a link.  (The panics that can be reached are the  *)
(* actions of those names.)                                                *)
AssertionsHold ==
    /\ RefsHeld
    /\ \A p \in Proc :
        LET t == th[p] IN
        /\ t.pc = "iput" /\ LastOfUnlinked(t.pt) => ~ icache[t.pt].busy
        /\ t.pc \in {"create", "unlink", "link2"} => icache[t.dp].type = "dir"
        /\ t.pc = "erase" => icache[t.ip].nlink > 0
        /\ t.pc \in {"execroot", "retprt"} => icache[SlotOf(ROOTINO)].type = "dir"

(* What a crash leaves on the disk are the names after some number of      *)
(* whole operations, Namespace, also when iput() writes into another's     *)
(* transaction, as long as its log_write() does not overlap with one of    *)
(* the owner or with its commit_trans() (LogRace).                         *)
NS == INSTANCE Namespace WITH
          fs <- [type |-> stable.type, nlink |-> stable.nlink, ents |-> stable.ents]

WholeOperations == NS!Spec

(* Every inode on that disk has at least one link for each name, "."       *)
(* excepted, by which a directory of the tree refers to it, so that no     *)
(* name of the tree can come to refer to a free inode (up to a LogRace)    *)
(* ...                                                                     *)
LinksCover == NS!Covered(stable)

(* ... and the blocks of every directory are marked in the bitmap, unless  *)
(* an iput() outside a transaction was committed half way by another one.  *)
BlocksOwned == foreign \/ \A i \in Inum : stable.type[i] = "dir" => i \in stable.used

(* What a crash leaves is a sound disk.                                    *)
DiskSound == LinksCover /\ BlocksOwned

(* itrunc() is only reached for an inode that is no open file and no       *)
(* current directory and that the tree does not name, unless exec() or     *)
(* sys_retprt(), which look into the root without its lock, took the inode *)
(* by an entry that was gone.                                              *)
FreedUnused ==
    \A p \in Proc :
        th[p].pc \in {"itrunc", "ifree"} =>
            \/ inum(th[p].pt) \in stale
            \/ /\ \A q \in Proc : cwd[q] # th[p].pt
               /\ \A f \in File : ftable[f].ip # th[p].pt
               /\ inum(th[p].pt) \notin NS!Reachable(disk)
=============================================================================
