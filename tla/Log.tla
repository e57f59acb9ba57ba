-------------------------------- MODULE Log --------------------------------
(***************************************************************************)
(* The write-ahead log (log.c): transactions of several processes, the     *)
(* commit, the installation of a committed transaction at its home         *)
(* locations, and recovery after a crash at any point.                     *)
(*                                                                         *)
(* A sector write is atomic; every bwrite() that the code issues is a step *)
(* of its own, so a crash can fall between any two of them.  The buffer    *)
(* cache appears as buf, what bread() returns, and pinned, the buffers     *)
(* with B_DIRTY set, which the cache must not recycle.                     *)
(***************************************************************************)
EXTENDS Integers

CONSTANTS Proc,       \* processes that run transactions
          Sector,     \* home sectors, disjoint from the log's own sectors
          Data,       \* contents of a sector
          Blank,      \* the contents mkfs gives to a log block
          NoSector,   \* an unused entry of the header
          NoProc,     \* nobody
          LOGSIZE,    \* entries of the header's sector array
          LogBlocks,  \* log.size: the header and the log blocks
          MaxCrashes  \* bound on the number of crashes in a behaviour

ASSUME LogAssumption ==
  /\ LOGSIZE \in Nat \ {0}
  /\ LogBlocks \in Nat \ {0}
  /\ MaxCrashes \in Nat
  /\ Blank \in Data
  /\ NoSector \notin Sector
  /\ NoProc \notin Proc

VARIABLES
  disk,      \* on disk: the home sectors
  dlog,      \* on disk: the log blocks log.start+1, log.start+2, ...
  dhead,     \* on disk: the header block
  buf,       \* in memory: contents of the cached home sectors
  pinned,    \* in memory: the home sectors whose buffer is B_DIRTY
  lh,        \* in memory: log.lh
  busy,      \* in memory: log.busy
  tail,      \* in memory: install_trans()'s loop counter
  pc,        \* where each process is
  sys,       \* "boot", "recover" (in recover_from_log), "up" or "panic"
  crashes    \* how many crashes there were

disks == <<disk, dlog, dhead>>
caches == <<buf, pinned>>
vars == <<disk, dlog, dhead, buf, pinned, lh, busy, tail, pc, sys, crashes>>

Slot == 1 .. LogBlocks - 1
Header == [n : 0 .. LOGSIZE, sector : [1 .. LOGSIZE -> Sector \cup {NoSector}]]
Location == {"out", "begin", "asleep", "in", "install", "end"}

ZeroHeader == [n |-> 0, sector |-> [i \in 1 .. LOGSIZE |-> NoSector]]

(* The loops of read_head() and write_head(): only n entries are copied.  The *)
(* mutant stops one entry early.                                              *)
CopyHeaderShort(from, to) ==
  [n |-> from.n,
   sector |-> [i \in 1 .. LOGSIZE |-> IF i < from.n THEN from.sector[i] ELSE to.sector[i]]]

CopyHeader(from, to) ==
  [n |-> from.n,
   sector |-> [i \in 1 .. LOGSIZE |-> IF i <= from.n THEN from.sector[i] ELSE to.sector[i]]]

Logged(h) == {h.sector[i] : i \in 1 .. h.n}

(* mkfs leaves an empty log. *)
Init ==
  /\ disk \in [Sector -> Data]
  /\ dlog = [i \in Slot |-> Blank]
  /\ dhead = ZeroHeader
  /\ buf = disk
  /\ pinned = {}
  /\ lh = ZeroHeader
  /\ busy = FALSE
  /\ tail = 0
  /\ pc = [p \in Proc |-> "out"]
  /\ sys = "boot"
  /\ crashes = 0

-----------------------------------------------------------------------------
(* One iteration of install_trans(): copy a log block to its home.  bwrite() *)
(* clears B_DIRTY.  The mutant's loop does not advance.                      *)
InstallOneStuck ==
  /\ tail < lh.n
  /\ disk' = [disk EXCEPT ![lh.sector[tail + 1]] = dlog[tail + 1]]
  /\ buf' = disk'
  /\ UNCHANGED <<pinned, tail, dlog, dhead, lh, busy, crashes>>

InstallOne ==
  /\ tail < lh.n
  /\ disk' = [disk EXCEPT ![lh.sector[tail + 1]] = dlog[tail + 1]]
  /\ buf' = [buf EXCEPT ![lh.sector[tail + 1]] = dlog[tail + 1]]
  /\ pinned' = pinned \ {lh.sector[tail + 1]}
  /\ tail' = tail + 1
  /\ UNCHANGED <<dlog, dhead, lh, busy, crashes>>

(* log.lh.n = 0; write_head() *)
Erase ==
  /\ tail = lh.n
  /\ lh' = [lh EXCEPT !.n = 0]
  /\ dhead' = CopyHeader(lh', dhead)
  /\ tail' = 0
  /\ UNCHANGED <<disk, dlog, caches, busy, crashes>>

(* recover_from_log(), run by the first process before any other exists.  The *)
(* mutant forgets read_head().                                                *)
ReadHeadForgotten ==
  /\ sys = "boot"
  /\ sys' = "recover"
  /\ UNCHANGED <<disks, caches, lh, busy, tail, pc, crashes>>

ReadHead ==
  /\ sys = "boot"
  /\ lh' = CopyHeader(dhead, lh)
  /\ sys' = "recover"
  /\ UNCHANGED <<disks, caches, busy, tail, pc, crashes>>

RecoverInstall ==
  /\ sys = "recover"
  /\ InstallOne
  /\ UNCHANGED <<pc, sys>>

RecoverErase ==
  /\ sys = "recover"
  /\ Erase
  /\ sys' = "up"
  /\ UNCHANGED pc

-----------------------------------------------------------------------------
(* begin_trans() from its test of log.busy to its return or its sleep *)
BeginTrans(p) ==
  /\ sys = "up"
  /\ pc[p] \in {"out", "begin"}
  /\ IF busy THEN pc' = [pc EXCEPT ![p] = "asleep"]
             ELSE pc' = [pc EXCEPT ![p] = "in"]
  /\ busy' = TRUE
  /\ UNCHANGED <<disks, caches, lh, tail, sys, crashes>>

(* kill() makes a sleeper runnable; the loop tests log.busy again. *)
Kill(p) ==
  /\ sys = "up"
  /\ pc[p] = "asleep"
  /\ pc' = [pc EXCEPT ![p] = "begin"]
  /\ UNCHANGED <<disks, caches, lh, busy, tail, sys, crashes>>

TooBig == lh.n >= LOGSIZE \/ lh.n >= LogBlocks - 1

(* The entry log_write() uses for s: the one it has (log absorption), or the *)
(* next.                                                                     *)
Entry(s) ==
  IF s \in Logged(lh) THEN CHOOSE i \in 1 .. lh.n : lh.sector[i] = s ELSE lh.n + 1

(* b->flags |= B_DIRTY keeps the buffer in the cache. *)
Pin(s) == pinned \cup {s}

(* The caller modifies b->data and calls log_write(b). *)
LogWrite(p, s, v) ==
  /\ sys = "up"
  /\ pc[p] = "in"
  /\ ~TooBig /\ busy
  /\ buf' = [buf EXCEPT ![s] = v]
  /\ dlog' = [dlog EXCEPT ![Entry(s)] = v]
  /\ lh' = [n |-> IF s \in Logged(lh) THEN lh.n ELSE lh.n + 1,
            sector |-> [lh.sector EXCEPT ![Entry(s)] = s]]
  /\ pinned' = Pin(s)
  /\ UNCHANGED <<disk, dhead, busy, tail, pc, sys, crashes>>

(* log_write()'s panics: the machine stops. *)
LogWritePanic(p) ==
  /\ sys = "up"
  /\ pc[p] = "in"
  /\ ~(~TooBig /\ busy)
  /\ sys' = "panic"
  /\ UNCHANGED <<disks, caches, lh, busy, tail, pc, crashes>>

(* commit_trans() up to its first write_head(), the commit *)
WriteHead(p) ==
  /\ sys = "up"
  /\ pc[p] = "in"
  /\ lh.n > 0
  /\ dhead' = CopyHeader(lh, dhead)
  /\ tail' = 0
  /\ pc' = [pc EXCEPT ![p] = "install"]
  /\ UNCHANGED <<disk, dlog, caches, lh, busy, sys, crashes>>

(* commit_trans() of a transaction that wrote nothing *)
CommitEmpty(p) ==
  /\ sys = "up"
  /\ pc[p] = "in"
  /\ lh.n = 0
  /\ pc' = [pc EXCEPT ![p] = "end"]
  /\ UNCHANGED <<disks, caches, lh, busy, tail, sys, crashes>>

CommitInstall(p) ==
  /\ sys = "up"
  /\ pc[p] = "install"
  /\ InstallOne
  /\ UNCHANGED <<pc, sys>>

CommitErase(p) ==
  /\ sys = "up"
  /\ pc[p] = "install"
  /\ Erase
  /\ pc' = [pc EXCEPT ![p] = "end"]
  /\ UNCHANGED sys

(* wakeup(&log) and the caller's return from commit_trans() *)
ReturnNoWakeup(p) == [pc EXCEPT ![p] = "out"]

ReturnAndWakeup(p) ==
  [q \in Proc |-> CASE q = p -> "out"
                    [] pc[q] = "asleep" -> "begin"
                    [] OTHER -> pc[q]]

(* the end of commit_trans() *)
EndTrans(p) ==
  /\ sys = "up"
  /\ pc[p] = "end"
  /\ busy' = FALSE
  /\ pc' = ReturnAndWakeup(p)
  /\ UNCHANGED <<disks, caches, lh, tail, sys, crashes>>

(* The machine loses its memory and boots; a panic ends the same way. *)
Crash ==
  /\ crashes < MaxCrashes
  /\ crashes' = crashes + 1
  /\ sys' = "boot"
  /\ buf' = disk
  /\ pinned' = {}
  /\ lh' = ZeroHeader
  /\ busy' = FALSE
  /\ tail' = 0
  /\ pc' = [p \in Proc |-> "out"]
  /\ UNCHANGED disks

(* panic() spins. *)
Spin == sys = "panic" /\ UNCHANGED vars

Step(p) ==
  \/ BeginTrans(p)
  \/ \E s \in Sector, v \in Data : LogWrite(p, s, v)
  \/ LogWritePanic(p)
  \/ WriteHead(p)
  \/ CommitEmpty(p)
  \/ CommitInstall(p)
  \/ CommitErase(p)
  \/ EndTrans(p)

Recovery == ReadHead \/ RecoverInstall \/ RecoverErase

Next ==
  \/ Recovery
  \/ \E p \in Proc : Step(p) \/ Kill(p)
  \/ Crash
  \/ Spin

Spec == Init /\ [][Next]_vars

(* Scheduling: recovery runs, a woken process runs, and a system call that  *)
(* opened a transaction goes on to commit it.  Nothing makes a process open *)
(* a transaction, and nothing makes the machine crash.                      *)
Progress(p) ==
  \/ WriteHead(p) \/ CommitEmpty(p) \/ CommitInstall(p) \/ CommitErase(p) \/ EndTrans(p)
  \/ pc[p] = "begin" /\ BeginTrans(p)

FairSpec ==
  /\ Spec
  /\ WF_vars(Recovery)
  /\ \A p \in Proc : WF_vars(Progress(p))

-----------------------------------------------------------------------------
TypeOK ==
  /\ disk \in [Sector -> Data]
  /\ dlog \in [Slot -> Data]
  /\ dhead \in Header
  /\ buf \in [Sector -> Data]
  /\ pinned \subseteq Sector
  /\ lh \in Header
  /\ busy \in BOOLEAN
  /\ tail \in 0 .. LOGSIZE
  /\ pc \in [Proc -> Location]
  /\ sys \in {"boot", "recover", "up", "panic"}
  /\ crashes \in 0 .. MaxCrashes

Inside == {"in", "install", "end"}

(* The entries of a header name distinct home sectors and have a log block. *)
GoodHeader(h) ==
  \A i \in 1 .. h.n :
    /\ i \in Slot
    /\ h.sector[i] \in Sector
    /\ \A j \in 1 .. h.n : h.sector[i] = h.sector[j] => i = j

(* The home sectors after the log blocks that header h lists are installed *)
Overlay(h, blocks, home) ==
  [s \in Sector |-> IF s \in Logged(h) THEN blocks[CHOOSE i \in 1 .. h.n : h.sector[i] = s]
                                     ELSE home[s]]

Applied(h) == Overlay(h, dlog, disk)

SameHeader ==
  /\ lh.n = dhead.n
  /\ \A i \in 1 .. lh.n : lh.sector[i] = dhead.sector[i]

(* The first tail blocks of the committed transaction are home. *)
InstalledPrefix ==
  /\ tail <= lh.n
  /\ \A i \in 1 .. tail : disk[lh.sector[i]] = dlog[i]

(* At most one process is inside a transaction, and then log.busy is set    *)
(* (log.c:13-14).                                                           *)
OneWriter ==
  /\ \A p, q \in Proc : pc[p] \in Inside /\ pc[q] \in Inside => p = q
  /\ busy <=> \E p \in Proc : pc[p] \in Inside

Booting ==
  sys \in {"boot", "recover"} =>
    /\ \A p \in Proc : pc[p] = "out"
    /\ buf = disk
    /\ pinned = {}
    /\ sys = "boot" => tail = 0
    /\ sys = "recover" => SameHeader /\ InstalledPrefix

Quiet ==
  (sys \in {"up", "panic"} /\ \A p \in Proc : pc[p] \notin {"in", "install"}) =>
    lh.n = 0 /\ dhead.n = 0 /\ pinned = {} /\ buf = disk

InCache ==
  /\ \A i \in 1 .. lh.n : buf[lh.sector[i]] = dlog[i]
  /\ \A s \in Sector \ Logged(lh) : buf[s] = disk[s]

Collecting ==
  \A p \in Proc : pc[p] = "in" => dhead.n = 0 /\ pinned = Logged(lh) /\ InCache

Installing ==
  \A p \in Proc : pc[p] = "install" =>
    /\ sys = "up" /\ SameHeader /\ InstalledPrefix /\ InCache
    /\ pinned = {lh.sector[i] : i \in tail + 1 .. lh.n}

(* The inductive invariant of the log: the on-disk header is empty except   *)
(* while one process (or recovery) installs the transaction it names, and   *)
(* in each phase the log blocks, the home sectors and the cached buffers    *)
(* agree as commit_trans() and install_trans() need.                        *)
LogInv ==
  /\ GoodHeader(dhead) /\ GoodHeader(lh)
  /\ OneWriter /\ Booting /\ Quiet /\ Collecting /\ Installing

(* A buffer that is not B_DIRTY can be recycled by bget() at any time: its  *)
(* contents are on disk (log.c:180 "prevent eviction").                     *)
EvictionSafe ==
  sys = "up" => \A s \in Sector \ pinned : buf[s] = disk[s]

(* Write-ahead rule: a home sector changes only when a header on disk       *)
(* already commits it, and then to the value its log block holds.           *)
WriteAhead ==
  [][\A s \in Sector : disk'[s] # disk[s] => s \in Logged(dhead) /\ disk'[s] = Applied(dhead)[s]]_vars

(* The log implements transactions that are atomic across crashes: a commit *)
(* takes effect in write_head(), "the true point at which the current       *)
(* transaction commits" (log.c:99-100).                                     *)
WriterIn(loc) ==
  IF \E p \in Proc : loc[p] \in Inside THEN CHOOSE p \in Proc : loc[p] \in Inside ELSE NoProc

View == IF sys \in {"boot", "recover"} THEN Applied(dhead) ELSE buf

AD == INSTANCE AtomicDisk WITH stable <- Applied(dhead), view <- View, writer <- WriterIn(pc)

Atomic == AD!DSpec

(* A process asleep in begin_trans() is woken when the transaction ends     *)
(* (log.c:146), unless the machine stops first.                             *)
SleepersWake ==
  \A p \in Proc : pc[p] = "asleep" ~> pc[p] # "asleep" \/ sys = "panic"

(* Recovery always completes, however often it is itself interrupted.       *)
RecoveryEnds == sys = "boot" ~> sys = "up"
=============================================================================
