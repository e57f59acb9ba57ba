-------------------------------- MODULE Bio --------------------------------
(***************************************************************************)
(* The buffer cache (bio.c) and the IDE driver with its request queue and  *)
(* interrupt (ide.c), used by several processes.                           *)
(*                                                                         *)
(* A step is what the code does while it holds bcache.lock or idelock, so  *)
(* steps of different processes and of the interrupt interleave wherever   *)
(* the code holds neither.  There is one device; b->dev is left out.       *)
(***************************************************************************)
EXTENDS Integers, Sequences, FiniteSets

CONSTANTS Proc,       \* processes (and their kernel threads)
          Buf,        \* the NBUF buffers
          Sector,
          Data,
          NoSector,   \* a buffer that was never used (dev = -1)
          NoProc,
          NoBuf,
          ReadErrors  \* can idewait(1) report an error?  {FALSE} or BOOLEAN

ASSUME BioAssumption ==
  /\ IsFiniteSet(Buf)
  /\ NoSector \notin Sector
  /\ NoProc \notin Proc
  /\ NoBuf \notin Buf
  /\ ReadErrors \subseteq BOOLEAN

VARIABLES
  place,   \* position of each buffer in the list, 1 for head.next
  sector,  \* b->sector
  flags,   \* b->flags
  data,    \* b->data
  queue,   \* idequeue
  disk,    \* contents of the drive
  drv,     \* the drive: "idle", "working" on the queue's head, or "done" with it
  pc,      \* where each process is
  want,    \* the sector a process in bget() looks for
  at,      \* the buffer a process holds, or sleeps on in bget()
  panicked

vars == <<place, sector, flags, data, queue, disk, drv, pc, want, at, panicked>>

Flag == {"B_BUSY", "B_VALID", "B_DIRTY"}
Location == {"idle", "bget", "bsleep", "rw", "rsleep", "rcheck", "have", "changed"}

(* binit(): the order of the fresh list does not matter. *)
Init ==
  /\ place \in [Buf -> 1 .. Cardinality(Buf)]
  /\ \A b, c \in Buf : place[b] = place[c] => b = c
  /\ sector = [b \in Buf |-> NoSector]
  /\ flags = [b \in Buf |-> {}]
  /\ data \in [Buf -> Data]
  /\ queue = <<>>
  /\ disk \in [Sector -> Data]
  /\ drv = "idle"
  /\ pc = [p \in Proc |-> "idle"]
  /\ want = [p \in Proc |-> NoSector]
  /\ at = [p \in Proc |-> NoBuf]
  /\ panicked = FALSE

bufs == <<place, sector, flags, data>>
drive == <<queue, disk, drv>>

(* wakeup(b): bget()'s and iderw()'s sleepers use the same channel.  The *)
(* mutant wakes the latter only.                                         *)
WakeupIderwOnly(b, loc) ==
  [p \in Proc |-> IF at[p] = b /\ loc[p] = "rsleep" THEN "rcheck" ELSE loc[p]]

Wakeup(b, loc) ==
  [p \in Proc |-> CASE at[p] = b /\ loc[p] = "bsleep" -> "bget"
                    [] at[p] = b /\ loc[p] = "rsleep" -> "rcheck"
                    [] OTHER -> loc[p]]

-----------------------------------------------------------------------------
(* bget(), from a scan of the list to the return or the sleep.  It is        *)
(* entered by bread() (from "idle") and again, from the start, after a sleep. *)
Enters(p, s) ==
  /\ ~panicked
  /\ \/ pc[p] = "idle"
     \/ pc[p] = "bget" /\ want[p] = s

(* The first loop of bget() finds no buffer. *)
Uncached(p, s) == \A c \in Buf : sector[c] # s

Take(p, s, b) ==
  /\ at' = [at EXCEPT ![p] = b]
  /\ want' = [want EXCEPT ![p] = NoSector]
  /\ pc' = [pc EXCEPT ![p] = IF "B_VALID" \in flags'[b] THEN "have" ELSE "rw"]

BgetHit(p, s, b) ==
  /\ Enters(p, s)
  /\ sector[b] = s
  /\ "B_BUSY" \notin flags[b]
  /\ flags' = [flags EXCEPT ![b] = @ \cup {"B_BUSY"}]
  /\ Take(p, s, b)
  /\ UNCHANGED <<place, sector, data, drive, panicked>>

BgetSleep(p, s, b) ==
  /\ Enters(p, s)
  /\ sector[b] = s
  /\ "B_BUSY" \in flags[b]
  /\ pc' = [pc EXCEPT ![p] = "bsleep"]
  /\ want' = [want EXCEPT ![p] = s]
  /\ at' = [at EXCEPT ![p] = b]
  /\ UNCHANGED <<bufs, drive, panicked>>

RecyclableDirty(b) == "B_BUSY" \notin flags[b]

Recyclable(b) == flags[b] \cap {"B_BUSY", "B_DIRTY"} = {}

(* b->flags = B_BUSY also clears B_VALID. *)
Recycled(b) == {"B_BUSY"}

(* The second loop of bget() takes the last recyclable buffer of the list. *)
BgetRecycle(p, s, b) ==
  /\ Enters(p, s)
  /\ Uncached(p, s)
  /\ Recyclable(b)
  /\ \A c \in Buf : Recyclable(c) => place[c] <= place[b]
  /\ sector' = [sector EXCEPT ![b] = s]
  /\ flags' = [flags EXCEPT ![b] = Recycled(b)]
  /\ Take(p, s, b)
  /\ UNCHANGED <<place, data, drive, panicked>>

(* panic("bget: no buffers") *)
BgetPanic(p, s) ==
  /\ Enters(p, s)
  /\ Uncached(p, s)
  /\ \A c \in Buf : ~Recyclable(c)
  /\ panicked' = TRUE
  /\ UNCHANGED <<bufs, drive, pc, want, at>>

-----------------------------------------------------------------------------
(* The condition of iderw()'s loop and of its "nothing to do" panic *)
InSync(b) == flags[b] \cap {"B_VALID", "B_DIRTY"} = {"B_VALID"}

(* iderw(): append to the queue and sleep; the request cannot finish before *)
(* idelock is released.  The drive is started when the queue was empty.  A  *)
(* panic stops the machine.                                                 *)
Iderw(p) ==
  /\ ~panicked
  /\ pc[p] = "rw"
  /\ panicked' = ("B_BUSY" \notin flags[at[p]] \/ InSync(at[p]))
  /\ queue' = Append(queue, at[p])
  /\ pc' = [pc EXCEPT ![p] = "rsleep"]
  /\ drv' = IF queue = <<>> THEN "working" ELSE drv
  /\ UNCHANGED <<bufs, disk, want, at>>

(* iderw()'s loop after a wakeup.  The mutant tests nothing. *)
IderwIf(p) ==
  /\ ~panicked
  /\ pc[p] = "rcheck"
  /\ pc' = [pc EXCEPT ![p] = "have"]
  /\ UNCHANGED <<bufs, drive, want, at, panicked>>

IderwCheck(p) ==
  /\ ~panicked
  /\ pc[p] = "rcheck"
  /\ pc' = [pc EXCEPT ![p] = IF InSync(at[p]) THEN "have" ELSE "rsleep"]
  /\ UNCHANGED <<bufs, drive, want, at, panicked>>

(* The drive finishes the command that idestart() gave it for the head of   *)
(* the queue; a write changes the medium.                                   *)
DriveDone ==
  /\ ~panicked
  /\ drv = "working"
  /\ disk' = IF "B_DIRTY" \in flags[Head(queue)]
             THEN [disk EXCEPT ![sector[Head(queue)]] = data[Head(queue)]]
             ELSE disk
  /\ drv' = "done"
  /\ UNCHANGED <<bufs, queue, pc, want, at, panicked>>

(* ideintr() sets B_VALID and clears B_DIRTY. *)
Transferred(b) == (flags[b] \cup {"B_VALID"}) \ {"B_DIRTY"}

StartNextNever(q) == "idle"

StartNext(q) == IF q = <<>> THEN "idle" ELSE "working"

(* ideintr(): finish the head of the queue and start the next request.      *)
Ideintr(err) ==
  /\ ~panicked
  /\ drv = "done"
  /\ LET b == Head(queue)
     IN /\ data' = IF "B_DIRTY" \in flags[b] \/ err THEN data ELSE [data EXCEPT ![b] = disk[sector[b]]]
        /\ flags' = [flags EXCEPT ![b] = Transferred(b)]
        /\ pc' = Wakeup(b, pc)
  /\ queue' = Tail(queue)
  /\ drv' = StartNext(Tail(queue))
  /\ UNCHANGED <<place, sector, disk, want, at, panicked>>

-----------------------------------------------------------------------------
MarkDirty(b) == [flags EXCEPT ![b] = @ \cup {"B_DIRTY"}]

(* The holder changes b->data and must then call bwrite() or log_write(). *)
Change(p, v) ==
  /\ ~panicked
  /\ pc[p] = "have"
  /\ data' = [data EXCEPT ![at[p]] = v]
  /\ pc' = [pc EXCEPT ![p] = "changed"]
  /\ UNCHANGED <<place, sector, flags, drive, want, at, panicked>>

(* bwrite() up to its call of iderw(); install_trans() also writes back a *)
(* pinned buffer that it has just read.                                   *)
Bwrite(p) ==
  /\ ~panicked
  /\ pc[p] \in {"changed", "have"}
  /\ flags' = MarkDirty(at[p])
  /\ pc' = [pc EXCEPT ![p] = "rw"]
  /\ UNCHANGED <<place, sector, data, drive, want, at, panicked>>

(* log_write() leaves the buffer B_DIRTY, to be written by the commit. *)
LogWrite(p) ==
  /\ ~panicked
  /\ pc[p] = "changed"
  /\ flags' = MarkDirty(at[p])
  /\ pc' = [pc EXCEPT ![p] = "have"]
  /\ UNCHANGED <<place, sector, data, drive, want, at, panicked>>

(* Unlink b and insert it after the head. *)
MoveToFront(b) ==
  [c \in Buf |-> CASE c = b -> 1
                   [] place[c] < place[b] -> place[c] + 1
                   [] OTHER -> place[c]]

Brelse(p) ==
  /\ ~panicked
  /\ pc[p] = "have"
  /\ place' = MoveToFront(at[p])
  /\ flags' = [flags EXCEPT ![at[p]] = @ \ {"B_BUSY"}]
  /\ pc' = [Wakeup(at[p], pc) EXCEPT ![p] = "idle"]
  /\ at' = [at EXCEPT ![p] = NoBuf]
  /\ UNCHANGED <<sector, data, drive, want, panicked>>

(* kill() wakes a sleeper; both loops test their condition again. *)
Kill(p) ==
  /\ ~panicked
  /\ pc[p] \in {"bsleep", "rsleep"}
  /\ pc' = [pc EXCEPT ![p] = IF @ = "bsleep" THEN "bget" ELSE "rcheck"]
  /\ UNCHANGED <<bufs, drive, want, at, panicked>>

Spin == panicked /\ UNCHANGED vars

Bget(p) ==
  \E s \in Sector :
    \/ \E b \in Buf : BgetHit(p, s, b) \/ BgetSleep(p, s, b) \/ BgetRecycle(p, s, b)
    \/ BgetPanic(p, s)

Step(p) ==
  \/ Bget(p) \/ Iderw(p) \/ IderwCheck(p) \/ Bwrite(p) \/ LogWrite(p) \/ Brelse(p)
  \/ \E v \in Data : Change(p, v)

Device == DriveDone \/ \E err \in ReadErrors : Ideintr(err)

Next == (\E p \in Proc : Step(p) \/ Kill(p)) \/ Device \/ Spin

Spec == Init /\ [][Next]_vars

(* Scheduling: the drive answers, the interrupt is delivered, runnable       *)
(* processes run, and kernel code that holds a buffer goes on until it       *)
(* releases it.                                                              *)
Progress(p) ==
  \/ pc[p] = "bget" /\ Bget(p)
  \/ Iderw(p) \/ IderwCheck(p)
  \/ pc[p] = "changed" /\ (Bwrite(p) \/ LogWrite(p))

FairSpec ==
  /\ Spec
  /\ WF_vars(Device)
  /\ \A p \in Proc : WF_vars(Progress(p)) /\ SF_vars(Brelse(p))

-----------------------------------------------------------------------------
TypeOK ==
  /\ place \in [Buf -> 1 .. Cardinality(Buf)]
  /\ sector \in [Buf -> Sector \cup {NoSector}]
  /\ flags \in [Buf -> SUBSET Flag]
  /\ data \in [Buf -> Data]
  /\ queue \in Seq(Buf)
  /\ disk \in [Sector -> Data]
  /\ drv \in {"idle", "working", "done"}
  /\ pc \in [Proc -> Location]
  /\ want \in [Proc -> Sector \cup {NoSector}]
  /\ at \in [Proc -> Buf \cup {NoBuf}]
  /\ panicked \in BOOLEAN

Holds(p) == pc[p] \in {"rw", "rsleep", "rcheck", "have", "changed"}

(* Every sector has at most one buffer: bget() scans and recycles without   *)
(* letting go of bcache.lock in between (bio.c:62-92).                      *)
OneBufPerSector ==
  \A b, c \in Buf : sector[b] = sector[c] /\ sector[b] # NoSector => b = c

(* "Only one process at a time can use a buffer" (bio.c:13), B_BUSY says     *)
(* exactly which buffers are in use, and a buffer in use has a sector.      *)
Exclusive ==
  /\ \A p \in Proc : Holds(p) => at[p] \in Buf /\ "B_BUSY" \in flags[at[p]]
  /\ \A p, q \in Proc : Holds(p) /\ Holds(q) /\ at[p] = at[q] => p = q
  /\ \A b \in Buf : "B_BUSY" \in flags[b] => \E p \in Proc : Holds(p) /\ at[p] = b

(* The request queue holds each buffer once, and exactly the buffers whose   *)
(* holder is inside iderw() and whose flags still ask for a transfer.       *)
Waiting(b) ==
  /\ ~InSync(b)
  /\ \E p \in Proc : at[p] = b /\ pc[p] \in {"rsleep", "rcheck"}

QueueExact ==
  /\ \A i, j \in 1 .. Len(queue) : queue[i] = queue[j] => i = j
  /\ \A b \in Buf : (\E i \in 1 .. Len(queue) : queue[i] = b) <=> Waiting(b)
  /\ drv = "idle" <=> queue = <<>>

(* No sleeper is forgotten: whoever sleeps in bget() sleeps on a buffer that *)
(* somebody will release, whoever sleeps in iderw() waits for a request that *)
(* is still queued.                                                         *)
NoLostWakeup ==
  \A p \in Proc :
    /\ pc[p] = "bsleep" => at[p] \in Buf /\ "B_BUSY" \in flags[at[p]] /\ sector[at[p]] = want[p]
    /\ pc[p] = "rsleep" => ~InSync(at[p])

FlagsInv ==
  /\ \A b \in Buf : flags[b] # {} => sector[b] # NoSector
  /\ \A b \in Buf : "B_DIRTY" \in flags[b] => "B_VALID" \in flags[b]
  /\ \A b \in Buf : sector[b] # NoSector => flags[b] \cap {"B_BUSY", "B_VALID"} # {}
  /\ \A p \in Proc : pc[p] \in {"have", "changed"} => "B_VALID" \in flags[at[p]]
  /\ \A p \in Proc : pc[p] = "rw" => ~InSync(at[p])
  /\ \A p \in Proc : pc[p] = "bget" => want[p] \in Sector

(* A clean buffer that nobody is changing holds what the disk holds, so     *)
(* recycling it loses nothing and a process that reads it sees the sector   *)
(* ("a B_BUSY buf with the contents of the indicated disk sector",          *)
(* bio.c:95).                                                               *)
Coherent ==
  /\ \A b \in Buf :
       /\ "B_VALID" \in flags[b]
       /\ "B_DIRTY" \notin flags[b]
       /\ \A p \in Proc : pc[p] = "changed" => at[p] # b
       => data[b] = disk[sector[b]]
  /\ drv = "done" /\ "B_DIRTY" \in flags[Head(queue)] => disk[sector[Head(queue)]] = data[Head(queue)]

(* The only panic is "bget: no buffers", with every buffer in use or pinned; *)
(* those of iderw() (ide.c:130-133) cannot happen.                          *)
OnlyNoBuffers == panicked => \A b \in Buf : ~Recyclable(b)

(* The cache and the driver agree: all of the above at once, while buffers  *)
(* are recycled, pinned, queued and waited for (bio.c, ide.c).              *)
BioInv ==
  /\ TypeOK /\ OneBufPerSector /\ Exclusive /\ QueueExact /\ NoLostWakeup /\ FlagsInv
  /\ OnlyNoBuffers /\ Coherent

(* The cache and the driver implement one current contents per sector:      *)
(* reads, write-backs and recycling never change what a process sees.       *)
Current ==
  [s \in Sector |->
     IF \E b \in Buf : sector[b] = s /\ "B_VALID" \in flags[b]
     THEN data[CHOOSE b \in Buf : sector[b] = s /\ "B_VALID" \in flags[b]]
     ELSE disk[s]]

Holder ==
  [s \in Sector |->
     IF \E p \in Proc : Holds(p) /\ sector[at[p]] = s
     THEN CHOOSE p \in Proc : Holds(p) /\ sector[at[p]] = s
     ELSE NoProc]

BS == INSTANCE BlockStore WITH val <- Current, holder <- Holder

OneContents == BS!SSpec

(* Every transfer completes: iderw() returns (ide.c:149-152).               *)
TransferEnds == \A p \in Proc : pc[p] = "rsleep" ~> pc[p] = "have" \/ panicked

(* Whoever waits in bget() for a buffer in use is woken (bio.c:135).        *)
WaiterWoken == \A p \in Proc : pc[p] = "bsleep" ~> pc[p] # "bsleep" \/ panicked
=============================================================================
