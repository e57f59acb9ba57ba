------------------------------ MODULE SpinLock ------------------------------
(***************************************************************************)
(* Spin locks and interrupt masking (spinlock.c) with what makes them      *)
(* hard: interrupt handlers that take locks, and kernel threads that carry *)
(* ptable.lock through swtch() and resume on another CPU (proc.c, sched()  *)
(* and scheduler()).                                                       *)
(*                                                                         *)
(* A context is a kernel thread or the scheduler of a CPU, named by that   *)
(* CPU.  acquire() and release() are split where another CPU or an         *)
(* interrupt can come between; code after cli() on one CPU is disturbed    *)
(* by other CPUs only.                                                     *)
(***************************************************************************)
EXTENDS Integers, FiniteSets

CONSTANTS CPU,
          Thread,   \* kernel threads of processes
          Lock,     \* the spin locks
          ptable,   \* ptable.lock, the one that is held across swtch()
          Rank,     \* the order in which nested locks are taken
          NoLock,
          NoCPU

ASSUME SpinLockAssumption ==
  /\ CPU \cap Thread = {}
  /\ NoCPU \notin CPU
  /\ ptable \in Lock
  /\ NoLock \notin Lock
  /\ Rank \in [Lock -> Nat]

Ctx == Thread \cup CPU

VARIABLES
  locked,  \* lk->locked
  owner,   \* lk->cpu
  IF_,     \* FL_IF of each CPU
  ncli,    \* cpu->ncli
  intena,  \* cpu->intena
  on,      \* the context each CPU runs
  pc,      \* where each context is, "off" for a thread that is switched out
  lk,      \* the lock a context is acquiring or releasing
  eflags,  \* pushcli()'s local variable
  held,    \* the locks a context has
  frame,   \* the code an interrupt handler interrupted
  sint,    \* sched()'s local variable intena
  born,    \* a thread that has not left forkret() for user space yet
  panicked

cpuvars == <<IF_, ncli, intena>>
vars == <<locked, owner, IF_, ncli, intena, on, pc, lk, eflags, held, frame, sint, born, panicked>>

Location == {"off", "fresh", "run", "flags", "spin", "own", "unlock", "pop"}
NoFrame == [pc |-> "none", lk |-> NoLock, eflags |-> FALSE]

(* Every CPU has just entered scheduler(); threads wait for their first run. *)
Init ==
  /\ locked = [l \in Lock |-> FALSE]
  /\ owner = [l \in Lock |-> NoCPU]
  /\ IF_ = [c \in CPU |-> FALSE]
  /\ ncli = [c \in CPU |-> 0]
  /\ intena = [c \in CPU |-> FALSE]
  /\ on = [c \in CPU |-> c]
  /\ pc = [k \in Ctx |-> IF k \in CPU THEN "run" ELSE "fresh"]
  /\ lk = [k \in Ctx |-> NoLock]
  /\ eflags = [k \in Ctx |-> FALSE]
  /\ held = [k \in Ctx |-> {}]
  /\ frame = [k \in Ctx |-> NoFrame]
  /\ sint = [k \in Ctx |-> FALSE]
  /\ born = [k \in Ctx |-> k \in Thread]
  /\ panicked = FALSE

(* CPU c is in scheduler()'s own code, not in a handler that interrupted it *)
Scheduling(c) == on[c] = c /\ frame[c] = NoFrame

holding(c, l) == locked[l] /\ owner[l] = c

-----------------------------------------------------------------------------
(* acquire(l): pushcli() reads eflags, ... *)
Acquire(c, l) ==
  /\ ~panicked
  /\ pc[on[c]] = "run"
  /\ \A h \in held[on[c]] : Rank[h] < Rank[l]
  /\ Scheduling(c) => l = ptable /\ IF_[c]
  /\ eflags' = [eflags EXCEPT ![on[c]] = IF_[c]]
  /\ lk' = [lk EXCEPT ![on[c]] = l]
  /\ pc' = [pc EXCEPT ![on[c]] = "flags"]
  /\ UNCHANGED <<locked, owner, cpuvars, on, held, frame, sint, born, panicked>>

(* ... cli(), counts, and keeps the flag of the outermost call; then        *)
(* acquire() panics when this CPU already has the lock.                     *)
Pushcli(c) ==
  /\ ~panicked
  /\ pc[on[c]] = "flags"
  /\ IF_' = [IF_ EXCEPT ![c] = FALSE]
  /\ ncli' = [ncli EXCEPT ![c] = @ + 1]
  /\ intena' = [intena EXCEPT ![c] = IF ncli[c] = 0 THEN eflags[on[c]] ELSE @]
  /\ panicked' = holding(c, lk[on[c]])
  /\ pc' = [pc EXCEPT ![on[c]] = "spin"]
  /\ UNCHANGED <<locked, owner, on, lk, eflags, held, frame, sint, born>>

(* Mutant: the result of xchg is not looked at again. *)
XchgOnce(c) ==
  /\ ~panicked
  /\ pc[on[c]] = "spin"
  /\ locked' = [locked EXCEPT ![lk[on[c]]] = TRUE]
  /\ held' = [held EXCEPT ![on[c]] = @ \cup {lk[on[c]]}]
  /\ pc' = [pc EXCEPT ![on[c]] = "own"]
  /\ UNCHANGED <<owner, cpuvars, on, lk, eflags, frame, sint, born, panicked>>

(* The xchg that finds the lock free *)
Xchg(c) ==
  /\ ~panicked
  /\ pc[on[c]] = "spin"
  /\ ~locked[lk[on[c]]]
  /\ locked' = [locked EXCEPT ![lk[on[c]]] = TRUE]
  /\ held' = [held EXCEPT ![on[c]] = @ \cup {lk[on[c]]}]
  /\ pc' = [pc EXCEPT ![on[c]] = "own"]
  /\ UNCHANGED <<owner, cpuvars, on, lk, eflags, frame, sint, born, panicked>>

(* acquire() notes this CPU as the owner. *)
SetOwner(c) ==
  /\ ~panicked
  /\ pc[on[c]] = "own"
  /\ owner' = [owner EXCEPT ![lk[on[c]]] = c]
  /\ lk' = [lk EXCEPT ![on[c]] = NoLock]
  /\ pc' = [pc EXCEPT ![on[c]] = "run"]
  /\ UNCHANGED <<locked, cpuvars, on, eflags, held, frame, sint, born, panicked>>

(* release(l): check, forget the owner, ... *)
Release(c, l) ==
  /\ ~panicked
  /\ pc[on[c]] = "run"
  /\ l \in held[on[c]]
  /\ panicked' = ~holding(c, l)
  /\ owner' = [owner EXCEPT ![l] = NoCPU]
  /\ lk' = [lk EXCEPT ![on[c]] = l]
  /\ pc' = [pc EXCEPT ![on[c]] = "unlock"]
  /\ UNCHANGED <<locked, cpuvars, on, eflags, held, frame, sint, born>>

(* ... xchg(&lk->locked, 0), ... *)
Unlock(c) ==
  /\ ~panicked
  /\ pc[on[c]] = "unlock"
  /\ locked' = [locked EXCEPT ![lk[on[c]]] = FALSE]
  /\ held' = [held EXCEPT ![on[c]] = @ \ {lk[on[c]]}]
  /\ pc' = [pc EXCEPT ![on[c]] = "pop"]
  /\ UNCHANGED <<owner, cpuvars, on, lk, eflags, frame, sint, born, panicked>>

(* Mutant: sti() without looking at the count. *)
PopcliEager(c) ==
  /\ ~panicked
  /\ pc[on[c]] = "pop"
  /\ panicked' = (IF_[c] \/ ncli[c] = 0)
  /\ ncli' = [ncli EXCEPT ![c] = @ - 1]
  /\ IF_' = [IF_ EXCEPT ![c] = @ \/ (intena[c])]
  /\ lk' = [lk EXCEPT ![on[c]] = NoLock]
  /\ pc' = [pc EXCEPT ![on[c]] = "run"]
  /\ UNCHANGED <<locked, owner, intena, on, eflags, held, frame, sint, born>>

(* ... and popcli(). *)
Popcli(c) ==
  /\ ~panicked
  /\ pc[on[c]] = "pop"
  /\ panicked' = (IF_[c] \/ ncli[c] = 0)
  /\ ncli' = [ncli EXCEPT ![c] = @ - 1]
  /\ IF_' = [IF_ EXCEPT ![c] = @ \/ (ncli[c] = 1 /\ intena[c])]
  /\ lk' = [lk EXCEPT ![on[c]] = NoLock]
  /\ pc' = [pc EXCEPT ![on[c]] = "run"]
  /\ UNCHANGED <<locked, owner, intena, on, eflags, held, frame, sint, born>>

-----------------------------------------------------------------------------
(* An interrupt gate clears FL_IF; the handler runs on the same context. *)
Interrupt(c) ==
  /\ ~panicked
  /\ IF_[c]
  /\ frame' = [frame EXCEPT ![on[c]] = [pc |-> pc[on[c]], lk |-> lk[on[c]], eflags |-> eflags[on[c]]]]
  /\ pc' = [pc EXCEPT ![on[c]] = "run"]
  /\ lk' = [lk EXCEPT ![on[c]] = NoLock]
  /\ IF_' = [IF_ EXCEPT ![c] = FALSE]
  /\ UNCHANGED <<locked, owner, ncli, intena, on, eflags, held, sint, born, panicked>>

(* iret restores FL_IF, which was set. *)
Iret(c) ==
  /\ ~panicked
  /\ frame[on[c]] # NoFrame
  /\ pc[on[c]] = "run"
  /\ held[on[c]] = {}
  /\ frame' = [frame EXCEPT ![on[c]] = NoFrame]
  /\ pc' = [pc EXCEPT ![on[c]] = frame[on[c]].pc]
  /\ lk' = [lk EXCEPT ![on[c]] = frame[on[c]].lk]
  /\ eflags' = [eflags EXCEPT ![on[c]] = frame[on[c]].eflags]
  /\ IF_' = [IF_ EXCEPT ![c] = TRUE]
  /\ UNCHANGED <<locked, owner, ncli, intena, on, held, sint, born, panicked>>

-----------------------------------------------------------------------------
(* scheduler()'s sti() *)
Sti(c) ==
  /\ ~panicked
  /\ Scheduling(c)
  /\ pc[c] = "run"
  /\ held[c] = {}
  /\ ~IF_[c]
  /\ IF_' = [IF_ EXCEPT ![c] = TRUE]
  /\ UNCHANGED <<locked, owner, ncli, intena, on, pc, lk, eflags, held, frame, sint, born, panicked>>

(* Mutant: sched() does not put intena back. *)
DispatchKeepsIntena(c, k) ==
  /\ ~panicked
  /\ Scheduling(c)
  /\ pc[c] = "run"
  /\ held[c] = {ptable}
  /\ pc[k] \in {"off", "fresh"}
  /\ on' = [on EXCEPT ![c] = k]
  /\ held' = [held EXCEPT ![c] = {}, ![k] = {ptable}]
  /\ intena' = [intena EXCEPT ![c] = @]
  /\ pc' = [pc EXCEPT ![k] = "run"]
  /\ UNCHANGED <<locked, owner, IF_, ncli, lk, eflags, frame, sint, born, panicked>>

(* scheduler()'s swtch to thread k, which resumes in sched() (cpu->intena = *)
(* intena) or starts in forkret().                                          *)
Dispatch(c, k) ==
  /\ ~panicked
  /\ Scheduling(c)
  /\ pc[c] = "run"
  /\ held[c] = {ptable}
  /\ pc[k] \in {"off", "fresh"}
  /\ on' = [on EXCEPT ![c] = k]
  /\ held' = [held EXCEPT ![c] = {}, ![k] = {ptable}]
  /\ intena' = [intena EXCEPT ![c] = IF pc[k] = "off" THEN sint[k] ELSE @]
  /\ pc' = [pc EXCEPT ![k] = "run"]
  /\ UNCHANGED <<locked, owner, IF_, ncli, lk, eflags, frame, sint, born, panicked>>

(* sched(): its checks, then swtch back to the scheduler of this CPU. *)
Sched(c) ==
  /\ ~panicked
  /\ on[c] \in Thread
  /\ pc[on[c]] = "run"
  /\ held[on[c]] = {ptable}
  /\ panicked' = (~holding(c, ptable) \/ ncli[c] # 1 \/ IF_[c])
  /\ sint' = [sint EXCEPT ![on[c]] = intena[c]]
  /\ on' = [on EXCEPT ![c] = c]
  /\ held' = [held EXCEPT ![on[c]] = {}, ![c] = {ptable}]
  /\ pc' = [pc EXCEPT ![on[c]] = "off"]
  /\ UNCHANGED <<locked, owner, cpuvars, lk, eflags, frame, born>>

(* forkret() returns to trapret, whose iret loads a user eflags with FL_IF. *)
Trapret(c) ==
  /\ ~panicked
  /\ born[on[c]]
  /\ pc[on[c]] = "run"
  /\ frame[on[c]] = NoFrame
  /\ held[on[c]] = {}
  /\ IF_' = [IF_ EXCEPT ![c] = TRUE]
  /\ born' = [born EXCEPT ![on[c]] = FALSE]
  /\ UNCHANGED <<locked, owner, ncli, intena, on, pc, lk, eflags, held, frame, sint, panicked>>

Next ==
  \E c \in CPU :
    \/ \E l \in Lock : Acquire(c, l) \/ Release(c, l)
    \/ Pushcli(c) \/ Xchg(c) \/ SetOwner(c) \/ Unlock(c) \/ Popcli(c)
    \/ Interrupt(c) \/ Iret(c) \/ Sti(c) \/ Sched(c) \/ Trapret(c)
    \/ \E k \in Thread : Dispatch(c, k)

Spec == Init /\ [][Next]_vars

-----------------------------------------------------------------------------
TypeOK ==
  /\ locked \in [Lock -> BOOLEAN]
  /\ owner \in [Lock -> CPU \cup {NoCPU}]
  /\ IF_ \in [CPU -> BOOLEAN]
  /\ ncli \in [CPU -> Nat]
  /\ intena \in [CPU -> BOOLEAN]
  /\ on \in [CPU -> Ctx]
  /\ pc \in [Ctx -> Location]
  /\ lk \in [Ctx -> Lock \cup {NoLock}]
  /\ eflags \in [Ctx -> BOOLEAN]
  /\ held \in [Ctx -> SUBSET Lock]
  /\ frame \in [Ctx -> [pc : {"none", "run", "flags"}, lk : Lock \cup {NoLock}, eflags : BOOLEAN]]
  /\ sint \in [Ctx -> BOOLEAN]
  /\ born \in [Ctx -> BOOLEAN]
  /\ panicked \in BOOLEAN

(* No two contexts are inside the same lock, whatever interrupts and        *)
(* switches between CPUs happen while it is taken and released.             *)
MutualExclusion ==
  \A j, k \in Ctx : j # k => held[j] \cap held[k] = {}

(* No panic of acquire, release, popcli or sched is reachable: holding() is *)
(* right although lk->cpu is written apart from lk->locked, the nesting     *)
(* count is exact, and sched() always finds one lock held.                  *)
NoPanic == ~panicked

(* A context that has a lock, or spins for one, runs with interrupts off:   *)
(* no handler on its CPU can wait for that lock.                            *)
HandlersNeverWait ==
  \A c \in CPU :
    held[on[c]] # {} \/ pc[on[c]] \in {"spin", "own", "unlock", "pop"} => ~IF_[c]

(* Once a thread has released its last lock, interrupts are as they were    *)
(* before the first acquire: on in a system call, off in a handler.  The    *)
(* CPU that releases need not be the one that acquired (sched() carries     *)
(* intena across swtch()).                                                  *)
InterruptsRestored ==
  \A c \in CPU :
    on[c] \in Thread /\ pc[on[c]] = "run" /\ held[on[c]] = {} /\ ~born[on[c]]
      => (IF_[c] <=> frame[on[c]] = NoFrame)

-----------------------------------------------------------------------------
(* Why the properties above hold, phase by phase of acquire() and release() *)

(* A thread is on at most one CPU, and "off" or "fresh" exactly when on     *)
(* none; a scheduler that is switched out stopped in its own code.          *)
Placed ==
  /\ \A c \in CPU : on[c] \in CPU => on[c] = c
  /\ \A c, d \in CPU : on[c] = on[d] => c = d
  /\ \A k \in Thread : pc[k] \in {"off", "fresh"} <=> \A c \in CPU : on[c] # k
  /\ \A c \in CPU : pc[c] \notin {"off", "fresh"}
  /\ \A c \in CPU : on[c] # c => pc[c] = "run" /\ frame[c] = NoFrame

(* Only contexts that run hold locks: swtch() hands ptable.lock over. *)
Held ==
  /\ \A k \in Ctx : IsFiniteSet(held[k])
  /\ \A k \in Ctx : (\A c \in CPU : on[c] # k) => held[k] = {}
  /\ \A l \in Lock : locked[l] <=> \E k \in Ctx : l \in held[k]
  /\ \A k \in Ctx : pc[k] \in {"flags", "spin"} => lk[k] \in Lock \ held[k]
  /\ \A k \in Ctx : pc[k] \in {"own", "unlock"} => lk[k] \in held[k]

(* lk->cpu names the CPU of the holder, except while it is being written. *)
Owned(c) ==
  \A l \in Lock :
    owner[l] = c <=> l \in held[on[c]] /\ ~(lk[on[c]] = l /\ pc[on[c]] \in {"own", "unlock"})

(* ncli is the number of locks, and one more between pushcli() and the xchg *)
(* of acquire(), and between the xchg of release() and popcli().            *)
Counted(c) ==
  ncli[c] = Cardinality(held[on[c]]) + (IF pc[on[c]] \in {"spin", "pop"} THEN 1 ELSE 0)

(* FL_IF is set only outside locks and handlers, and eflags is what it was. *)
Masked(c) ==
  /\ IF_[c] => held[on[c]] = {} /\ pc[on[c]] \in {"run", "flags"} /\ frame[on[c]] = NoFrame
  /\ pc[on[c]] = "flags" => (eflags[on[c]] <=> IF_[c])

(* What popcli() restores: FALSE in a handler, TRUE in a thread's own code. *)
Restorable(c) ==
  /\ ncli[c] > 0 /\ frame[on[c]] # NoFrame => ~intena[c]
  /\ on[c] \in Thread /\ ~born[on[c]] /\ frame[on[c]] = NoFrame =>
       IF ncli[c] > 0 THEN intena[c] ELSE IF_[c]

(* An interrupt came with FL_IF set, perhaps between readeflags and cli. *)
Framed(k) ==
  /\ frame[k].pc = "flags" => frame[k].eflags /\ frame[k].lk \in Lock
  /\ frame[k].pc = "none" => frame[k] = NoFrame

(* While a thread is off, sched()'s local keeps what popcli() will restore. *)
Saved(k) ==
  /\ pc[k] = "off" /\ frame[k] # NoFrame => ~sint[k]
  /\ pc[k] = "off" /\ frame[k] = NoFrame /\ ~born[k] => sint[k]
  /\ pc[k] = "fresh" => born[k] /\ frame[k] = NoFrame

(* The inductive invariant: the bookkeeping of spinlock.c is exact at every  *)
(* step, on every CPU, across interrupts and migration between CPUs.         *)
SpinInv ==
  /\ Placed /\ Held /\ MutualExclusion
  /\ \A c \in CPU : Owned(c) /\ Counted(c) /\ Masked(c) /\ Restorable(c)
  /\ \A k \in Ctx : Framed(k)
  /\ \A k \in Thread : Saved(k)

=============================================================================
