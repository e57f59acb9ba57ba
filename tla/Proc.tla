-------------------------------- MODULE Proc --------------------------------
(***************************************************************************)
(* The process table (proc.c): fork, exec's visible part, exit, wait,      *)
(* kill, the per-CPU scheduler and preemption by the timer (trap.c).       *)
(*                                                                         *)
(* A critical section of ptable.lock is one action unless swtch() happens  *)
(* inside it; then the lock stays with the CPU until the thread or the     *)
(* scheduler that swtch() resumes releases it.  Writes the code makes      *)
(* without the lock (most of fork()) are actions of their own.             *)
(***************************************************************************)
EXTENDS Integers, FiniteSets

CONSTANTS CPU,
          NPROC,
          MaxPid,    \* bound: fork is not called once nextpid exceeds it
          Calls,     \* what user programs do: fork, exec, kill, wait, exit, fault
          KillPids,  \* the arguments kill() is called with
          Preempted, \* the locations at which the timer strikes
          Programs,  \* what exec() can load; sh is what init runs
          NoCPU

ASSUME ProcAssumption ==
  /\ NPROC \in Nat \ {0}
  /\ MaxPid \in Nat
  /\ "sh" \in Programs
  /\ Calls \subseteq {"fork", "exec", "kill", "wait", "exit", "fault"}
  /\ NoCPU \notin CPU

Slot == 1 .. NPROC
initproc == 1

VARIABLES
  state, pid, parent, killed, chan, name,  \* struct proc
  prog,     \* the program in the process's address space
  nextpid,
  lock,     \* the CPU that holds ptable.lock, or NoCPU
  cur,      \* the process on whose kernel stack each CPU runs, 0 for the scheduler
  idx,      \* scheduler()'s loop: the next slot to look at
  pc,       \* where the kernel thread of each process is
  back,     \* where the timer interrupted it
  np,       \* fork()'s local variable
  panicked

table == <<state, pid, parent, killed, chan>>
local == <<back, np>>
vars == <<state, pid, parent, killed, chan, name, prog, nextpid, lock, cur, idx, pc, back, np, panicked>>

States == {"UNUSED", "EMBRYO", "SLEEPING", "RUNNABLE", "RUNNING", "ZOMBIE"}
Locations == {"user", "fork", "embryo", "copied", "started", "exec", "kill", "wait",
              "waiting", "exit", "dead", "sysret", "yield", "forkret"}

(* userinit() has made init runnable. *)
Init ==
  /\ state = [s \in Slot |-> IF s = initproc THEN "RUNNABLE" ELSE "UNUSED"]
  /\ pid = [s \in Slot |-> IF s = initproc THEN 1 ELSE 0]
  /\ parent = [s \in Slot |-> 0]
  /\ killed = [s \in Slot |-> FALSE]
  /\ chan = [s \in Slot |-> 0]
  /\ name = [s \in Slot |-> IF s = initproc THEN "sh" ELSE ""]
  /\ prog = [s \in Slot |-> "sh"]
  /\ nextpid = 2
  /\ lock = NoCPU
  /\ cur = [c \in CPU |-> 0]
  /\ idx = [c \in CPU |-> 1]
  /\ pc = [s \in Slot |-> "forkret"]
  /\ back = [s \in Slot |-> "user"]
  /\ np = [s \in Slot |-> 0]
  /\ panicked = FALSE

-----------------------------------------------------------------------------
(* CPU c executes process s, which is at l. *)
At(c, s, l) == ~panicked /\ cur[c] = s /\ pc[s] = l /\ state[s] = "RUNNING"

Goto(s, l) == pc' = [pc EXCEPT ![s] = l]

Wakeup1(st, ch) ==
  [s \in Slot |-> IF st[s] = "SLEEPING" /\ chan[s] = ch THEN "RUNNABLE" ELSE st[s]]

(* A system call: trap() exits a killed process at the door. *)
Syscall(c, s, l) ==
  /\ At(c, s, "user")
  /\ l = "fork" => nextpid <= MaxPid
  /\ l = "exit" => s # initproc
  /\ Goto(s, IF killed[s] THEN "exit" ELSE l)
  /\ UNCHANGED <<table, name, prog, nextpid, lock, cur, idx, local, panicked>>

SysRet(c, s) ==
  /\ At(c, s, "sysret")
  /\ Goto(s, IF killed[s] THEN "exit" ELSE "user")
  /\ UNCHANGED <<table, name, prog, nextpid, lock, cur, idx, local, panicked>>

(* allocproc()'s critical section *)
Allocproc(c, s) ==
  /\ At(c, s, "fork")
  /\ lock = NoCPU
  /\ LET free == {n \in Slot : state[n] = "UNUSED"}
         n == CHOOSE n \in free : \A m \in free : n <= m
     IN IF free = {}
        THEN /\ Goto(s, "sysret")
             /\ UNCHANGED <<state, pid, nextpid, np>>
        ELSE /\ state' = [state EXCEPT ![n] = "EMBRYO"]
             /\ pid' = [pid EXCEPT ![n] = nextpid]
             /\ nextpid' = nextpid + 1
             /\ np' = [np EXCEPT ![s] = n]
             /\ Goto(s, "embryo")
  /\ UNCHANGED <<parent, killed, chan, name, prog, lock, cur, idx, back, panicked>>

(* kalloc() or copyuvm() fails: the slot is given back without the lock. *)
ForkFail(c, s) ==
  /\ At(c, s, "embryo")
  /\ state' = [state EXCEPT ![np[s]] = "UNUSED"]
  /\ np' = [np EXCEPT ![s] = 0]
  /\ Goto(s, "sysret")
  /\ UNCHANGED <<pid, parent, killed, chan, name, prog, nextpid, lock, cur, idx, back, panicked>>

(* The copy of the parent; the child will start in forkret(). *)
ForkCopy(c, s) ==
  /\ At(c, s, "embryo")
  /\ parent' = [parent EXCEPT ![np[s]] = s]
  /\ prog' = [prog EXCEPT ![np[s]] = prog[s]]
  /\ pc' = [pc EXCEPT ![s] = "copied", ![np[s]] = "forkret"]
  /\ UNCHANGED <<state, pid, killed, chan, name, nextpid, lock, cur, idx, local, panicked>>

ForkRun(c, s) ==
  /\ At(c, s, "copied")
  /\ state' = [state EXCEPT ![np[s]] = "RUNNABLE"]
  /\ Goto(s, "started")
  /\ UNCHANGED <<pid, parent, killed, chan, name, prog, nextpid, lock, cur, idx, local, panicked>>

(* safestrcpy(np->name, proc->name), when the child may be running *)
ForkName(c, s) ==
  /\ At(c, s, "started")
  /\ name' = [name EXCEPT ![np[s]] = name[s]]
  /\ np' = [np EXCEPT ![s] = 0]
  /\ Goto(s, "sysret")
  /\ UNCHANGED <<table, prog, nextpid, lock, cur, idx, back, panicked>>

(* The end of exec(): the name, then the new image. *)
Exec(c, s) ==
  /\ At(c, s, "exec")
  /\ \E p \in Programs :
       /\ name' = [name EXCEPT ![s] = p]
       /\ prog' = [prog EXCEPT ![s] = p]
  /\ Goto(s, "sysret")
  /\ UNCHANGED <<table, nextpid, lock, cur, idx, local, panicked>>

(* Mutant: the victim is left asleep. *)
KillNoWake(c, s, p) ==
  /\ At(c, s, "kill")
  /\ lock = NoCPU
  /\ LET found == {q \in Slot : pid[q] = p}
         q == CHOOSE q \in found : \A r \in found : q <= r
     IN IF found = {}
        THEN UNCHANGED <<state, killed>>
        ELSE /\ killed' = [killed EXCEPT ![q] = TRUE]
             /\ UNCHANGED state
  /\ Goto(s, "sysret")
  /\ UNCHANGED <<pid, parent, chan, name, prog, nextpid, lock, cur, idx, local, panicked>>

Kill(c, s, p) ==
  /\ At(c, s, "kill")
  /\ lock = NoCPU
  /\ LET found == {q \in Slot : pid[q] = p}
         q == CHOOSE q \in found : \A r \in found : q <= r
     IN IF found = {}
        THEN UNCHANGED <<state, killed>>
        ELSE /\ killed' = [killed EXCEPT ![q] = TRUE]
             /\ state' = [state EXCEPT ![q] = IF @ = "SLEEPING" THEN "RUNNABLE" ELSE @]
  /\ Goto(s, "sysret")
  /\ UNCHANGED <<pid, parent, chan, name, prog, nextpid, lock, cur, idx, local, panicked>>

(* A fault in user space: trap() marks the process killed and it exits. *)
Fault(c, s) ==
  /\ At(c, s, "user")
  /\ "fault" \in Calls /\ s # initproc
  /\ killed' = [killed EXCEPT ![s] = TRUE]
  /\ Goto(s, "exit")
  /\ UNCHANGED <<state, pid, parent, chan, name, prog, nextpid, lock, cur, idx, local, panicked>>

(* The children a dying process leaves to init *)
Adopt(s) == [q \in Slot |-> IF parent[q] = s THEN initproc ELSE parent[q]]

(* Mutant: init is not told of a zombie it inherits. *)
WakeForExitParentOnly(s) ==
  Wakeup1(state, parent[s])

(* Mutant: the parent is not told. *)
WakeForExitNoParent(s) ==
  LET st == state
  IN IF \E q \in Slot : parent[q] = s /\ state[q] = "ZOMBIE" THEN Wakeup1(st, initproc) ELSE st

(* Who exit() wakes: the parent, and init when it inherits a zombie *)
WakeForExit(s) ==
  LET st == Wakeup1(state, parent[s])
  IN IF \E q \in Slot : parent[q] = s /\ state[q] = "ZOMBIE" THEN Wakeup1(st, initproc) ELSE st

(* Mutant: ptable.lock is released before swtch(). *)
ExitUnlocks(c, s) ==
  /\ At(c, s, "exit")
  /\ s # initproc
  /\ lock = NoCPU
  /\ lock' = NoCPU
  /\ state' = [WakeForExit(s) EXCEPT ![s] = "ZOMBIE"]
  /\ parent' = Adopt(s)
  /\ Goto(s, "dead")
  /\ UNCHANGED <<pid, killed, chan, name, prog, nextpid, cur, idx, local, panicked>>

(* panic("init exiting") *)
ExitPanic(c, s) ==
  /\ At(c, s, "exit")
  /\ s = initproc
  /\ panicked' = TRUE
  /\ UNCHANGED <<table, name, prog, nextpid, lock, cur, idx, pc, local>>

(* exit() up to swtch() *)
Exit(c, s) ==
  /\ At(c, s, "exit")
  /\ s # initproc
  /\ lock = NoCPU
  /\ lock' = c
  /\ state' = [WakeForExit(s) EXCEPT ![s] = "ZOMBIE"]
  /\ parent' = Adopt(s)
  /\ Goto(s, "dead")
  /\ UNCHANGED <<pid, killed, chan, name, prog, nextpid, cur, idx, local, panicked>>

-----------------------------------------------------------------------------
(* One turn of wait()'s loop, from acquire() or, after sleep(), with the    *)
(* lock still held.                                                         *)
WaitTurn(c, s) ==
  LET kids == {q \in Slot : parent[q] = s}
      dead == {q \in kids : state[q] = "ZOMBIE"}
      q == CHOOSE q \in dead : \A r \in dead : q <= r
  IN \/ /\ dead # {}
        /\ state' = [state EXCEPT ![q] = "UNUSED"]
        /\ pid' = [pid EXCEPT ![q] = 0]
        /\ parent' = [parent EXCEPT ![q] = 0]
        /\ killed' = [killed EXCEPT ![q] = FALSE]
        /\ name' = [name EXCEPT ![q] = ""]
        /\ chan' = [chan EXCEPT ![s] = 0]
        /\ lock' = NoCPU
        /\ pc' = [pc EXCEPT ![s] = "sysret", ![q] = "forkret"]
     \/ /\ dead = {}
        /\ kids = {} \/ killed[s]
        /\ chan' = [chan EXCEPT ![s] = 0]
        /\ lock' = NoCPU
        /\ Goto(s, "sysret")
        /\ UNCHANGED <<state, pid, parent, killed, name>>
     \/ /\ dead = {}
        /\ ~(kids = {} \/ killed[s])
        /\ chan' = [chan EXCEPT ![s] = s]
        /\ state' = [state EXCEPT ![s] = "SLEEPING"]
        /\ lock' = c
        /\ Goto(s, "waiting")
        /\ UNCHANGED <<pid, parent, killed, name>>

Wait(c, s) ==
  /\ At(c, s, "wait")
  /\ lock = NoCPU
  /\ WaitTurn(c, s)
  /\ UNCHANGED <<prog, nextpid, cur, idx, local, panicked>>

WaitAgain(c, s) ==
  /\ At(c, s, "waiting")
  /\ lock = c
  /\ WaitTurn(c, s)
  /\ UNCHANGED <<prog, nextpid, cur, idx, local, panicked>>

-----------------------------------------------------------------------------
(* A timer interrupt: a killed process in user space exits, ... *)
TimerExit(c, s) ==
  /\ At(c, s, "user")
  /\ killed[s]
  /\ Goto(s, "exit")
  /\ UNCHANGED <<table, name, prog, nextpid, lock, cur, idx, local, panicked>>

(* ... any other calls yield(), in user space or in the kernel; a thread    *)
(* that holds ptable.lock has interrupts off.                               *)
Yield(c, s) ==
  /\ At(c, s, pc[s])
  /\ pc[s] \in Preempted
  /\ pc[s] = "user" => ~killed[s]
  /\ lock = NoCPU
  /\ lock' = c
  /\ back' = [back EXCEPT ![s] = pc[s]]
  /\ state' = [state EXCEPT ![s] = "RUNNABLE"]
  /\ Goto(s, "yield")
  /\ UNCHANGED <<pid, parent, killed, chan, name, prog, nextpid, cur, idx, np, panicked>>

(* yield() returns; trap() looks at killed once more before user space. *)
YieldReturn(c, s) ==
  /\ At(c, s, "yield")
  /\ lock = c
  /\ lock' = NoCPU
  /\ Goto(s, IF back[s] = "user" /\ killed[s] THEN "exit" ELSE back[s])
  /\ back' = [back EXCEPT ![s] = "user"]
  /\ UNCHANGED <<table, name, prog, nextpid, cur, idx, np, panicked>>

Forkret(c, s) ==
  /\ At(c, s, "forkret")
  /\ lock = c
  /\ lock' = NoCPU
  /\ Goto(s, "user")
  /\ UNCHANGED <<table, name, prog, nextpid, cur, idx, local, panicked>>

(* The swtch() of sched(), to the scheduler of this CPU *)
Swtch(c) ==
  /\ ~panicked
  /\ cur[c] # 0
  /\ state[cur[c]] # "RUNNING"
  /\ lock = c
  /\ cur' = [cur EXCEPT ![c] = 0]
  /\ UNCHANGED <<table, name, prog, nextpid, lock, idx, pc, local, panicked>>

(* scheduler() starts over, at the first slot. *)
Scan(c) ==
  /\ ~panicked
  /\ cur[c] = 0
  /\ lock = NoCPU
  /\ lock' = c
  /\ UNCHANGED <<table, name, prog, nextpid, cur, idx, pc, local, panicked>>

(* The rest of the loop over the table: the next runnable process, ... *)
Dispatch(c) ==
  /\ ~panicked
  /\ cur[c] = 0
  /\ lock = c
  /\ \E s \in Slot :
       /\ s >= idx[c] /\ state[s] = "RUNNABLE"
       /\ \A q \in Slot : q >= idx[c] /\ q < s => state[q] # "RUNNABLE"
       /\ cur' = [cur EXCEPT ![c] = s]
       /\ state' = [state EXCEPT ![s] = "RUNNING"]
       /\ idx' = [idx EXCEPT ![c] = s + 1]
  /\ UNCHANGED <<pid, parent, killed, chan, name, prog, nextpid, lock, pc, local, panicked>>

(* ... or none. *)
EndScan(c) ==
  /\ ~panicked
  /\ cur[c] = 0
  /\ lock = c
  /\ \A q \in Slot : q >= idx[c] => state[q] # "RUNNABLE"
  /\ lock' = NoCPU
  /\ idx' = [idx EXCEPT ![c] = 1]
  /\ UNCHANGED <<table, name, prog, nextpid, cur, pc, local, panicked>>

(* What the thread of s does next in the kernel, apart from returning from   *)
(* an interrupt                                                              *)
KernelStep(c, s) ==
  \/ SysRet(c, s) \/ Allocproc(c, s) \/ ForkFail(c, s) \/ ForkCopy(c, s) \/ ForkRun(c, s)
  \/ ForkName(c, s) \/ Exec(c, s) \/ Exit(c, s) \/ ExitPanic(c, s) \/ Wait(c, s)
  \/ WaitAgain(c, s) \/ TimerExit(c, s)
  \/ \E p \in KillPids : Kill(c, s, p)

UserStep(c, s) ==
  \/ Fault(c, s)
  \/ \E l \in Calls \ {"fault"} : Syscall(c, s, l)

TimerStep(c, s) == Yield(c, s) \/ YieldReturn(c, s) \/ Forkret(c, s)

SchedulerStep(c) == Swtch(c) \/ Scan(c) \/ Dispatch(c) \/ EndScan(c)

(* After a panic the machine spins. *)
Spin == panicked /\ UNCHANGED vars

Next ==
  \/ \E c \in CPU :
       \/ SchedulerStep(c)
       \/ \E s \in Slot : KernelStep(c, s) \/ UserStep(c, s) \/ TimerStep(c, s)
  \/ Spin

Spec == Init /\ [][Next]_vars

(* The scheduler loops for ever, the timer keeps ticking, and a thread that *)
(* gets the CPU again and again is not always interrupted before its next   *)
(* kernel step: a time slice is longer than a step.                         *)
FairSpec ==
  /\ Spec
  /\ \A c \in CPU :
       /\ WF_vars(SchedulerStep(c))
       /\ \A s \in Slot : SF_vars(TimerStep(c, s)) /\ SF_vars(KernelStep(c, s))

-----------------------------------------------------------------------------
TypeOK ==
  /\ state \in [Slot -> States]
  /\ pid \in [Slot -> Nat]
  /\ parent \in [Slot -> Slot \cup {0}]
  /\ killed \in [Slot -> BOOLEAN]
  /\ chan \in [Slot -> Slot \cup {0}]
  /\ name \in [Slot -> Programs \cup {""}]
  /\ prog \in [Slot -> Programs]
  /\ nextpid \in Nat
  /\ lock \in CPU \cup {NoCPU}
  /\ cur \in [CPU -> Slot \cup {0}]
  /\ idx \in [CPU -> 1 .. NPROC + 1]
  /\ pc \in [Slot -> Locations]
  /\ back \in [Slot -> Locations \ {"yield", "waiting", "dead", "forkret"}]
  /\ np \in [Slot -> Slot \cup {0}]
  /\ panicked \in BOOLEAN

Live(s) == state[s] \in {"SLEEPING", "RUNNABLE", "RUNNING"}

(* No two CPUs are on one kernel stack, and none is on the stack of a slot  *)
(* that wait() or a failed fork() has given back: exit(), yield() and       *)
(* sleep() keep ptable.lock until they are off their own stack.             *)
StackExclusive ==
  \A c \in CPU : cur[c] # 0 =>
    /\ state[cur[c]] \notin {"UNUSED", "EMBRYO"}
    /\ \A d \in CPU \ {c} : cur[d] # cur[c]

(* Every process that can exit has a living parent to reap it: exit() hands *)
(* the children over to init in the critical section in which it dies.      *)
ParentLives ==
  \A s \in Slot \ {initproc} :
    Live(s) \/ state[s] = "ZOMBIE" => parent[s] # 0 /\ Live(parent[s])

(* Pids of processes are distinct although fork() gives slots back, and     *)
(* wait() and the next allocproc() reuse them, at any time.                 *)
PidsDistinct ==
  \A s, t \in Slot :
    /\ state[s] # "UNUSED" => pid[s] \in 1 .. nextpid - 1
    /\ s # t /\ state[s] # "UNUSED" /\ state[t] # "UNUSED" => pid[s] # pid[t]

(* A process sleeps in wait() only while there is something to wait for: a  *)
(* child that lives, none that is dead, and no kill; no wakeup was lost.    *)
SleeperHasReason ==
  \A s \in Slot : state[s] = "SLEEPING" =>
    /\ chan[s] = s /\ ~killed[s]
    /\ \E q \in Slot : parent[q] = s
    /\ \A q \in Slot : parent[q] = s => state[q] # "ZOMBIE"

(* The table wait() and exit() work on is sound: every process has somebody *)
(* to reap it, no two share a pid, and no sleeper in wait() was forgotten,  *)
(* through failed forks, kills and the reuse of slots on several CPUs.      *)
TableExact == TypeOK /\ ParentLives /\ PidsDistinct /\ SleeperHasReason

(* wait() returns once a child is dead, whoever else is scheduled and even  *)
(* when the child was inherited.                                            *)
WaitReturns ==
  \A s \in Slot :
    (pc[s] = "waiting" /\ \E q \in Slot : parent[q] = s /\ state[q] = "ZOMBIE") ~> pc[s] # "waiting"

(* A killed process exits, also one that sleeps in wait() or was preempted  *)
(* inside the kernel.                                                       *)
KilledExits ==
  \A s \in Slot \ {initproc} : (Live(s) /\ killed[s]) ~> ~Live(s)

=============================================================================
