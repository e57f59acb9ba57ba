----------------------------- MODULE ProcProofs -----------------------------
(***************************************************************************)
(* Proofs about Proc, for every number of CPUs and slots: kernel stacks    *)
(* are exclusive, and the table that fork(), exit(), wait() and kill()     *)
(* share is sound.                                                         *)
(***************************************************************************)
EXTENDS Proc, TLAPS

(* Where a thread is, or was when the timer interrupted it *)
Place(s) == IF pc[s] = "yield" THEN back[s] ELSE pc[s]

(* A CPU is on the stack of a process that does not run only inside         *)
(* sched(), with ptable.lock; a process that comes out of swtch() runs with *)
(* the lock until it gives it up.                                           *)
Stacks ==
  /\ \A c \in CPU : cur[c] # 0 =>
       /\ state[cur[c]] \notin {"UNUSED", "EMBRYO"}
       /\ state[cur[c]] # "RUNNING" => lock = c
  /\ \A c, d \in CPU : cur[c] = cur[d] /\ cur[c] # 0 => c = d
  /\ \A s \in Slot : state[s] = "RUNNING" /\ pc[s] \in {"yield", "waiting", "forkret"} =>
       lock \in CPU /\ cur[lock] = s

(* Where the thread of a slot can be in each state of the slot. *)
Agree(st, l) ==
  /\ st \in {"UNUSED", "EMBRYO"} => l = "forkret"
  /\ st = "SLEEPING" => l = "waiting"
  /\ st = "RUNNABLE" => l \in {"yield", "waiting", "forkret"}
  /\ st = "RUNNING" => l # "dead"
  /\ st = "ZOMBIE" => l = "dead"

Threads == \A s \in Slot : Agree(state[s], pc[s])

(* The slot that fork() works on without the lock is its own. *)
Forking(s) == Place(s) \in {"embryo", "copied"}

Owned ==
  \A s \in Slot : Forking(s) =>
    /\ np[s] # 0 /\ state[np[s]] = "EMBRYO"
    /\ Place(s) = "embryo" => parent[np[s]] = 0
    /\ Place(s) = "copied" => parent[np[s]] = s

OwnedOnce == \A s, t \in Slot : Forking(s) /\ Forking(t) /\ np[s] = np[t] => s = t

Unowned == \A s \in Slot : state[s] = "UNUSED" => parent[s] = 0

Forks == Owned /\ OwnedOnce /\ Unowned

(* init has no parent and does not die, and nobody is its own parent. *)
Family ==
  /\ Live(initproc) /\ parent[initproc] = 0
  /\ \A s \in Slot : parent[s] # s
  /\ ParentLives

IInv == TypeOK /\ Stacks /\ Threads /\ Forks /\ Family /\ PidsDistinct /\ SleeperHasReason

(* The locations at which a thread neither holds ptable.lock nor owns a slot *)
Plain == {"user", "fork", "started", "exec", "kill", "wait", "exit", "sysret"}

Rest == Stacks /\ Threads /\ Forks /\ Family /\ PidsDistinct /\ SleeperHasReason

LEMMA Slots == 0 \notin Slot /\ initproc \in Slot
BY ProcAssumption DEF Slot, initproc

LEMMA FunType ==
  ASSUME NEW S, NEW T, NEW f \in [S -> T], NEW x, NEW v \in T
  PROVE  [f EXCEPT ![x] = v] \in [S -> T]
OBVIOUS

LEMMA FunAt ==
  ASSUME NEW S, NEW T, NEW f \in [S -> T], NEW x \in S, NEW v, NEW g, g = [f EXCEPT ![x] = v]
  PROVE  g[x] = v /\ \A y \in S \ {x} : g[y] = f[y]
OBVIOUS

LEMMA Refs ==
  ASSUME IInv
  PROVE  /\ \A c \in CPU : cur[c] # 0 => cur[c] \in Slot
         /\ \A s \in Slot : (np[s] # 0 => np[s] \in Slot) /\ (parent[s] # 0 => parent[s] \in Slot)
BY Zenon DEF IInv, TypeOK

LEMMA Nextpid == ASSUME IInv PROVE nextpid \in Nat /\ nextpid > 1 /\ pid \in [Slot -> Nat]
<1>1. state[initproc] # "UNUSED" /\ initproc \in Slot
  BY Slots, Zenon DEF IInv, Family, Live
<1>2. pid[initproc] \in 1 .. nextpid - 1
  BY <1>1, Zenon DEF IInv, PidsDistinct
<1>3. nextpid \in Nat /\ pid \in [Slot -> Nat]
  BY Zenon DEF IInv, TypeOK
<1> QED BY <1>2, <1>3

(* What a step keeps of each conjunct when it changes little of its state *)

LEMMA FamilyStep ==
  ASSUME IInv, parent' = parent, \A t \in Slot : Live(t) => Live(t)',
         \A t \in Slot : Live(t)' \/ state'[t] = "ZOMBIE" => Live(t) \/ state[t] = "ZOMBIE"
  PROVE  Family'
BY Refs, Slots, Zenon DEF IInv, Family, ParentLives, initproc

LEMMA PidsStep ==
  ASSUME IInv, nextpid' = nextpid,
         \A t \in Slot : state'[t] # "UNUSED" => state[t] # "UNUSED" /\ pid'[t] = pid[t]
  PROVE  PidsDistinct'
BY Zenon DEF IInv, PidsDistinct

LEMMA SleepStep ==
  ASSUME IInv, parent' = parent,
         \A t \in Slot : state'[t] = "SLEEPING" =>
           state[t] = "SLEEPING" /\ chan'[t] = chan[t] /\ (~killed[t] => ~killed'[t]),
         \A t \in Slot : state'[t] = "ZOMBIE" => state[t] = "ZOMBIE"
  PROVE  SleeperHasReason'
BY Zenon DEF IInv, SleeperHasReason

LEMMA ForksKeep ==
  ASSUME IInv, Unowned', \A t \in Slot : Forking(t) => np'[t] = np[t],
         \A t \in Slot : /\ Place(t)' = "embryo" <=> Place(t) = "embryo"
                         /\ Place(t)' = "copied" <=> Place(t) = "copied",
         \A t \in Slot : Forking(t) => state'[np[t]] = "EMBRYO" /\ parent'[np[t]] = parent[np[t]]
  PROVE  Forks'
<1>1. \A t \in Slot : Forking(t)' <=> Forking(t)
  BY Zenon DEF Forking
<1>2. Owned'
  BY <1>1, Zenon DEF IInv, Forks, Owned
<1>3. OwnedOnce'
  BY <1>1, Zenon DEF IInv, Forks, OwnedOnce
<1> QED BY <1>2, <1>3, Zenon DEF Forks

LEMMA ForksStep ==
  ASSUME IInv, np' = np, parent' = parent,
         \A t \in Slot : /\ Place(t)' = "embryo" <=> Place(t) = "embryo"
                         /\ Place(t)' = "copied" <=> Place(t) = "copied",
         \A t \in Slot : state[t] = "EMBRYO" => state'[t] = "EMBRYO",
         \A t \in Slot : state'[t] = "UNUSED" => state[t] = "UNUSED"
  PROVE  Forks'
<1>1. ASSUME NEW t \in Slot, Forking(t) PROVE state'[np[t]] = "EMBRYO" /\ parent'[np[t]] = parent[np[t]]
  BY <1>1, Refs, Zenon DEF IInv, Forks, Owned
<1>2. Unowned'
  BY Zenon DEF IInv, Forks, Unowned
<1> QED BY <1>1, <1>2, ForksKeep, Zenon

(* A slot no CPU is on changes, and threads that need the lock stay. *)
LEMMA StacksStep ==
  ASSUME IInv, cur' = cur, lock' = lock, NEW n \in Slot, \A d \in CPU : cur[d] # n, state'[n] # "RUNNING",
         \A t \in Slot \ {n} : state'[t] = state[t],
         \A t \in Slot \ {n} : pc'[t] \in {"yield", "waiting", "forkret"} => pc'[t] = pc[t]
  PROVE  Stacks'
<1>1. \A d \in CPU : cur[d] # 0 => state'[cur[d]] = state[cur[d]]
  BY Refs, Zenon
<1> QED BY <1>1, Zenon DEF IInv, Stacks

LEMMA Embryo ==
  ASSUME IInv, NEW s \in Slot, Forking(s)
  PROVE  /\ np[s] \in Slot \ {s, initproc} /\ state[np[s]] = "EMBRYO" /\ pc[np[s]] = "forkret"
         /\ \A d \in CPU : cur[d] # np[s]
         /\ \A t \in Slot \ {s} : Forking(t) => np[t] # np[s]
         /\ Live(s)
<1>1. np[s] \in Slot /\ state[np[s]] = "EMBRYO"
  BY Refs, Zenon DEF IInv, Forks, Owned
<1>2. Live(s)
  <2>1. pc[s] # "forkret" /\ pc[s] # "dead"
    BY Zenon DEF Forking, Place
  <2>2. state[s] \in States
    BY Zenon DEF IInv, TypeOK
  <2> QED BY <2>1, <2>2, Zenon DEF IInv, Threads, Agree, States, Live
<1>3. np[s] # s /\ np[s] # initproc
  BY <1>1, <1>2, Zenon DEF Live, IInv, Family
<1>4. pc[np[s]] = "forkret"
  BY <1>1, Zenon DEF IInv, Threads, Agree
<1>5. \A d \in CPU : cur[d] # np[s]
  BY <1>1, Slots, Zenon DEF IInv, Stacks
<1>6. \A t \in Slot \ {s} : Forking(t) => np[t] # np[s]
  BY Zenon DEF IInv, Forks, OwnedOnce
<1> QED BY <1>1, <1>2, <1>3, <1>4, <1>5, <1>6, Zenon

-----------------------------------------------------------------------------
(* One lemma per action, or per group of actions that do the same. *)

LEMMA PlainMove ==
  ASSUME IInv, NEW s \in Slot, NEW l \in Plain, state[s] = "RUNNING", pc[s] \in Plain,
         pc' = [pc EXCEPT ![s] = l], UNCHANGED <<state, pid, parent, chan, nextpid, lock, cur, back>>,
         \A t \in Slot \ {s} : (~killed[t] => ~killed'[t]) /\ np'[t] = np[t]
  PROVE  Rest'
<1>1. /\ pc'[s] = l
      /\ \A t \in Slot \ {s} : pc'[t] = pc[t]
  BY DEF IInv, TypeOK
<1>2. ~Forking(s) /\ ~Forking(s)' /\ \A t \in Slot \ {s} : Place(t)' = Place(t)
  BY <1>1, Zenon DEF Place, Plain, Forking
<1>3. \A t \in Slot : /\ Place(t)' = "embryo" <=> Place(t) = "embryo"
                      /\ Place(t)' = "copied" <=> Place(t) = "copied"
                      /\ Forking(t) => np'[t] = np[t]
  BY <1>2, Zenon DEF Forking
<1>4. Stacks'
  BY <1>1, Zenon DEF IInv, Stacks, Plain
<1>5. Threads'
  <2>1. state'[s] = "RUNNING" /\ pc'[s] \in Plain
    BY <1>1, Zenon
  <2>2. Agree(state'[s], pc'[s])
    BY <2>1, Zenon DEF Agree, Plain
  <2>3. \A t \in Slot \ {s} : Agree(state'[t], pc'[t])
    BY <1>1, Zenon DEF IInv, Threads
  <2> QED BY <2>2, <2>3, Zenon DEF Threads
<1>6. Forks'
  <2>1. Unowned'
    BY Zenon DEF IInv, Forks, Unowned
  <2>2. ASSUME NEW t \in Slot, Forking(t) PROVE state'[np[t]] = "EMBRYO" /\ parent'[np[t]] = parent[np[t]]
    BY <2>2, Zenon DEF IInv, Forks, Owned
  <2> QED BY <1>3, <2>1, <2>2, ForksKeep, Zenon
<1>7. Family'
  BY Zenon DEF IInv, Family, ParentLives, Live
<1>8. PidsDistinct'
  BY Zenon DEF IInv, PidsDistinct
<1>9. SleeperHasReason'
  BY Zenon DEF IInv, SleeperHasReason
<1> QED BY <1>4, <1>5, <1>6, <1>7, <1>8, <1>9, Zenon DEF Rest

LEMMA SyscallStep == ASSUME IInv, NEW c \in CPU, NEW s \in Slot, NEW l \in Calls \ {"fault"}, Syscall(c, s, l) PROVE IInv'
<1>1. l \in Plain /\ "exit" \in Plain /\ "user" \in Plain
  BY ProcAssumption, Zenon DEF Plain
<1>2. l \in Locations /\ "exit" \in Locations
  BY ProcAssumption, Zenon DEF Locations
<1>3. TypeOK'
  BY <1>2 DEF IInv, TypeOK, Syscall, Goto, table, local
<1>4. Rest'
  BY <1>1, PlainMove, Zenon DEF Syscall, At, Goto, table, local
<1> QED BY <1>3, <1>4, Zenon DEF IInv, Rest

LEMMA PlainSteps ==
  ASSUME IInv, NEW c \in CPU, NEW s \in Slot,
         SysRet(c, s) \/ TimerExit(c, s) \/ Fault(c, s) \/ ForkName(c, s) \/ Exec(c, s)
  PROVE  IInv'
<1>1. {"user", "exit", "sysret", "started", "exec"} \subseteq Plain \cap Locations
  BY Zenon DEF Plain, Locations
<1>2. CASE SysRet(c, s) \/ TimerExit(c, s)
  <2>1. \E l \in Locations : pc' = [pc EXCEPT ![s] = l]
    BY <1>1, <1>2, Zenon DEF SysRet, TimerExit, Goto
  <2>2. TypeOK'
    <3>1. UNCHANGED <<state, pid, parent, killed, chan, name, prog, nextpid, lock, cur, idx, back, np, panicked>>
      BY <1>2, Zenon DEF SysRet, TimerExit, table, local
    <3>2. pc' \in [Slot -> Locations]
      BY <2>1, FunType, Zenon DEF IInv, TypeOK
    <3> QED BY <3>1, <3>2, Zenon DEF IInv, TypeOK
  <2>3. Rest'
    BY <1>1, <1>2, PlainMove, Zenon DEF SysRet, TimerExit, At, Goto, table, local
  <2> QED BY <2>2, <2>3, Zenon DEF IInv, Rest
<1>3. CASE Fault(c, s)
  <2>1. TypeOK' /\ \A t \in Slot \ {s} : ~killed[t] => ~killed'[t]
    BY <1>1, <1>3 DEF IInv, TypeOK, Fault, Goto, local
  <2>2. Rest'
    BY <1>1, <1>3, <2>1, PlainMove, Zenon DEF Fault, At, Goto, local
  <2> QED BY <2>1, <2>2, Zenon DEF IInv, Rest
<1>4. CASE ForkName(c, s)
  <2>1. TypeOK' /\ \A t \in Slot \ {s} : np'[t] = np[t]
    BY <1>1, <1>4 DEF IInv, TypeOK, ForkName, Goto, table
  <2>2. Rest'
    BY <1>1, <1>4, <2>1, PlainMove, Zenon DEF ForkName, At, Goto, table
  <2> QED BY <2>1, <2>2, Zenon DEF IInv, Rest
<1>5. CASE Exec(c, s)
  <2>1. PICK p \in Programs : name' = [name EXCEPT ![s] = p] /\ prog' = [prog EXCEPT ![s] = p]
    BY <1>5, Zenon DEF Exec
  <2>2. TypeOK'
    BY <1>1, <1>5, <2>1 DEF IInv, TypeOK, Exec, Goto, table, local
  <2>3. /\ state[s] = "RUNNING" /\ pc[s] = "exec" /\ pc' = [pc EXCEPT ![s] = "sysret"]
        /\ UNCHANGED <<state, pid, parent, killed, chan, nextpid, lock, cur, back, np>>
    BY <1>5, Zenon DEF Exec, At, Goto, table, local
  <2>4. Rest'
    BY <1>1, <2>3, PlainMove, Zenon
  <2> QED BY <2>2, <2>4, Zenon DEF IInv, Rest
<1> QED BY <1>2, <1>3, <1>4, <1>5, Zenon

(* A scan of the table finds the lowest slot it looks for. *)
Least == \A S \in SUBSET Slot : S # {} => \E n \in S : \A m \in S : n <= m

LEMMA LowestIn ==
  ASSUME Least, NEW S \in SUBSET Slot, S # {}
  PROVE  (CHOOSE n \in S : \A m \in S : n <= m) \in S
BY Zenon DEF Least

LEMMA AllocprocStep == ASSUME Least, IInv, NEW c \in CPU, NEW s \in Slot, Allocproc(c, s) PROVE IInv'
<1>. DEFINE free == {n \in Slot : state[n] = "UNUSED"}
            n == CHOOSE n \in free : \A m \in free : n <= m
<1>1. /\ state[s] = "RUNNING" /\ pc[s] = "fork"
      /\ UNCHANGED <<parent, killed, chan, name, prog, lock, cur, idx, back, panicked>>
  BY Zenon DEF Allocproc, At
<1>2. CASE free = {}
  <2>1. pc' = [pc EXCEPT ![s] = "sysret"] /\ UNCHANGED <<state, pid, nextpid, np>>
    BY <1>2, Zenon DEF Allocproc, Goto
  <2>2. TypeOK'
    BY <1>1, <2>1 DEF IInv, TypeOK, Locations
  <2>3. "sysret" \in Plain /\ "fork" \in Plain
    BY Zenon DEF Plain
  <2>4. Rest'
    BY <1>1, <2>1, <2>3, PlainMove, Zenon
  <2> QED BY <2>2, <2>4, Zenon DEF IInv, Rest
<1>3. CASE free # {}
  <2>1. n \in free
    BY <1>3, LowestIn, Zenon
  <2>2. /\ state' = [state EXCEPT ![n] = "EMBRYO"] /\ pid' = [pid EXCEPT ![n] = nextpid]
        /\ nextpid' = nextpid + 1 /\ np' = [np EXCEPT ![s] = n] /\ pc' = [pc EXCEPT ![s] = "embryo"]
    BY <1>3, Zenon DEF Allocproc, Goto
  <2>. HIDE DEF n
  <2>3. n \in Slot /\ state[n] = "UNUSED" /\ n # s
    BY <1>1, <2>1, Zenon
  <2>4. TypeOK'
    <3>1. "EMBRYO" \in States /\ "embryo" \in Locations /\ n \in Slot \cup {0} /\ nextpid + 1 \in Nat
      BY <2>3, Nextpid DEF States, Locations
    <3> QED BY <1>1, <2>2, <3>1, FunType, Nextpid, Zenon DEF IInv, TypeOK
  <2>5. /\ state'[n] = "EMBRYO" /\ np'[s] = n /\ pc'[s] = "embryo" /\ pid'[n] = nextpid
        /\ \A t \in Slot \ {n} : state'[t] = state[t] /\ pid'[t] = pid[t]
        /\ \A t \in Slot \ {s} : np'[t] = np[t] /\ pc'[t] = pc[t]
    BY <2>2, <2>3 DEF IInv, TypeOK
  <2>6. Stacks'
    <3>1. \A d \in CPU : cur[d] # n
      BY <2>3, Slots, Zenon DEF IInv, Stacks
    <3>2. \A d \in CPU : cur[d] # 0 => state'[cur[d]] = state[cur[d]]
      BY <2>5, <3>1, Refs, Zenon
    <3>3. \A t \in Slot : state'[t] = "RUNNING" => state[t] = "RUNNING"
      BY <2>5, Zenon
    <3>4. \A t \in Slot : pc'[t] \in {"yield", "waiting", "forkret"} => pc[t] = pc'[t]
      BY <2>5, Zenon
    <3> QED BY <1>1, <3>2, <3>3, <3>4, Zenon DEF IInv, Stacks
  <2>7. Threads'
    <3>1. pc'[n] = "forkret" /\ state'[s] = "RUNNING"
      BY <1>1, <2>3, <2>5, Zenon DEF IInv, Threads, Agree
    <3>2. Agree(state'[n], pc'[n]) /\ Agree(state'[s], pc'[s])
      BY <2>5, <3>1, Zenon DEF Agree
    <3> QED BY <2>5, <3>2, Zenon DEF IInv, Threads
  <2>8. Forks'
    <3>1. /\ Place(s)' = "embryo" /\ ~Forking(s)
          /\ \A t \in Slot \ {s} : (Forking(t)' <=> Forking(t)) /\ Place(t)' = Place(t)
      BY <1>1, <2>5, Zenon DEF Place, Forking
    <3>2. parent'[n] = 0
      BY <1>1, <2>3, Zenon DEF IInv, Forks, Unowned
    <3>3. \A t \in Slot : Forking(t) => np[t] # n /\ np[t] \in Slot
      BY <2>3, Zenon DEF IInv, Forks, Owned, TypeOK
    <3>4. Owned'
      <4>1. ASSUME NEW t \in Slot \ {s}, Forking(t)
            PROVE  /\ np'[t] # 0 /\ state'[np'[t]] = "EMBRYO"
                   /\ Place(t)' = "embryo" => parent'[np'[t]] = 0
                   /\ Place(t)' = "copied" => parent'[np'[t]] = t
        <5>1. /\ np'[t] = np[t] /\ state'[np[t]] = state[np[t]] /\ parent'[np[t]] = parent[np[t]]
              /\ Place(t)' = Place(t)
          BY <1>1, <2>5, <3>1, <3>3, <4>1, Zenon
        <5> QED BY <4>1, <5>1, Zenon DEF IInv, Forks, Owned
      <4>2. np'[s] # 0
        BY <2>3, <2>5, Slots, Zenon
      <4> QED BY <2>5, <3>1, <3>2, <4>1, <4>2, Zenon DEF Owned
    <3>5. OwnedOnce'
      <4>1. \A t \in Slot \ {s} : Forking(t)' => Forking(t) /\ np'[t] = np[t] /\ np'[t] # np'[s]
        BY <2>5, <3>1, <3>3, Zenon
      <4> QED BY <4>1, Zenon DEF IInv, Forks, OwnedOnce
    <3>6. Unowned'
      BY <1>1, <2>5, Zenon DEF IInv, Forks, Unowned
    <3> QED BY <3>4, <3>5, <3>6, Zenon DEF Forks
  <2>9. Family'
    <3>1. \A t \in Slot : Live(t) => Live(t)'
      BY <2>3, <2>5, Zenon DEF Live
    <3>2. \A t \in Slot : Live(t)' \/ state'[t] = "ZOMBIE" => Live(t) \/ state[t] = "ZOMBIE"
      BY <2>5, Zenon DEF Live
    <3>3. \A t \in Slot : parent[t] # 0 => parent[t] \in Slot
      BY Zenon DEF IInv, TypeOK
    <3> QED BY <1>1, <3>1, <3>2, <3>3, Slots, Zenon DEF IInv, Family, ParentLives, initproc
  <2>10. PidsDistinct'
    <3>1. \A t \in Slot \ {n} : state[t] # "UNUSED" => pid[t] \in 1 .. nextpid - 1
      BY Zenon DEF IInv, PidsDistinct
    <3>2. \A t \in Slot : state'[t] # "UNUSED" => pid'[t] \in 1 .. nextpid' - 1
      BY <2>2, <2>5, <3>1, Nextpid
    <3>3. \A t \in Slot \ {n} : state[t] # "UNUSED" => pid[t] # nextpid
      BY <3>1, Nextpid
    <3>4. \A t, u \in Slot : t # u /\ state'[t] # "UNUSED" /\ state'[u] # "UNUSED" => pid'[t] # pid'[u]
      <4>1. \A t, u \in Slot : t # u /\ state[t] # "UNUSED" /\ state[u] # "UNUSED" => pid[t] # pid[u]
        BY Zenon DEF IInv, PidsDistinct
      <4>2. pid'[n] = nextpid /\ \A t \in Slot \ {n} : pid'[t] = pid[t] /\ state'[t] = state[t]
        BY <2>5, Zenon
      <4>3. \A t \in Slot \ {n} : state'[t] # "UNUSED" => pid'[t] # pid'[n]
        BY <3>3, <4>2, Zenon
      <4>4. \A t, u \in Slot \ {n} :
               t # u /\ state'[t] # "UNUSED" /\ state'[u] # "UNUSED" => pid'[t] # pid'[u]
        BY <4>1, <4>2, Zenon
      <4> QED BY <4>3, <4>4, Zenon
    <3> QED BY <3>2, <3>4, Zenon DEF PidsDistinct
  <2>11. SleeperHasReason'
    BY <1>1, <2>5, Zenon DEF IInv, SleeperHasReason
  <2> QED BY <2>4, <2>6, <2>7, <2>8, <2>9, <2>10, <2>11, Zenon DEF IInv
<1> QED BY <1>2, <1>3, Zenon

LEMMA ForkFailStep == ASSUME IInv, NEW c \in CPU, NEW s \in Slot, ForkFail(c, s) PROVE IInv'
<1>. DEFINE n == np[s]
<1>1. /\ state[s] = "RUNNING" /\ pc[s] = "embryo"
      /\ state' = [state EXCEPT ![n] = "UNUSED"] /\ np' = [np EXCEPT ![s] = 0]
      /\ pc' = [pc EXCEPT ![s] = "sysret"]
      /\ UNCHANGED <<pid, parent, killed, chan, name, prog, nextpid, lock, cur, idx, back, panicked>>
  BY Zenon DEF ForkFail, At, Goto
<1>2. Forking(s) /\ Place(s) = "embryo"
  BY <1>1, Zenon DEF Forking, Place
<1>3. /\ n \in Slot \ {s} /\ state[n] = "EMBRYO" /\ pc[n] = "forkret" /\ \A d \in CPU : cur[d] # n
      /\ \A t \in Slot \ {s} : Forking(t) => np[t] # n
  BY <1>2, Embryo, Zenon
<1>4. parent[n] = 0
  BY <1>2, Zenon DEF IInv, Forks, Owned
<1>. HIDE DEF n
<1>5. TypeOK'
  <2>1. "UNUSED" \in States /\ "sysret" \in Locations /\ 0 \in Slot \cup {0}
    BY Zenon DEF States, Locations
  <2> QED BY <1>1, <2>1, FunType, Zenon DEF IInv, TypeOK
<1>6. /\ state'[n] = "UNUSED" /\ pc'[s] = "sysret"
      /\ \A t \in Slot \ {n} : state'[t] = state[t]
      /\ \A t \in Slot \ {s} : np'[t] = np[t] /\ pc'[t] = pc[t]
  BY <1>1, <1>3 DEF IInv, TypeOK
<1>7. Stacks'
  BY <1>1, <1>3, <1>6, StacksStep, Zenon
<1>8. Threads'
  <2>1. pc'[n] = "forkret" /\ state'[s] = "RUNNING"
    BY <1>1, <1>3, <1>6, Zenon
  <2> QED BY <1>6, <2>1, Zenon DEF IInv, Threads, Agree
<1>9. Forks'
  <2>1. /\ ~Forking(s)'
        /\ \A t \in Slot \ {s} : (Forking(t)' <=> Forking(t)) /\ Place(t)' = Place(t)
    BY <1>1, <1>6, Zenon DEF Place, Forking
  <2>2. ASSUME NEW t \in Slot \ {s}, Forking(t)
        PROVE  np'[t] = np[t] /\ state'[np[t]] = state[np[t]]
    BY <1>3, <1>6, <2>2, Embryo, Zenon
  <2>3. Owned'
    <3>1. \A t \in Slot \ {s} : Forking(t) =>
            /\ np'[t] # 0 /\ state'[np'[t]] = "EMBRYO"
            /\ Place(t) = "embryo" => parent'[np'[t]] = 0
            /\ Place(t) = "copied" => parent'[np'[t]] = t
      <4>1. parent' = parent /\ \A t \in Slot \ {s} : np'[t] = np[t]
        BY <1>1, <1>6, Zenon
      <4> QED BY <2>2, <4>1, Zenon DEF IInv, Forks, Owned
    <3> QED BY <2>1, <3>1, Zenon DEF Owned
  <2>4. OwnedOnce'
    BY <1>6, <2>1, Zenon DEF IInv, Forks, OwnedOnce
  <2>5. Unowned'
    BY <1>1, <1>4, <1>6, Zenon DEF IInv, Forks, Unowned
  <2> QED BY <2>3, <2>4, <2>5, Zenon DEF Forks
<1>10. Family'
  BY <1>1, <1>3, <1>6, FamilyStep, Zenon DEF Live
<1>11. PidsDistinct'
  BY <1>1, <1>3, <1>6, PidsStep, Zenon
<1>12. SleeperHasReason'
  BY <1>1, <1>6, SleepStep, Zenon
<1> QED BY <1>5, <1>7, <1>8, <1>9, <1>10, <1>11, <1>12, Zenon DEF IInv

LEMMA ForkCopyStep == ASSUME IInv, NEW c \in CPU, NEW s \in Slot, ForkCopy(c, s) PROVE IInv'
<1>. DEFINE n == np[s]
<1>1. /\ state[s] = "RUNNING" /\ pc[s] = "embryo"
      /\ parent' = [parent EXCEPT ![n] = s] /\ prog' = [prog EXCEPT ![n] = prog[s]]
      /\ pc' = [pc EXCEPT ![s] = "copied", ![n] = "forkret"]
      /\ UNCHANGED <<state, pid, killed, chan, name, nextpid, lock, cur, idx, back, np, panicked>>
  BY Zenon DEF ForkCopy, At, local
<1>2. Forking(s) /\ Place(s) = "embryo"
  BY <1>1, Zenon DEF Forking, Place
<1>3. /\ n \in Slot \ {s, initproc} /\ state[n] = "EMBRYO" /\ pc[n] = "forkret" /\ \A d \in CPU : cur[d] # n
      /\ \A t \in Slot \ {s} : Forking(t) => np[t] # n
  BY <1>2, Embryo, Zenon
<1>4. parent[n] = 0 /\ np[s] = n
  BY <1>2, Zenon DEF IInv, Forks, Owned
<1>. HIDE DEF n
<1>5. TypeOK'
  <2>1. "copied" \in Locations /\ "forkret" \in Locations /\ s \in Slot \cup {0} /\ prog[s] \in Programs
    BY Zenon DEF Locations, IInv, TypeOK
  <2>2. pc' \in [Slot -> Locations]
    BY <1>1, <2>1 DEF IInv, TypeOK
  <2> QED BY <1>1, <2>1, <2>2, FunType, Zenon DEF IInv, TypeOK
<1>6. /\ pc'[s] = "copied" /\ parent'[n] = s
      /\ \A t \in Slot \ {s} : pc'[t] = pc[t]
      /\ \A t \in Slot \ {n} : parent'[t] = parent[t]
  BY <1>1, <1>3 DEF IInv, TypeOK
<1>7. Stacks'
  <2>1. /\ state' = state /\ cur' = cur /\ lock' = lock
        /\ \A t \in Slot : pc'[t] \in {"yield", "waiting", "forkret"} => pc'[t] = pc[t]
    BY <1>1, <1>6, Zenon
  <2> QED BY <2>1, Zenon DEF IInv, Stacks
<1>8. Threads'
  <2>1. state' = state /\ Agree(state[s], pc'[s])
    BY <1>1, <1>6, Zenon DEF Agree
  <2> QED BY <1>6, <2>1, Zenon DEF IInv, Threads
<1>9. Forks'
  <2>1. /\ Place(s)' = "copied"
        /\ \A t \in Slot : Forking(t)' <=> Forking(t)
        /\ \A t \in Slot \ {s} : Place(t)' = Place(t)
    BY <1>1, <1>6, Zenon DEF Place, Forking
  <2>2. ASSUME NEW t \in Slot \ {s}, Forking(t)
        PROVE  parent'[np[t]] = parent[np[t]]
    BY <1>3, <1>6, <2>2, Embryo, Zenon
  <2>3. Owned'
    <3>1. np'[s] # 0 /\ state'[np'[s]] = "EMBRYO" /\ parent'[np'[s]] = s
      BY <1>1, <1>3, <1>4, <1>6, Slots, Zenon
    <3>2. \A t \in Slot \ {s} : Forking(t)' =>
            /\ np'[t] # 0 /\ state'[np'[t]] = "EMBRYO"
            /\ Place(t)' = "embryo" => parent'[np'[t]] = 0
            /\ Place(t)' = "copied" => parent'[np'[t]] = t
      BY <1>1, <2>1, <2>2, Zenon DEF IInv, Forks, Owned
    <3> QED BY <2>1, <3>1, <3>2, Zenon DEF Owned
  <2>4. OwnedOnce'
    BY <1>1, <2>1, Zenon DEF IInv, Forks, OwnedOnce
  <2>5. Unowned'
    BY <1>1, <1>3, <1>6, Zenon DEF IInv, Forks, Unowned
  <2> QED BY <2>3, <2>4, <2>5, Zenon DEF Forks
<1>10. Family'
  <2>1. Live(initproc) /\ parent'[initproc] = 0 /\ \A t \in Slot : parent'[t] # t
    BY <1>3, <1>6, Slots, Zenon DEF IInv, Family
  <2>2. ASSUME NEW t \in Slot \ {initproc}, Live(t) \/ state[t] = "ZOMBIE"
        PROVE  parent'[t] # 0 /\ Live(parent'[t])
    <3>1. t # n
      BY <1>3, <2>2, Zenon DEF Live
    <3> QED BY <1>6, <2>2, <3>1, Zenon DEF IInv, Family, ParentLives
  <2>3. \A t : Live(t)' <=> Live(t)
    BY <1>1, Zenon DEF Live
  <2> QED BY <1>1, <2>1, <2>2, <2>3, Zenon DEF Family, ParentLives, initproc, Live
<1>11. PidsDistinct'
  BY <1>1, PidsStep, Zenon
<1>12. SleeperHasReason'
  <2>1. \A t, q \in Slot : parent[q] = t => parent'[q] = t
    BY <1>4, <1>6, Slots, Zenon
  <2>2. \A t, q \in Slot : parent'[q] = t /\ state[q] = "ZOMBIE" => parent[q] = t
    BY <1>3, <1>6, Zenon
  <2>3. ASSUME NEW t \in Slot, state[t] = "SLEEPING"
        PROVE  /\ \E q \in Slot : parent'[q] = t
               /\ \A q \in Slot : parent'[q] = t => state[q] # "ZOMBIE"
    <3>1. PICK q \in Slot : parent[q] = t
      BY <2>3, Zenon DEF IInv, SleeperHasReason
    <3>2. \A r \in Slot : parent[r] = t => state[r] # "ZOMBIE"
      BY <2>3, Zenon DEF IInv, SleeperHasReason
    <3> QED BY <2>1, <2>2, <3>1, <3>2, Zenon
  <2> QED BY <1>1, <2>3, Zenon DEF IInv, SleeperHasReason
<1> QED BY <1>5, <1>7, <1>8, <1>9, <1>10, <1>11, <1>12, Zenon DEF IInv

LEMMA ForkRunStep == ASSUME IInv, NEW c \in CPU, NEW s \in Slot, ForkRun(c, s) PROVE IInv'
<1>. DEFINE n == np[s]
<1>1. /\ state[s] = "RUNNING" /\ pc[s] = "copied"
      /\ state' = [state EXCEPT ![n] = "RUNNABLE"] /\ pc' = [pc EXCEPT ![s] = "started"]
      /\ UNCHANGED <<pid, parent, killed, chan, name, prog, nextpid, lock, cur, idx, back, np, panicked>>
  BY Zenon DEF ForkRun, At, Goto, local
<1>2. Forking(s) /\ Place(s) = "copied"
  BY <1>1, Zenon DEF Forking, Place
<1>3. /\ n \in Slot \ {s, initproc} /\ state[n] = "EMBRYO" /\ pc[n] = "forkret" /\ \A d \in CPU : cur[d] # n
      /\ \A t \in Slot \ {s} : Forking(t) => np[t] # n
  BY <1>2, Embryo, Zenon
<1>4. parent[n] = s
  BY <1>2, Zenon DEF IInv, Forks, Owned
<1>. HIDE DEF n
<1>5. TypeOK'
  <2>1. "RUNNABLE" \in States /\ "started" \in Locations
    BY Zenon DEF States, Locations
  <2> QED BY <1>1, <2>1, FunType, Zenon DEF IInv, TypeOK
<1>6. /\ state'[n] = "RUNNABLE" /\ pc'[s] = "started"
      /\ \A t \in Slot \ {n} : state'[t] = state[t]
      /\ \A t \in Slot \ {s} : pc'[t] = pc[t]
  BY <1>1, <1>3 DEF IInv, TypeOK
<1>7. Stacks'
  BY <1>1, <1>3, <1>6, StacksStep, Zenon
<1>8. Threads'
  <2>1. pc'[n] = "forkret" /\ state'[s] = "RUNNING"
    BY <1>1, <1>3, <1>6, Zenon
  <2> QED BY <1>6, <2>1, Zenon DEF IInv, Threads, Agree
<1>9. Forks'
  <2>1. /\ ~Forking(s)'
        /\ \A t \in Slot \ {s} : (Forking(t)' <=> Forking(t)) /\ Place(t)' = Place(t)
    BY <1>1, <1>6, Zenon DEF Place, Forking
  <2>2. ASSUME NEW t \in Slot \ {s}, Forking(t)
        PROVE  state'[np[t]] = state[np[t]]
    BY <1>3, <1>6, <2>2, Embryo, Zenon
  <2>3. Owned'
    <3>1. \A t \in Slot \ {s} : Forking(t) =>
            /\ np'[t] # 0 /\ state'[np'[t]] = "EMBRYO"
            /\ Place(t) = "embryo" => parent'[np'[t]] = 0
            /\ Place(t) = "copied" => parent'[np'[t]] = t
      <4>1. parent' = parent /\ \A t \in Slot \ {s} : np'[t] = np[t]
        BY <1>1, <1>6, Zenon
      <4> QED BY <2>2, <4>1, Zenon DEF IInv, Forks, Owned
    <3> QED BY <2>1, <3>1, Zenon DEF Owned
  <2>4. OwnedOnce'
    BY <1>1, <2>1, Zenon DEF IInv, Forks, OwnedOnce
  <2>5. Unowned'
    BY <1>1, <1>6, Zenon DEF IInv, Forks, Unowned
  <2> QED BY <2>3, <2>4, <2>5, Zenon DEF Forks
<1>10. Family'
  <2>1. \A t \in Slot : Live(t) => Live(t)'
    BY <1>3, <1>6, Zenon DEF Live
  <2>2. parent'[n] # 0 /\ Live(s)'
    BY <1>1, <1>2, <1>4, <2>1, Embryo, Slots, Zenon
  <2>3. ASSUME NEW t \in Slot \ {initproc, n}, Live(t)' \/ state'[t] = "ZOMBIE"
        PROVE  parent'[t] # 0 /\ Live(parent[t])'
    <3>1. Live(t) \/ state[t] = "ZOMBIE"
      BY <1>6, <2>3, Zenon DEF Live
    <3>2. parent[t] # 0 /\ Live(parent[t]) /\ parent[t] \in Slot
      BY <3>1, Refs, Zenon DEF IInv, Family, ParentLives
    <3> QED BY <1>1, <2>1, <3>2, Zenon
  <2>4. ParentLives'
    BY <1>1, <1>4, <2>2, <2>3, Zenon DEF ParentLives
  <2>5. Live(initproc)'
    BY <2>1, Slots, Zenon DEF IInv, Family
  <2> QED BY <1>1, <2>4, <2>5, Zenon DEF IInv, Family, initproc
<1>11. PidsDistinct'
  BY <1>1, <1>3, <1>6, PidsStep, Zenon
<1>12. SleeperHasReason'
  BY <1>1, <1>6, SleepStep, Zenon
<1> QED BY <1>5, <1>7, <1>8, <1>9, <1>10, <1>11, <1>12, Zenon DEF IInv

(* Somebody who does not hold the lock, or runs with it, sees no process    *)
(* but itself on the way through swtch().                                   *)
LEMMA NobodySwitches ==
  ASSUME IInv, NEW c \in CPU, NEW s \in Slot, cur[c] = s, state[s] = "RUNNING", lock = NoCPU \/ lock = c
  PROVE  /\ \A d \in CPU : cur[d] # 0 => state[cur[d]] = "RUNNING"
         /\ \A d \in CPU \ {c} : cur[d] # s
         /\ \A t \in Slot \ {s} : state[t] = "RUNNING" => pc[t] \notin {"yield", "waiting", "forkret"}
<1>1. NoCPU \notin CPU /\ s # 0
  BY ProcAssumption, Slots, Zenon
<1> QED BY <1>1, Zenon DEF IInv, Stacks

LEMMA KillStep == ASSUME Least, IInv, NEW c \in CPU, NEW s \in Slot, NEW p, Kill(c, s, p) PROVE IInv'
<1>. DEFINE found == {q \in Slot : pid[q] = p}
            v == CHOOSE q \in found : \A r \in found : q <= r
<1>1. /\ state[s] = "RUNNING" /\ pc[s] = "kill" /\ cur[c] = s /\ lock = NoCPU
      /\ pc' = [pc EXCEPT ![s] = "sysret"]
      /\ UNCHANGED <<pid, parent, chan, name, prog, nextpid, lock, cur, idx, back, np, panicked>>
  BY Zenon DEF Kill, At, Goto, local
<1>2. /\ state' \in [Slot -> States] /\ killed' \in [Slot -> BOOLEAN]
      /\ \A t \in Slot : \/ state'[t] = state[t] /\ (~killed[t] => ~killed'[t])
                         \/ state[t] = "SLEEPING" /\ state'[t] = "RUNNABLE"
                         \/ state[t] # "SLEEPING" /\ state'[t] = state[t]
  <2>1. CASE found = {}
    <3>1. state' = state /\ killed' = killed
      BY <2>1, Zenon DEF Kill
    <3> QED BY <3>1, Zenon DEF IInv, TypeOK
  <2>2. CASE found # {}
    <3>1. v \in Slot
      BY <2>2, LowestIn, Zenon
    <3>2. /\ killed' = [killed EXCEPT ![v] = TRUE]
          /\ state' = [state EXCEPT ![v] = IF @ = "SLEEPING" THEN "RUNNABLE" ELSE @]
      BY <2>2, Zenon DEF Kill
    <3>. HIDE DEF v
    <3>3. "RUNNABLE" \in States /\ state[v] \in States
      BY <3>1, Zenon DEF States, IInv, TypeOK
    <3>4. /\ state' \in [Slot -> States] /\ state'[v] = IF state[v] = "SLEEPING" THEN "RUNNABLE" ELSE state[v]
          /\ \A t \in Slot \ {v} : state'[t] = state[t]
      BY <3>1, <3>2, <3>3 DEF IInv, TypeOK
    <3>5. killed' \in [Slot -> BOOLEAN] /\ \A t \in Slot \ {v} : ~killed[t] => ~killed'[t]
      BY <3>1, <3>2 DEF IInv, TypeOK
    <3> QED BY <3>4, <3>5, Zenon
  <2> QED BY <2>1, <2>2, Zenon
<1>3. TypeOK'
  <2>1. "sysret" \in Locations
    BY Zenon DEF Locations
  <2> QED BY <1>1, <1>2, <2>1, FunType, Zenon DEF IInv, TypeOK
<1>4. pc'[s] = "sysret" /\ \A t \in Slot \ {s} : pc'[t] = pc[t]
  BY <1>1 DEF IInv, TypeOK
<1>5. Stacks'
  <2>1. \A d \in CPU : cur[d] # 0 => state'[cur[d]] = "RUNNING" /\ state[cur[d]] = "RUNNING"
    BY <1>1, <1>2, NobodySwitches, Refs, Zenon
  <2>2. \A t \in Slot : state'[t] = "RUNNING" => pc'[t] \notin {"yield", "waiting", "forkret"}
    <3>1. \A t \in Slot : state'[t] = "RUNNING" => state[t] = "RUNNING"
      BY <1>2, Zenon
    <3>2. \A t \in Slot \ {s} : state[t] = "RUNNING" => pc[t] \notin {"yield", "waiting", "forkret"}
      BY <1>1, NobodySwitches, Zenon
    <3> QED BY <1>4, <3>1, <3>2, Zenon
  <2> QED BY <1>1, <2>1, <2>2, Zenon DEF IInv, Stacks
<1>6. Threads'
  <2>1. ASSUME NEW t \in Slot \ {s}
        PROVE  Agree(state'[t], pc[t])
    BY <1>2, Zenon DEF IInv, Threads, Agree
  <2>2. state'[s] = "RUNNING"
    BY <1>1, <1>2, Zenon
  <2>3. Agree(state'[s], pc'[s])
    BY <1>4, <2>2, Zenon DEF Agree
  <2>4. \A t \in Slot \ {s} : Agree(state'[t], pc'[t])
    BY <1>4, <2>1, Zenon
  <2> QED BY <2>3, <2>4, Zenon DEF Threads
<1>7. Forks'
  <2>1. \A t \in Slot : /\ Place(t)' = "embryo" <=> Place(t) = "embryo"
                        /\ Place(t)' = "copied" <=> Place(t) = "copied"
    BY <1>1, <1>4, Zenon DEF Place
  <2> QED BY <1>1, <1>2, <2>1, ForksStep, Zenon
<1>8. Family'
  BY <1>1, <1>2, FamilyStep, Zenon DEF Live
<1>9. PidsDistinct'
  BY <1>1, <1>2, PidsStep, Zenon
<1>10. SleeperHasReason'
  BY <1>1, <1>2, SleepStep, Zenon
<1> QED BY <1>3, <1>5, <1>6, <1>7, <1>8, <1>9, <1>10, Zenon DEF IInv

(* exit() wakes its parent, and init when it leaves it a zombie. *)
LEMMA WakeFacts ==
  ASSUME IInv, NEW s \in Slot
  PROVE  /\ WakeForExit(s) \in [Slot -> States]
         /\ \A t \in Slot : \/ WakeForExit(s)[t] = state[t]
                            \/ state[t] = "SLEEPING" /\ WakeForExit(s)[t] = "RUNNABLE"
         /\ \A t \in Slot : WakeForExit(s)[t] = "SLEEPING" =>
              /\ chan[t] # parent[s]
              /\ \A q \in Slot : parent[q] = s /\ state[q] = "ZOMBIE" => chan[t] # initproc
<1>. DEFINE st == Wakeup1(state, parent[s])
            su == Wakeup1(st, initproc)
<1>1. "RUNNABLE" \in States /\ \A t \in Slot : state[t] \in States
  BY Zenon DEF States, IInv, TypeOK
<1>2. /\ st \in [Slot -> States]
      /\ \A t \in Slot : st[t] = IF state[t] = "SLEEPING" /\ chan[t] = parent[s] THEN "RUNNABLE" ELSE state[t]
  BY <1>1, Zenon DEF Wakeup1
<1>. HIDE DEF st
<1>3. /\ su \in [Slot -> States]
      /\ \A t \in Slot : su[t] = IF st[t] = "SLEEPING" /\ chan[t] = initproc THEN "RUNNABLE" ELSE st[t]
  BY <1>1, <1>2, Zenon DEF Wakeup1
<1>. HIDE DEF su
<1>4. WakeForExit(s) = IF \E q \in Slot : parent[q] = s /\ state[q] = "ZOMBIE" THEN su ELSE st
  BY Zenon DEF WakeForExit, st, su
<1>5. CASE \E q \in Slot : parent[q] = s /\ state[q] = "ZOMBIE"
  <2>1. WakeForExit(s) = su
    BY <1>4, <1>5, Zenon
  <2> QED BY <1>2, <1>3, <2>1
<1>6. CASE ~\E q \in Slot : parent[q] = s /\ state[q] = "ZOMBIE"
  <2>1. WakeForExit(s) = st
    BY <1>4, <1>6, Zenon
  <2> QED BY <1>2, <1>6, <2>1
<1> QED BY <1>5, <1>6, Zenon

LEMMA ExitStep == ASSUME IInv, NEW c \in CPU, NEW s \in Slot, Exit(c, s) PROVE IInv'
<1>. DEFINE st == WakeForExit(s)
<1>1. /\ state[s] = "RUNNING" /\ pc[s] = "exit" /\ cur[c] = s /\ lock = NoCPU /\ s # initproc
      /\ lock' = c /\ UNCHANGED <<pid, killed, chan, name, prog, nextpid, cur, idx, back, np, panicked>>
  BY Zenon DEF Exit, At, local
<1>a. state' = [st EXCEPT ![s] = "ZOMBIE"] /\ parent' = Adopt(s) /\ pc' = [pc EXCEPT ![s] = "dead"]
  BY Zenon DEF Exit, Goto
<1>2. st \in [Slot -> States] /\ pc \in [Slot -> Locations]
  BY WakeFacts, Zenon DEF IInv, TypeOK
<1>3. \A t \in Slot : st[t] = state[t] \/ (state[t] = "SLEEPING" /\ st[t] = "RUNNABLE")
  BY WakeFacts, Zenon
<1>4. \A t \in Slot : st[t] = "SLEEPING" =>
        /\ chan[t] # parent[s]
        /\ \A q \in Slot : parent[q] = s /\ state[q] = "ZOMBIE" => chan[t] # initproc
  BY WakeFacts, Zenon
<1>. HIDE DEF st
<1>5. /\ state'[s] = "ZOMBIE" /\ \A t \in Slot \ {s} : state'[t] = st[t]
      /\ pc'[s] = "dead" /\ \A t \in Slot \ {s} : pc'[t] = pc[t]
  BY <1>a, <1>2, FunAt, Zenon
<1>6. \A t \in Slot \ {s} : state'[t] = state[t] \/ (state[t] = "SLEEPING" /\ state'[t] = "RUNNABLE")
  BY <1>3, <1>5, Zenon
<1>7. \A t \in Slot : state'[t] = "SLEEPING" =>
        /\ chan[t] # parent[s]
        /\ \A q \in Slot : parent[q] = s /\ state[q] = "ZOMBIE" => chan[t] # initproc
  BY <1>4, <1>5, Zenon
<1>8. /\ \A t \in Slot : parent[t] = s => parent'[t] = initproc
      /\ \A t \in Slot : parent[t] # s => parent'[t] = parent[t]
  BY <1>a, Zenon DEF Adopt
<1>9. TypeOK'
  <2>1. "ZOMBIE" \in States /\ "dead" \in Locations
    BY Zenon DEF States, Locations
  <2>2. parent' \in [Slot -> Slot \cup {0}]
    BY <1>a, Slots, Zenon DEF Adopt, IInv, TypeOK
  <2> QED BY <1>1, <1>a, <1>2, <2>1, <2>2, FunType, Zenon DEF IInv, TypeOK
<1>10. Stacks'
  <2>1. \A d \in CPU \ {c} : cur[d] # 0 => cur[d] # s /\ state'[cur[d]] = "RUNNING"
    <3>1. \A d \in CPU \ {c} : cur[d] # 0 => state[cur[d]] = "RUNNING" /\ cur[d] \in Slot \ {s}
      BY <1>1, NobodySwitches, Refs, Zenon
    <3>2. \A t \in Slot \ {s} : state[t] = "RUNNING" => state'[t] = "RUNNING"
      BY <1>6, Zenon
    <3> QED BY <3>1, <3>2, Zenon
  <2>2. \A t \in Slot : state'[t] = "RUNNING" => t # s /\ state[t] = "RUNNING"
    BY <1>5, <1>6, Zenon
  <2>3. \A t \in Slot : state'[t] = "RUNNING" => pc'[t] \notin {"yield", "waiting", "forkret"}
    <3>1. \A t \in Slot \ {s} : state[t] = "RUNNING" => pc[t] \notin {"yield", "waiting", "forkret"}
      BY <1>1, NobodySwitches, Zenon
    <3>2. \A t \in Slot \ {s} : pc'[t] = pc[t]
      BY <1>5, Zenon
    <3> QED BY <2>2, <3>1, <3>2, Zenon
  <2>4. cur' = cur /\ lock' = c /\ cur[c] = s /\ state'[s] = "ZOMBIE"
    BY <1>1, <1>5, Zenon
  <2>5. \A d, e \in CPU : cur[d] = cur[e] /\ cur[d] # 0 => d = e
    BY Zenon DEF IInv, Stacks
  <2> QED BY <2>1, <2>3, <2>4, <2>5, Zenon DEF Stacks
<1>11. Threads'
  <2>1. ASSUME NEW t \in Slot \ {s}
        PROVE  Agree(state'[t], pc[t])
    BY <1>5, <1>6, Zenon DEF IInv, Threads, Agree
  <2> QED BY <1>5, <2>1, Zenon DEF Threads, Agree
<1>12. Forks'
  <2>1. /\ ~Forking(s) /\ ~Forking(s)'
        /\ \A t \in Slot \ {s} : (Forking(t)' <=> Forking(t)) /\ Place(t)' = Place(t)
    BY <1>1, <1>5, Zenon DEF Place, Forking
  <2>2. ASSUME NEW t \in Slot \ {s}, Forking(t)
        PROVE  state'[np[t]] = "EMBRYO" /\ parent'[np[t]] = parent[np[t]]
    <3>1. np[t] \in Slot /\ state[np[t]] = "EMBRYO"
      BY <2>2, Embryo, Zenon
    <3>2. parent[np[t]] # s
      BY <2>2, Slots, Zenon DEF IInv, Forks, Owned, Forking
    <3> QED BY <1>1, <1>5, <1>6, <1>8, <3>1, <3>2, Zenon
  <2>3. Owned'
    <3>1. \A t \in Slot \ {s} : Forking(t) =>
            /\ np'[t] # 0 /\ state'[np'[t]] = "EMBRYO"
            /\ Place(t) = "embryo" => parent'[np'[t]] = 0
            /\ Place(t) = "copied" => parent'[np'[t]] = t
      <4>1. np' = np
        BY <1>1, Zenon
      <4> QED BY <2>2, <4>1, Zenon DEF IInv, Forks, Owned
    <3> QED BY <2>1, <3>1, Zenon DEF Owned
  <2>4. OwnedOnce'
    BY <1>1, <1>5, <2>1, Zenon DEF IInv, Forks, OwnedOnce
  <2>5. Unowned'
    <3>1. \A t \in Slot : state'[t] = "UNUSED" => state[t] = "UNUSED"
      BY <1>5, <1>6, Zenon
    <3> QED BY <1>8, <3>1, Slots, Zenon DEF IInv, Forks, Unowned
  <2> QED BY <2>3, <2>4, <2>5, Zenon DEF Forks
<1>13. Family'
  <2>1. \A t \in Slot \ {s} : Live(t) => Live(t)'
    BY <1>5, <1>6, Zenon DEF Live
  <2>2. Live(initproc)' /\ parent'[initproc] = 0
    BY <1>1, <1>5, <1>8, <2>1, Slots, Zenon DEF IInv, Family
  <2>3. ASSUME NEW t \in Slot PROVE parent'[t] # t
    BY <1>8, Slots, Zenon DEF IInv, Family
  <2>4. ASSUME NEW t \in Slot \ {initproc}, Live(t)' \/ state'[t] = "ZOMBIE"
        PROVE  parent'[t] # 0 /\ Live(parent[t])'
    <3>1. Live(t) \/ state[t] = "ZOMBIE"
      BY <1>1, <1>5, <1>6, <2>4, Zenon DEF Live
    <3>2. parent[t] # 0 /\ Live(parent[t]) /\ parent[t] \in Slot
      BY <3>1, Refs, Zenon DEF IInv, Family, ParentLives
    <3>3. CASE parent[t] = s
      BY <1>8, <2>2, <3>3, Slots, Zenon DEF Live
    <3>4. CASE parent[t] # s
      BY <1>8, <2>1, <3>2, <3>4, Zenon DEF Live
    <3> QED BY <3>3, <3>4, Zenon
  <2>5. ParentLives'
    BY <2>4, Zenon DEF ParentLives
  <2> QED BY <2>2, <2>3, <2>5, Zenon DEF Family, initproc
<1>14. PidsDistinct'
  BY <1>1, <1>5, <1>6, PidsStep, Zenon
<1>15. SleeperHasReason'
  <2>1. ASSUME NEW t \in Slot, state'[t] = "SLEEPING"
        PROVE  /\ chan'[t] = t /\ ~killed'[t]
               /\ \E q \in Slot : parent'[q] = t
               /\ \A q \in Slot : parent'[q] = t => state'[q] # "ZOMBIE"
    <3>1. t # s /\ state[t] = "SLEEPING"
      BY <1>5, <1>6, <2>1, Zenon
    <3>2. /\ chan[t] = t /\ ~killed[t]
          /\ \E q \in Slot : parent[q] = t
          /\ \A q \in Slot : parent[q] = t => state[q] # "ZOMBIE"
      BY <3>1, Zenon DEF IInv, SleeperHasReason
    <3>3. t # parent[s] /\ \A q \in Slot : parent[q] = s /\ state[q] = "ZOMBIE" => t # initproc
      BY <1>7, <2>1, <3>2, Zenon
    <3>4. \E q \in Slot : parent'[q] = t
      BY <1>8, <3>1, <3>2, Zenon
    <3>5. ASSUME NEW q \in Slot, parent'[q] = t PROVE state'[q] # "ZOMBIE"
      <4>1. CASE q = s
        <5>1. parent[s] # s
          BY Zenon DEF IInv, Family
        <5> QED BY <1>8, <3>3, <3>5, <4>1, <5>1, Zenon
      <4>2. CASE q # s
        <5>1. state'[q] = "ZOMBIE" => state[q] = "ZOMBIE"
          BY <1>5, <1>6, <4>2, Zenon
        <5> QED BY <1>8, <3>2, <3>3, <3>5, <5>1, Zenon
      <4> QED BY <4>1, <4>2, Zenon
    <3> QED BY <1>1, <1>5, <3>2, <3>4, <3>5, Zenon
  <2> QED BY <2>1, Zenon DEF SleeperHasReason
<1> QED BY <1>9, <1>10, <1>11, <1>12, <1>13, <1>14, <1>15, Zenon DEF IInv

(* wait() reaps q. *)
LEMMA ReapStep ==
  ASSUME IInv, NEW c \in CPU, NEW s \in Slot, cur[c] = s, state[s] = "RUNNING", lock = NoCPU \/ lock = c,
         pc[s] \in {"wait", "waiting"}, NEW q \in Slot \ {s}, parent[q] = s, state[q] = "ZOMBIE",
         lock' = NoCPU, UNCHANGED <<nextpid, cur, back, np>>,
         state'[q] = "UNUSED", parent'[q] = 0,
         \A t \in Slot \ {q} : state'[t] = state[t] /\ parent'[t] = parent[t] /\ pid'[t] = pid[t],
         \A t \in Slot : ~killed[t] => ~killed'[t],
         pc'[s] = "sysret", pc'[q] = "forkret", \A t \in Slot \ {s, q} : pc'[t] = pc[t],
         \A t \in Slot \ {s} : chan'[t] = chan[t]
  PROVE  Rest'
<1>1. pc[q] = "dead"
  BY Zenon DEF IInv, Threads, Agree
<1>2. Stacks'
  <2>1. /\ \A d \in CPU : cur[d] # 0 => state[cur[d]] = "RUNNING"
        /\ \A t \in Slot \ {s} : state[t] = "RUNNING" => pc[t] \notin {"yield", "waiting", "forkret"}
    BY NobodySwitches, Zenon
  <2>2. \A d \in CPU : cur[d] # 0 => state'[cur[d]] = "RUNNING"
    BY <2>1, Refs, Zenon
  <2>3. \A t \in Slot : state'[t] = "RUNNING" => pc'[t] \notin {"yield", "waiting", "forkret"}
    BY <2>1, Zenon
  <2>4. \A d, e \in CPU : cur'[d] = cur'[e] /\ cur'[d] # 0 => d = e
    BY Zenon DEF IInv, Stacks
  <2> QED BY <2>2, <2>3, <2>4, Zenon DEF Stacks
<1>3. Threads'
  <2>1. Agree(state'[s], pc'[s]) /\ Agree(state'[q], pc'[q])
    BY Zenon DEF Agree
  <2>2. \A t \in Slot \ {s, q} : state'[t] = state[t] /\ pc'[t] = pc[t]
    BY Zenon
  <2> QED BY <2>1, <2>2, Zenon DEF IInv, Threads
<1>4. Forks'
  <2>1. \A t \in Slot : /\ Place(t)' = "embryo" <=> Place(t) = "embryo"
                        /\ Place(t)' = "copied" <=> Place(t) = "copied"
    BY <1>1, Zenon DEF Place
  <2>2. \A t \in Slot : Forking(t) => state'[np[t]] = "EMBRYO" /\ parent'[np[t]] = parent[np[t]]
    <3>1. \A t \in Slot : Forking(t) => np[t] \in Slot \ {q} /\ state[np[t]] = "EMBRYO"
      BY Embryo, Zenon
    <3> QED BY <3>1, Zenon
  <2>3. Unowned'
    BY Zenon DEF IInv, Forks, Unowned
  <2> QED BY <2>1, <2>2, <2>3, ForksKeep, Zenon
<1>5. Family'
  <2>1. \A t \in Slot : Live(t) => Live(t)' /\ t # q
    BY Zenon DEF Live
  <2>2. Live(initproc)' /\ parent'[initproc] = 0
    BY <2>1, Slots, Zenon DEF IInv, Family
  <2>3. ASSUME NEW t \in Slot PROVE parent'[t] # t
    <3>1. q # 0 /\ parent[t] # t
      BY Slots, Zenon DEF IInv, Family
    <3> QED BY <3>1, Zenon
  <2>4. ASSUME NEW t \in Slot \ {initproc}, Live(t)' \/ state'[t] = "ZOMBIE"
        PROVE  parent'[t] # 0 /\ Live(parent[t])'
    <3>1. t # q /\ (Live(t) \/ state[t] = "ZOMBIE")
      BY <2>4, Zenon DEF Live
    <3>2. parent[t] # 0 /\ Live(parent[t]) /\ parent[t] \in Slot
      BY <3>1, Refs, Zenon DEF IInv, Family, ParentLives
    <3>3. parent'[t] = parent[t]
      BY <3>1, Zenon
    <3> QED BY <2>1, <3>2, <3>3, Zenon DEF Live
  <2>5. ParentLives'
    BY <2>4, Zenon DEF ParentLives
  <2> QED BY <2>2, <2>3, <2>5, Zenon DEF Family, initproc
<1>6. PidsDistinct'
  <2>1. \A t \in Slot : state'[t] # "UNUSED" => state[t] # "UNUSED" /\ pid'[t] = pid[t]
    BY Zenon
  <2> QED BY <2>1, PidsStep, Zenon
<1>7. SleeperHasReason'
  <2>1. ASSUME NEW t \in Slot, state'[t] = "SLEEPING"
        PROVE  /\ chan'[t] = t /\ ~killed'[t]
               /\ \E r \in Slot : parent'[r] = t
               /\ \A r \in Slot : parent'[r] = t => state'[r] # "ZOMBIE"
    <3>1. t # s /\ state[t] = "SLEEPING"
      BY <1>1, <2>1, Zenon
    <3>2. /\ chan[t] = t /\ ~killed[t]
          /\ \E r \in Slot : parent[r] = t
          /\ \A r \in Slot : parent[r] = t => state[r] # "ZOMBIE"
      BY <3>1, Zenon DEF IInv, SleeperHasReason
    <3>3. \E r \in Slot : parent'[r] = t
      BY <3>1, <3>2, Zenon
    <3>4. \A r \in Slot : parent'[r] = t => state'[r] # "ZOMBIE"
      BY <3>2, Zenon
    <3> QED BY <3>1, <3>2, <3>3, <3>4, Zenon
  <2> QED BY <2>1, Zenon DEF SleeperHasReason
<1> QED BY <1>2, <1>3, <1>4, <1>5, <1>6, <1>7, Zenon DEF Rest

(* A process gives up ptable.lock. *)
LEMMA UnlockStep ==
  ASSUME IInv, NEW c \in CPU, NEW s \in Slot, cur[c] = s, state[s] = "RUNNING", lock = NoCPU \/ lock = c,
         lock' = NoCPU, UNCHANGED <<state, pid, parent, killed, nextpid, cur, np>>,
         pc'[s] \notin {"yield", "waiting", "forkret", "dead"},
         \A t \in Slot \ {s} : pc'[t] = pc[t] /\ chan'[t] = chan[t],
         \A t \in Slot : /\ Place(t)' = "embryo" <=> Place(t) = "embryo"
                         /\ Place(t)' = "copied" <=> Place(t) = "copied"
  PROVE  Rest'
<1>1. Stacks'
  <2>1. /\ \A d \in CPU : cur'[d] # 0 => state'[cur'[d]] = "RUNNING"
        /\ \A t \in Slot \ {s} : state[t] = "RUNNING" => pc[t] \notin {"yield", "waiting", "forkret"}
    BY NobodySwitches, Zenon
  <2>2. \A t \in Slot : state'[t] = "RUNNING" => pc'[t] \notin {"yield", "waiting", "forkret"}
    BY <2>1, Zenon
  <2>3. \A d, e \in CPU : cur'[d] = cur'[e] /\ cur'[d] # 0 => d = e
    BY Zenon DEF IInv, Stacks
  <2> QED BY <2>1, <2>2, <2>3, Zenon DEF Stacks
<1>2. Threads'
  <2>1. Agree(state'[s], pc'[s])
    BY Zenon DEF Agree
  <2> QED BY <2>1, Zenon DEF IInv, Threads
<1>3. Forks'
  BY ForksStep, Zenon
<1>4. Family'
  BY FamilyStep, Zenon DEF Live
<1>5. PidsDistinct'
  BY PidsStep, Zenon
<1>6. SleeperHasReason'
  BY SleepStep, Zenon
<1> QED BY <1>1, <1>2, <1>3, <1>4, <1>5, <1>6, Zenon DEF Rest

(* A process stops running inside sched(), as a sleeper or as runnable. *)
LEMMA StopStacks ==
  ASSUME IInv, NEW c \in CPU, NEW s \in Slot, cur[c] = s, state[s] = "RUNNING", lock = NoCPU \/ lock = c,
         lock' = c, cur' = cur, state'[s] \in {"SLEEPING", "RUNNABLE"},
         \A t \in Slot \ {s} : state'[t] = state[t] /\ pc'[t] = pc[t]
  PROVE  Stacks'
<1>1. /\ \A d \in CPU : cur[d] # 0 => state[cur[d]] = "RUNNING"
      /\ \A d \in CPU \ {c} : cur[d] # s
      /\ \A t \in Slot \ {s} : state[t] = "RUNNING" => pc[t] \notin {"yield", "waiting", "forkret"}
  BY NobodySwitches, Zenon
<1>2. \A d \in CPU \ {c} : cur[d] # 0 => state'[cur[d]] = "RUNNING"
  BY <1>1, Refs, Zenon
<1>3. \A t \in Slot : state'[t] = "RUNNING" => pc'[t] \notin {"yield", "waiting", "forkret"}
  BY <1>1, Zenon
<1>4. \A d, e \in CPU : cur[d] = cur[e] /\ cur[d] # 0 => d = e
  BY Zenon DEF IInv, Stacks
<1>5. \A d \in CPU : cur[d] # 0 => state'[cur[d]] \notin {"UNUSED", "EMBRYO"} /\ (state'[cur[d]] # "RUNNING" => d = c)
  BY <1>2, Zenon
<1> QED BY <1>3, <1>4, <1>5, Zenon DEF Stacks

(* wait() goes to sleep. *)
LEMMA WaitSleepStep ==
  ASSUME IInv, NEW c \in CPU, NEW s \in Slot, cur[c] = s, state[s] = "RUNNING", lock = NoCPU \/ lock = c,
         pc[s] \in {"wait", "waiting"}, lock' = c, UNCHANGED <<pid, parent, killed, nextpid, cur, back, np>>,
         state'[s] = "SLEEPING", pc'[s] = "waiting", chan'[s] = s, ~killed[s],
         \E q \in Slot : parent[q] = s, \A q \in Slot : parent[q] = s => state[q] # "ZOMBIE",
         \A t \in Slot \ {s} : state'[t] = state[t] /\ pc'[t] = pc[t] /\ chan'[t] = chan[t]
  PROVE  Rest'
<1>1. Stacks'
  BY StopStacks, Zenon
<1>2. Threads'
  <2>1. Agree(state'[s], pc'[s])
    BY Zenon DEF Agree
  <2> QED BY <2>1, Zenon DEF IInv, Threads
<1>3. Forks'
  <2>1. \A t \in Slot : /\ Place(t)' = "embryo" <=> Place(t) = "embryo"
                        /\ Place(t)' = "copied" <=> Place(t) = "copied"
    BY Zenon DEF Place
  <2> QED BY <2>1, ForksStep, Zenon
<1>4. Family'
  BY FamilyStep, Zenon DEF Live
<1>5. PidsDistinct'
  BY PidsStep, Zenon
<1>6. SleeperHasReason'
  <2>1. \A q \in Slot : state'[q] = "ZOMBIE" => state[q] = "ZOMBIE"
    BY Zenon
  <2>2. ASSUME NEW t \in Slot \ {s}, state'[t] = "SLEEPING"
        PROVE  /\ chan'[t] = t /\ ~killed'[t]
               /\ \E q \in Slot : parent'[q] = t
               /\ \A q \in Slot : parent'[q] = t => state'[q] # "ZOMBIE"
    <3>1. /\ chan[t] = t /\ ~killed[t]
          /\ \E q \in Slot : parent[q] = t
          /\ \A q \in Slot : parent[q] = t => state[q] # "ZOMBIE"
      BY <2>2, Zenon DEF IInv, SleeperHasReason
    <3> QED BY <2>1, <3>1, Zenon
  <2>3. /\ chan'[s] = s /\ ~killed'[s]
        /\ \E q \in Slot : parent'[q] = s
        /\ \A q \in Slot : parent'[q] = s => state'[q] # "ZOMBIE"
    BY <2>1, Zenon
  <2>4. ASSUME NEW t \in Slot, state'[t] = "SLEEPING"
        PROVE  /\ chan'[t] = t /\ ~killed'[t]
               /\ \E q \in Slot : parent'[q] = t
               /\ \A q \in Slot : parent'[q] = t => state'[q] # "ZOMBIE"
    <3>1. CASE t = s
      BY <2>3, <3>1, Zenon
    <3>2. CASE t # s
      BY <2>2, <2>4, <3>2, Zenon
    <3> QED BY <3>1, <3>2, Zenon
  <2> QED BY <2>4, Zenon DEF SleeperHasReason
<1> QED BY <1>1, <1>2, <1>3, <1>4, <1>5, <1>6, Zenon DEF Rest

LEMMA WaitSteps ==
  ASSUME Least, IInv, NEW c \in CPU, NEW s \in Slot, Wait(c, s) \/ WaitAgain(c, s)
  PROVE  IInv'
<1>. DEFINE kids == {q \in Slot : parent[q] = s}
            dead == {q \in kids : state[q] = "ZOMBIE"}
            q == CHOOSE q \in dead : \A r \in dead : q <= r
<1>1. /\ cur[c] = s /\ state[s] = "RUNNING" /\ (lock = NoCPU \/ lock = c) /\ pc[s] \in {"wait", "waiting"}
      /\ UNCHANGED <<prog, nextpid, cur, idx, back, np, panicked>>
  BY Zenon DEF Wait, WaitAgain, At, local
<1>2. pc \in [Slot -> Locations] /\ chan \in [Slot -> Slot \cup {0}] /\ state \in [Slot -> States]
  BY Zenon DEF IInv, TypeOK
<1>3. CASE dead # {}
  <2>1. q \in dead
    BY <1>3, LowestIn, Zenon
  <2>2. /\ state' = [state EXCEPT ![q] = "UNUSED"] /\ pid' = [pid EXCEPT ![q] = 0]
        /\ parent' = [parent EXCEPT ![q] = 0] /\ killed' = [killed EXCEPT ![q] = FALSE]
        /\ name' = [name EXCEPT ![q] = ""] /\ chan' = [chan EXCEPT ![s] = 0] /\ lock' = NoCPU
        /\ pc' = [pc EXCEPT ![s] = "sysret", ![q] = "forkret"]
    BY <1>3, Zenon DEF Wait, WaitAgain, WaitTurn
  <2>. HIDE DEF q
  <2>3. q \in Slot \ {s} /\ parent[q] = s /\ state[q] = "ZOMBIE"
    BY <1>1, <2>1, Zenon
  <2>4. TypeOK'
    <3>1. /\ "UNUSED" \in States /\ "sysret" \in Locations /\ "forkret" \in Locations /\ 0 \in Slot \cup {0}
          /\ "" \in Programs \cup {""} /\ FALSE \in BOOLEAN /\ NoCPU \in CPU \cup {NoCPU}
      BY Zenon DEF States, Locations
    <3>2. pc' \in [Slot -> Locations] /\ pid' \in [Slot -> Nat]
      BY <2>2, <3>1 DEF IInv, TypeOK
    <3> QED BY <1>1, <2>2, <3>1, <3>2, FunType, Zenon DEF IInv, TypeOK
  <2>5. /\ state'[q] = "UNUSED" /\ parent'[q] = 0
        /\ \A t \in Slot \ {q} : state'[t] = state[t] /\ parent'[t] = parent[t] /\ pid'[t] = pid[t]
    BY <2>2, <2>3 DEF IInv, TypeOK
  <2>6. \A t \in Slot : ~killed[t] => ~killed'[t]
    BY <2>2 DEF IInv, TypeOK
  <2>7. /\ pc'[s] = "sysret" /\ pc'[q] = "forkret" /\ \A t \in Slot \ {s, q} : pc'[t] = pc[t]
        /\ \A t \in Slot \ {s} : chan'[t] = chan[t]
    BY <1>2, <2>2, <2>3
  <2>8. lock' = NoCPU
    BY <2>2, Zenon
  <2>9. Rest'
    BY <1>1, <2>3, <2>5, <2>6, <2>7, <2>8, ReapStep, Zenon
  <2> QED BY <2>4, <2>9, Zenon DEF IInv, Rest
<1>4. CASE dead = {} /\ (kids = {} \/ killed[s])
  <2>1. /\ chan' = [chan EXCEPT ![s] = 0] /\ lock' = NoCPU /\ pc' = [pc EXCEPT ![s] = "sysret"]
        /\ UNCHANGED <<state, pid, parent, killed, name>>
    BY <1>4, Zenon DEF Wait, WaitAgain, WaitTurn, Goto
  <2>2. TypeOK'
    <3>1. "sysret" \in Locations /\ 0 \in Slot \cup {0} /\ NoCPU \in CPU \cup {NoCPU}
      BY Zenon DEF Locations
    <3> QED BY <1>1, <2>1, <3>1, FunType, Zenon DEF IInv, TypeOK
  <2>3. pc'[s] = "sysret" /\ \A t \in Slot \ {s} : pc'[t] = pc[t] /\ chan'[t] = chan[t]
    BY <1>2, <2>1
  <2>4. \A t \in Slot : /\ Place(t)' = "embryo" <=> Place(t) = "embryo"
                        /\ Place(t)' = "copied" <=> Place(t) = "copied"
    BY <1>1, <2>3, Zenon DEF Place
  <2>5. Rest'
    BY <1>1, <2>1, <2>3, <2>4, UnlockStep, Zenon
  <2> QED BY <2>2, <2>5, Zenon DEF IInv, Rest
<1>5. CASE dead = {} /\ ~(kids = {} \/ killed[s])
  <2>1. /\ chan' = [chan EXCEPT ![s] = s] /\ lock' = c /\ pc' = [pc EXCEPT ![s] = "waiting"]
        /\ state' = [state EXCEPT ![s] = "SLEEPING"] /\ UNCHANGED <<pid, parent, killed, name>>
    BY <1>5, Zenon DEF Wait, WaitAgain, WaitTurn, Goto
  <2>2. TypeOK'
    <3>1. "waiting" \in Locations /\ "SLEEPING" \in States /\ s \in Slot \cup {0} /\ c \in CPU \cup {NoCPU}
      BY Zenon DEF Locations, States
    <3> QED BY <1>1, <2>1, <3>1, FunType, Zenon DEF IInv, TypeOK
  <2>3. /\ state'[s] = "SLEEPING" /\ pc'[s] = "waiting" /\ chan'[s] = s
        /\ \A t \in Slot \ {s} : state'[t] = state[t] /\ pc'[t] = pc[t] /\ chan'[t] = chan[t]
    BY <1>2, <2>1
  <2>4. /\ ~killed[s] /\ \E r \in Slot : parent[r] = s
        /\ \A r \in Slot : parent[r] = s => state[r] # "ZOMBIE"
    BY <1>5, Zenon
  <2>5. lock' = c /\ UNCHANGED <<pid, parent, killed>>
    BY <2>1, Zenon
  <2>6. Rest'
    BY <1>1, <2>3, <2>4, <2>5, WaitSleepStep, Zenon
  <2> QED BY <2>2, <2>6, Zenon DEF IInv, Rest
<1> QED BY <1>3, <1>4, <1>5, Zenon

LEMMA YieldStep == ASSUME IInv, NEW c \in CPU, NEW s \in Slot, Yield(c, s) PROVE IInv'
<1>1. /\ cur[c] = s /\ state[s] = "RUNNING" /\ lock = NoCPU /\ lock' = c
      /\ UNCHANGED <<pid, parent, killed, chan, name, prog, nextpid, cur, idx, np, panicked>>
  BY Zenon DEF Yield, At
<1>2. /\ back' = [back EXCEPT ![s] = pc[s]] /\ state' = [state EXCEPT ![s] = "RUNNABLE"]
      /\ pc' = [pc EXCEPT ![s] = "yield"]
  BY Zenon DEF Yield, Goto
<1>3. pc[s] \in Locations \ {"yield", "waiting", "dead", "forkret"}
  <2>1. lock \notin CPU
    BY <1>1, ProcAssumption, Zenon
  <2>2. pc[s] \notin {"yield", "waiting", "forkret"}
    BY <1>1, <2>1, Zenon DEF IInv, Stacks
  <2>3. pc[s] # "dead" /\ pc[s] \in Locations
    BY <1>1, Zenon DEF IInv, Threads, Agree, TypeOK
  <2> QED BY <2>2, <2>3, Zenon
<1>4. TypeOK'
  <2>1. "yield" \in Locations /\ "RUNNABLE" \in States /\ c \in CPU \cup {NoCPU}
    BY Zenon DEF Locations, States
  <2> QED BY <1>1, <1>2, <1>3, <2>1, FunType, Zenon DEF IInv, TypeOK
<1>5. /\ state'[s] = "RUNNABLE" /\ pc'[s] = "yield" /\ back'[s] = pc[s]
      /\ \A t \in Slot \ {s} : state'[t] = state[t] /\ pc'[t] = pc[t] /\ back'[t] = back[t]
  BY <1>2 DEF IInv, TypeOK
<1>6. Stacks'
  BY <1>1, <1>5, StopStacks, Zenon
<1>7. Threads'
  <2>1. Agree(state'[s], pc'[s])
    BY <1>5, Zenon DEF Agree
  <2> QED BY <1>5, <2>1, Zenon DEF IInv, Threads
<1>8. Forks'
  <2>1. \A t \in Slot : Place(t)' = Place(t)
    BY <1>3, <1>5, Zenon DEF Place
  <2> QED BY <1>1, <1>5, <2>1, ForksStep, Zenon
<1>9. Family'
  BY <1>1, <1>5, FamilyStep, Zenon DEF Live
<1>10. PidsDistinct'
  BY <1>1, <1>5, PidsStep, Zenon
<1>11. SleeperHasReason'
  BY <1>1, <1>5, SleepStep, Zenon
<1> QED BY <1>4, <1>6, <1>7, <1>8, <1>9, <1>10, <1>11, Zenon DEF IInv

LEMMA ResumeSteps == ASSUME IInv, NEW c \in CPU, NEW s \in Slot, YieldReturn(c, s) \/ Forkret(c, s) PROVE IInv'
<1>1. /\ cur[c] = s /\ state[s] = "RUNNING" /\ lock = c /\ lock' = NoCPU
      /\ UNCHANGED <<table, name, prog, nextpid, cur, idx, np, panicked>>
  BY Zenon DEF YieldReturn, Forkret, At, local
<1>2. PICK l \in Locations \ {"yield", "waiting", "dead", "forkret"} :
        /\ pc' = [pc EXCEPT ![s] = l]
        /\ Place(s) = l \/ {Place(s), l} \subseteq {"forkret", "user", "exit"}
  <2>1. CASE YieldReturn(c, s)
    <3>1. back[s] \in Locations \ {"yield", "waiting", "dead", "forkret"} /\ Place(s) = back[s]
      BY <2>1, Zenon DEF IInv, TypeOK, Place, YieldReturn, At
    <3>2. "exit" \in Locations \ {"yield", "waiting", "dead", "forkret"}
      BY Zenon DEF Locations
    <3>3. CASE back[s] = "user" /\ killed[s]
      <4>1. pc' = [pc EXCEPT ![s] = "exit"]
        BY <2>1, <3>3, Zenon DEF YieldReturn, Goto
      <4>2. {Place(s), "exit"} \subseteq {"forkret", "user", "exit"}
        BY <3>1, <3>3, Zenon
      <4> QED BY <3>2, <4>1, <4>2, Zenon
    <3>4. CASE ~(back[s] = "user" /\ killed[s])
      BY <2>1, <3>1, <3>4, Zenon DEF YieldReturn, Goto
    <3> QED BY <3>3, <3>4, Zenon
  <2>2. CASE Forkret(c, s)
    <3>1. "user" \in Locations /\ Place(s) = "forkret"
      BY <2>2, Zenon DEF Locations, Place, Forkret, At
    <3> QED BY <2>2, <3>1, Zenon DEF Forkret, Goto
  <2> QED BY <2>1, <2>2, Zenon
<1>3. /\ back' \in [Slot -> Locations \ {"yield", "waiting", "dead", "forkret"}]
      /\ \A t \in Slot \ {s} : back'[t] = back[t]
  <2>1. "user" \in Locations \ {"yield", "waiting", "dead", "forkret"}
    BY Zenon DEF Locations
  <2>2. back' = back \/ back' = [back EXCEPT ![s] = "user"]
    BY Zenon DEF YieldReturn, Forkret, local
  <2>3. back \in [Slot -> Locations \ {"yield", "waiting", "dead", "forkret"}]
    BY Zenon DEF IInv, TypeOK
  <2>4. CASE back' = back
    BY <2>3, <2>4, Zenon
  <2>5. CASE back' = [back EXCEPT ![s] = "user"]
    <3>1. back' \in [Slot -> Locations \ {"yield", "waiting", "dead", "forkret"}]
      BY <2>1, <2>3, <2>5, FunType, Zenon
    <3> QED BY <2>3, <2>5, <3>1, FunAt, Zenon
  <2> QED BY <2>2, <2>4, <2>5, Zenon
<1>4. TypeOK'
  <2>1. NoCPU \in CPU \cup {NoCPU} /\ l \in Locations
    BY Zenon
  <2> QED BY <1>1, <1>2, <1>3, <2>1, FunType, Zenon DEF IInv, TypeOK, table
<1>5. pc'[s] = l /\ \A t \in Slot \ {s} : pc'[t] = pc[t]
  BY <1>2 DEF IInv, TypeOK
<1>6. \A t \in Slot : /\ Place(t)' = "embryo" <=> Place(t) = "embryo"
                      /\ Place(t)' = "copied" <=> Place(t) = "copied"
  <2>1. Place(s)' = l
    BY <1>5, Zenon DEF Place
  <2>2. \A t \in Slot \ {s} : Place(t)' = Place(t)
    BY <1>3, <1>5, Zenon DEF Place
  <2>3. /\ l = "embryo" <=> Place(s) = "embryo"
        /\ l = "copied" <=> Place(s) = "copied"
    BY <1>2, Zenon
  <2> QED BY <2>1, <2>2, <2>3, Zenon
<1>7. Rest'
  BY <1>1, <1>5, <1>6, UnlockStep, Zenon DEF table
<1> QED BY <1>4, <1>7, Zenon DEF IInv, Rest

(* The scheduler between two processes *)
LEMMA TableKept ==
  ASSUME IInv, UNCHANGED <<state, pid, parent, killed, chan, nextpid, pc, back, np>>
  PROVE  Threads' /\ Forks' /\ Family' /\ PidsDistinct' /\ SleeperHasReason'
<1>1. Threads' /\ Family' /\ PidsDistinct' /\ SleeperHasReason'
  BY Zenon DEF IInv, Threads, Family, ParentLives, Live, PidsDistinct, SleeperHasReason
<1>2. Forks'
  <2>1. \A t \in Slot : Place(t)' = Place(t)
    BY Zenon DEF Place
  <2> QED BY <2>1, ForksStep, Zenon
<1> QED BY <1>1, <1>2, Zenon

LEMMA SwtchStep == ASSUME IInv, NEW c \in CPU, Swtch(c) PROVE IInv'
<1>1. /\ cur[c] # 0 /\ state[cur[c]] # "RUNNING" /\ lock = c /\ cur' = [cur EXCEPT ![c] = 0]
      /\ UNCHANGED <<table, name, prog, nextpid, lock, idx, pc, back, np, panicked>>
  BY Zenon DEF Swtch, local
<1>2. cur' \in [CPU -> Slot \cup {0}] /\ cur'[c] = 0 /\ \A d \in CPU \ {c} : cur'[d] = cur[d]
  BY <1>1 DEF IInv, TypeOK
<1>3. TypeOK'
  BY <1>1, <1>2, Zenon DEF IInv, TypeOK, table
<1>4. Stacks'
  <2>1. \A t \in Slot : state[t] = "RUNNING" => pc[t] \notin {"yield", "waiting", "forkret"}
    BY <1>1, Zenon DEF IInv, Stacks
  <2>2. state' = state /\ lock' = lock /\ pc' = pc
    BY <1>1, Zenon DEF table
  <2>3. \A d \in CPU : cur'[d] # 0 => cur'[d] = cur[d]
    BY <1>2, Zenon
  <2>4. Stacks
    BY Zenon DEF IInv
  <2>5. \A d \in CPU : cur'[d] # 0 =>
          state'[cur'[d]] \notin {"UNUSED", "EMBRYO"} /\ (state'[cur'[d]] # "RUNNING" => lock' = d)
    BY <2>2, <2>3, <2>4, Zenon DEF Stacks
  <2>6. \A d, e \in CPU : cur'[d] = cur'[e] /\ cur'[d] # 0 => d = e
    BY <2>3, <2>4, Zenon DEF Stacks
  <2> QED BY <2>1, <2>2, <2>5, <2>6, Zenon DEF Stacks
<1> QED BY <1>1, <1>3, <1>4, TableKept, Zenon DEF IInv, table

LEMMA ScanSteps == ASSUME IInv, NEW c \in CPU, Scan(c) \/ EndScan(c) PROVE IInv'
<1>1. /\ cur[c] = 0 /\ lock \in {c, NoCPU} /\ lock' \in {c, NoCPU}
      /\ idx' = idx \/ idx' = [idx EXCEPT ![c] = 1]
      /\ UNCHANGED <<table, name, prog, nextpid, cur, pc, back, np, panicked>>
  BY Zenon DEF Scan, EndScan, local
<1>2. idx' \in [CPU -> 1 .. NPROC + 1]
  <2>1. 1 \in 1 .. NPROC + 1
    BY ProcAssumption
  <2> QED BY <1>1, <2>1, FunType, Zenon DEF IInv, TypeOK
<1>3. TypeOK'
  BY <1>1, <1>2, Zenon DEF IInv, TypeOK, table
<1>4. Stacks'
  <2>1. NoCPU \notin CPU
    BY ProcAssumption, Zenon
  <2>2. \A t \in Slot : state[t] = "RUNNING" => pc[t] \notin {"yield", "waiting", "forkret"}
    BY <1>1, <2>1, Slots, Zenon DEF IInv, Stacks
  <2>3. \A d \in CPU : cur[d] # 0 => state[cur[d]] = "RUNNING"
    BY <1>1, <2>1, Zenon DEF IInv, Stacks
  <2>4. state' = state /\ cur' = cur /\ pc' = pc
    BY <1>1, Zenon DEF table
  <2> QED BY <2>2, <2>3, <2>4, Zenon DEF IInv, Stacks
<1> QED BY <1>1, <1>3, <1>4, TableKept, Zenon DEF IInv, table

LEMMA DispatchStep == ASSUME IInv, NEW c \in CPU, Dispatch(c) PROVE IInv'
<1>1. /\ cur[c] = 0 /\ lock = c
      /\ UNCHANGED <<pid, parent, killed, chan, name, prog, nextpid, lock, pc, back, np, panicked>>
  BY Zenon DEF Dispatch, local
<1>2. PICK s \in Slot :
        /\ state[s] = "RUNNABLE" /\ cur' = [cur EXCEPT ![c] = s]
        /\ state' = [state EXCEPT ![s] = "RUNNING"] /\ idx' = [idx EXCEPT ![c] = s + 1]
  BY Zenon DEF Dispatch
<1>3. TypeOK'
  <2>1. "RUNNING" \in States /\ s \in Slot \cup {0}
    BY Zenon DEF States
  <2>2. s + 1 \in 1 .. NPROC + 1
    BY ProcAssumption DEF Slot
  <2> QED BY <1>1, <1>2, <2>1, <2>2, FunType, Zenon DEF IInv, TypeOK
<1>4. /\ state'[s] = "RUNNING" /\ cur'[c] = s
      /\ \A t \in Slot \ {s} : state'[t] = state[t]
      /\ \A d \in CPU \ {c} : cur'[d] = cur[d]
  BY <1>2 DEF IInv, TypeOK
<1>5. state[s] = "RUNNABLE"
  BY <1>2, Zenon
<1>6. Stacks'
  <2>1. \A d \in CPU \ {c} : cur[d] # 0 => cur[d] # s /\ state[cur[d]] = "RUNNING"
    BY <1>1, <1>5, Zenon DEF IInv, Stacks
  <2>2. \A d \in CPU : cur'[d] # 0 => state'[cur'[d]] = "RUNNING"
    BY <1>4, <2>1, Refs, Zenon
  <2>3. \A d, e \in CPU : cur'[d] = cur'[e] /\ cur'[d] # 0 => d = e
    <3>1. \A d, e \in CPU : cur[d] = cur[e] /\ cur[d] # 0 => d = e
      BY Zenon DEF IInv, Stacks
    <3>2. \A d \in CPU \ {c} : cur'[d] = cur[d] /\ (cur[d] # 0 => cur[d] # s)
      BY <1>4, <2>1, Zenon
    <3>3. cur'[c] = s /\ s # 0
      BY <1>4, Slots, Zenon
    <3> QED BY <3>1, <3>2, <3>3, Zenon
  <2>4. \A t \in Slot \ {s} : state[t] = "RUNNING" => pc[t] \notin {"yield", "waiting", "forkret"}
    BY <1>1, Slots, Zenon DEF IInv, Stacks
  <2>5. \A t \in Slot : state'[t] = "RUNNING" /\ pc'[t] \in {"yield", "waiting", "forkret"} =>
          lock' \in CPU /\ cur'[lock'] = t
    BY <1>1, <1>4, <2>4, Zenon
  <2> QED BY <2>2, <2>3, <2>5, Zenon DEF Stacks
<1>7. Threads'
  <2>1. Agree(state'[s], pc'[s])
    BY <1>1, <1>4, <1>5, Zenon DEF IInv, Threads, Agree
  <2> QED BY <1>1, <1>4, <2>1, Zenon DEF IInv, Threads
<1>8. Forks'
  <2>1. \A t \in Slot : Place(t)' = Place(t)
    BY <1>1, Zenon DEF Place
  <2> QED BY <1>1, <1>4, <1>5, <2>1, ForksStep, Zenon
<1>9. Family'
  BY <1>1, <1>4, <1>5, FamilyStep, Zenon DEF Live
<1>10. PidsDistinct'
  BY <1>1, <1>4, <1>5, PidsStep, Zenon
<1>11. SleeperHasReason'
  BY <1>1, <1>4, SleepStep, Zenon
<1> QED BY <1>3, <1>6, <1>7, <1>8, <1>9, <1>10, <1>11, Zenon DEF IInv

LEMMA StutterStep ==
  ASSUME IInv, UNCHANGED <<table, name, prog, nextpid, lock, cur, idx, pc, back, np>>, panicked' \in BOOLEAN
  PROVE  IInv'
<1>1. TypeOK'
  BY Zenon DEF IInv, TypeOK, table
<1>2. Stacks'
  BY Zenon DEF IInv, Stacks, table
<1> QED BY <1>1, <1>2, TableKept, Zenon DEF IInv, table

LEMMA InitIInv == Init => IInv
<1> SUFFICES ASSUME Init PROVE IInv
  OBVIOUS
<1>1. /\ state[initproc] = "RUNNABLE" /\ \A s \in Slot \ {initproc} : state[s] = "UNUSED"
      /\ pid[initproc] = 1 /\ nextpid = 2 /\ \A s \in Slot : pc[s] = "forkret" /\ parent[s] = 0
      /\ \A c \in CPU : cur[c] = 0
  BY Slots, Zenon DEF Init
<1>2. TypeOK
  <2>1. /\ "RUNNABLE" \in States /\ "UNUSED" \in States /\ "forkret" \in Locations
        /\ "user" \in Locations \ {"yield", "waiting", "dead", "forkret"}
        /\ "sh" \in Programs
    BY ProcAssumption, Zenon DEF States, Locations
  <2>2. 0 \in Nat /\ 1 \in Nat /\ 2 \in Nat /\ 1 \in 1 .. NPROC + 1
    BY ProcAssumption
  <2>3. /\ state \in [Slot -> States] /\ pid \in [Slot -> Nat] /\ parent \in [Slot -> Slot \cup {0}]
        /\ killed \in [Slot -> BOOLEAN] /\ chan \in [Slot -> Slot \cup {0}]
    BY <2>1, <2>2, Zenon DEF Init
  <2>4. /\ name \in [Slot -> Programs \cup {""}] /\ prog \in [Slot -> Programs] /\ nextpid \in Nat
        /\ lock \in CPU \cup {NoCPU} /\ cur \in [CPU -> Slot \cup {0}]
    BY <2>1, <2>2, Zenon DEF Init
  <2>5. /\ idx \in [CPU -> 1 .. NPROC + 1] /\ pc \in [Slot -> Locations]
        /\ back \in [Slot -> Locations \ {"yield", "waiting", "dead", "forkret"}]
        /\ np \in [Slot -> Slot \cup {0}] /\ panicked \in BOOLEAN
    BY <2>1, <2>2, Zenon DEF Init
  <2> QED BY <2>3, <2>4, <2>5, Zenon DEF TypeOK
<1>3. Stacks
  BY <1>1, Zenon DEF Stacks
<1>4. Threads
  BY <1>1, Zenon DEF Threads, Agree
<1>5. Forks
  BY <1>1, Zenon DEF Forks, Owned, OwnedOnce, Unowned, Forking, Place
<1>6. Family
  <2>1. initproc \in Slot /\ 0 \notin Slot
    BY Slots, Zenon
  <2> QED BY <1>1, <2>1, Zenon DEF Family, Live, ParentLives
<1>7. PidsDistinct
  <2>1. \A s \in Slot : state[s] # "UNUSED" => s = initproc /\ pid[s] = 1
    BY <1>1, Zenon
  <2>2. 1 \in 1 .. nextpid - 1
    BY <1>1
  <2> QED BY <2>1, <2>2, Zenon DEF PidsDistinct
<1>8. SleeperHasReason
  BY <1>1, Zenon DEF SleeperHasReason
<1> QED BY <1>2, <1>3, <1>4, <1>5, <1>6, <1>7, <1>8, Zenon DEF IInv

LEMMA NextIInv == ASSUME Least, IInv, [Next]_vars PROVE IInv'
<1>1. ASSUME NEW c \in CPU, NEW s \in Slot, KernelStep(c, s) PROVE IInv'
  <2>1. CASE ExitPanic(c, s)
    BY <2>1, StutterStep, Zenon DEF ExitPanic, local
  <2> QED BY <1>1, <2>1, PlainSteps, AllocprocStep, ForkFailStep, ForkCopyStep, ForkRunStep, KillStep, ExitStep,
             WaitSteps, Zenon DEF KernelStep
<1>2. ASSUME NEW c \in CPU, NEW s \in Slot, UserStep(c, s) PROVE IInv'
  BY <1>2, PlainSteps, SyscallStep, Zenon DEF UserStep
<1>3. ASSUME NEW c \in CPU, NEW s \in Slot, TimerStep(c, s) PROVE IInv'
  BY <1>3, YieldStep, ResumeSteps, Zenon DEF TimerStep
<1>4. ASSUME NEW c \in CPU, SchedulerStep(c) PROVE IInv'
  BY <1>4, SwtchStep, ScanSteps, DispatchStep, Zenon DEF SchedulerStep
<1>5. CASE UNCHANGED vars
  <2>1. panicked' \in BOOLEAN
    BY <1>5, Zenon DEF vars, IInv, TypeOK
  <2> QED BY <1>5, <2>1, StutterStep, Zenon DEF vars, table
<1> QED BY <1>1, <1>2, <1>3, <1>4, <1>5, Zenon DEF Next, Spin

-----------------------------------------------------------------------------
(* The theorems *)

INSTANCE WellFoundedInduction

LEMMA SlotsOrdered == Least
<1> SUFFICES ASSUME NEW S \in SUBSET Slot, S # {} PROVE \E n \in S : \A m \in S : n <= m
  BY Zenon DEF Least
<1>1. S \subseteq Nat
  BY DEF Slot
<1>. DEFINE R == {d \in Nat \X Nat : d[1] < d[2]}
<1>2. IsWellFoundedOn(R, Nat)
  BY NatLessThanWellFounded DEF OpToRel
<1>. HIDE DEF R
<1>3. PICK n \in S : \A m \in S : ~(<<m, n>> \in R)
  BY <1>1, <1>2, WFMin, Zenon
<1>4. ASSUME NEW m \in S PROVE n <= m
  <2>1. ~(m < n)
    BY <1>1, <1>3 DEF R
  <2> QED BY <1>1, <2>1
<1> QED BY <1>4, Zenon

(* The inductive invariant holds wherever the timer, kill() and the other    *)
(* CPUs come in between the steps of fork(), exit() and wait().              *)
THEOREM SpecIInv == Spec => []IInv
<1>1. IInv /\ [Next]_vars => IInv'
  BY NextIInv, SlotsOrdered, Zenon
<1> QED BY <1>1, InitIInv, PTL DEF Spec

(* exit(), yield() and sleep() hold ptable.lock until they are off their    *)
(* own kernel stack, so no other CPU runs on it and wait() does not free it. *)
THEOREM ProcStackExclusive == Spec => []StackExclusive
<1>1. IInv => StackExclusive
  BY Zenon DEF IInv, Stacks, StackExclusive
<1> QED BY <1>1, SpecIInv, PTL

(* fork(), exit(), wait() and kill() keep the process table sound: every    *)
(* process has a live parent to reap it, pids are distinct, and a process   *)
(* sleeps in wait() only while it has a child to wait for.                  *)
THEOREM ProcTableExact == Spec => []TableExact
<1>1. IInv => TableExact
  BY Zenon DEF IInv, Family, TableExact
<1> QED BY <1>1, SpecIInv, PTL

=============================================================================
