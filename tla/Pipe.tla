-------------------------------- MODULE Pipe --------------------------------
(***************************************************************************)
(* A pipe (pipe.c) and the two file structures that lead to it (file.c),   *)
(* shared by processes that read, write, close, are killed and exit.       *)
(*                                                                         *)
(* What runs under p->lock is one action, except that sleep() gives a      *)
(* kill() on another CPU the time between the test of proc->killed and     *)
(* the moment the process is asleep: kill() does not take p->lock.         *)
(* Processes have inherited their descriptors: the model starts after the  *)
(* forks that follow pipe().                                               *)
(***************************************************************************)
EXTENDS Integers, Sequences, FiniteSets

CONSTANTS Proc,
          Readers, Writers,  \* who has a descriptor of which end at the start
          Byte,
          PIPESIZE,
          Modulus,           \* of the type uint, 2^32 in the code
          Messages,          \* what is written
          ReadSizes,         \* how much is asked for
          Killable,          \* who can be killed
          NoProc, NoResult

ASSUME PipeAssumption ==
  /\ PIPESIZE \in Nat \ {0}
  /\ Modulus \in Nat /\ PIPESIZE < Modulus /\ Modulus % PIPESIZE = 0
  /\ IsFiniteSet(Proc)
  /\ Readers \subseteq Proc /\ Readers # {}
  /\ Writers \subseteq Proc /\ Writers # {}
  /\ Byte # {}
  /\ Messages \subseteq Seq(Byte) \ {<<>>}
  /\ ReadSizes \subseteq Nat \ {0}
  /\ Killable \subseteq Proc
  /\ NoProc \notin Proc

VARIABLES
  nread, nwrite, data, readopen, writeopen,  \* struct pipe
  freed,    \* the page of the pipe was given to kfree()
  plock,    \* who holds p->lock between two actions
  rref, wref,                                \* f->ref of the two files
  rd, wr,   \* does proc->ofile[] lead to this end?
  killed,
  leaving,  \* the processes in exit()
  pc,
  todo,     \* the bytes a write has left
  want,     \* the n of a read
  got       \* what a read returns

pipe == <<nread, nwrite, data, readopen, writeopen, freed>>
files == <<rref, wref, rd, wr>>
vars == <<nread, nwrite, data, readopen, writeopen, freed, plock, rref, wref, rd, wr,
          killed, leaving, pc, todo, want, got>>

Locations == {"user", "read", "rsleep", "rasleep", "write", "wsleep", "wasleep",
              "sysret", "exit", "rclose", "wclose", "dead"}

(* pipealloc(), fdalloc() and the forks *)
Init ==
  /\ nread = 0 /\ nwrite = 0
  /\ data \in [0 .. PIPESIZE - 1 -> {CHOOSE b \in Byte : TRUE}]
  /\ readopen = TRUE /\ writeopen = TRUE
  /\ freed = FALSE
  /\ plock = NoProc
  /\ rref = Cardinality(Readers) /\ wref = Cardinality(Writers)
  /\ rd = [p \in Proc |-> p \in Readers]
  /\ wr = [p \in Proc |-> p \in Writers]
  /\ killed = [p \in Proc |-> FALSE]
  /\ leaving = {}
  /\ pc = [p \in Proc |-> "user"]
  /\ todo = [p \in Proc |-> <<>>]
  /\ want = [p \in Proc |-> 0]
  /\ got = [p \in Proc |-> NoResult]

-----------------------------------------------------------------------------
(* How many bytes piperead() can take before nread == nwrite *)
count == (nwrite - nread) % Modulus

(* Mutant: the counters are taken never to wrap around. *)
spaceUnwrapped == IF nwrite < nread + PIPESIZE THEN nread + PIPESIZE - nwrite ELSE 0

(* How many bytes pipewrite() can store before nwrite == nread + PIPESIZE *)
space == (nread + PIPESIZE - nwrite) % Modulus

Empty == nread = nwrite

(* The k-th byte that waits in the pipe *)
Waiting(k) == data[((nread + k - 1) % Modulus) % PIPESIZE]

contents == [k \in 1 .. count |-> Waiting(k)]

Wakeup(loc, asleep, awake) ==
  [p \in Proc |-> IF loc[p] = asleep THEN awake ELSE loc[p]]

(* Mutant: readers are not woken. *)
WakeReadersNever(loc) == loc

WakeReaders(loc) == Wakeup(loc, "rasleep", "read")

WakeWriters(loc) == Wakeup(loc, "wasleep", "write")

Goto(p, l) == pc' = [pc EXCEPT ![p] = l]

(* pipewrite()'s stores of a sequence of bytes *)
Stored(s) ==
  [i \in 0 .. PIPESIZE - 1 |->
     IF \E k \in 1 .. Len(s) : ((nwrite + k - 1) % Modulus) % PIPESIZE = i
     THEN s[CHOOSE k \in 1 .. Len(s) : ((nwrite + k - 1) % Modulus) % PIPESIZE = i]
     ELSE data[i]]

-----------------------------------------------------------------------------
CallRead(p, n) ==
  /\ pc[p] = "user" /\ ~killed[p] /\ rd[p]
  /\ want' = [want EXCEPT ![p] = n]
  /\ Goto(p, "read")
  /\ UNCHANGED <<pipe, plock, files, killed, leaving, todo, got>>

CallWrite(p, m) ==
  /\ pc[p] = "user" /\ ~killed[p] /\ wr[p]
  /\ todo' = [todo EXCEPT ![p] = m]
  /\ Goto(p, "write")
  /\ UNCHANGED <<pipe, plock, files, killed, leaving, want, got>>

(* piperead() finds nothing and a writer: killed, or to sleep with the lock *)
ReadWait(p) ==
  /\ pc[p] = "read" /\ plock = NoProc
  /\ Empty /\ writeopen
  /\ IF killed[p]
     THEN Goto(p, "sysret") /\ UNCHANGED plock
     ELSE Goto(p, "rsleep") /\ plock' = p
  /\ UNCHANGED <<pipe, files, killed, leaving, todo, want, got>>

(* piperead()'s copy *)
Read(p) ==
  /\ pc[p] = "read" /\ plock = NoProc
  /\ ~(Empty /\ writeopen)
  /\ LET n == IF want[p] < count THEN want[p] ELSE count
     IN /\ got' = [got EXCEPT ![p] = SubSeq(contents, 1, n)]
        /\ nread' = (nread + n) % Modulus
  /\ pc' = [WakeWriters(pc) EXCEPT ![p] = "sysret"]
  /\ UNCHANGED <<nwrite, data, readopen, writeopen, freed, plock, files, killed, leaving, todo, want>>

(* sleep(): from here on a wakeup is seen, and p->lock is free *)
Sleep(p, going, asleep) ==
  /\ pc[p] = going
  /\ Goto(p, asleep)
  /\ plock' = NoProc
  /\ UNCHANGED <<pipe, files, killed, leaving, todo, want, got>>

(* pipewrite() up to its return or its sleep() *)
Write(p) ==
  /\ pc[p] = "write" /\ plock = NoProc
  /\ LET n == IF Len(todo[p]) < space THEN Len(todo[p]) ELSE space
         rest == SubSeq(todo[p], n + 1, Len(todo[p]))
         stop == rest # <<>> /\ (~readopen \/ killed[p])
     IN /\ data' = Stored(SubSeq(todo[p], 1, n))
        /\ nwrite' = (nwrite + n) % Modulus
        /\ todo' = [todo EXCEPT ![p] = IF stop THEN <<>> ELSE rest]
        /\ pc' = IF stop THEN [pc EXCEPT ![p] = "sysret"]
                 ELSE [WakeReaders(pc) EXCEPT ![p] = IF rest = <<>> THEN "sysret" ELSE "wsleep"]
        /\ plock' = IF rest # <<>> /\ ~stop THEN p ELSE NoProc
  /\ UNCHANGED <<nread, readopen, writeopen, freed, files, killed, leaving, want, got>>

(* The end of a system call: trap() exits a killed process. *)
SysRet(p) ==
  /\ pc[p] = "sysret"
  /\ Goto(p, IF killed[p] THEN "exit" ELSE "user")
  /\ leaving' = IF killed[p] THEN leaving \cup {p} ELSE leaving
  /\ want' = [want EXCEPT ![p] = 0]
  /\ got' = [got EXCEPT ![p] = NoResult]
  /\ UNCHANGED <<pipe, plock, files, killed, todo>>

(* exit(), called or forced by trap() *)
Exit(p) ==
  /\ pc[p] = "user"
  /\ Goto(p, "exit")
  /\ leaving' = leaving \cup {p}
  /\ UNCHANGED <<pipe, plock, files, killed, todo, want, got>>

(* Where a process goes on after fileclose() *)
AfterClose(p) == IF p \in leaving THEN "exit" ELSE "sysret"

(* Mutant: the last reference is taken to be the one before it. *)
CloseReadEarly(p) ==
  /\ pc[p] \in {"user", "exit"} /\ rd[p]
  /\ rd' = [rd EXCEPT ![p] = FALSE]
  /\ rref' = rref - 1
  /\ Goto(p, IF rref <= 2 THEN "rclose" ELSE AfterClose(p))
  /\ UNCHANGED <<pipe, plock, wref, wr, killed, leaving, todo, want, got>>

(* fileclose() of the descriptor of one end, by close() or by exit(); the   *)
(* last one goes on to pipeclose().                                         *)
CloseRead(p) ==
  /\ pc[p] \in {"user", "exit"} /\ rd[p]
  /\ rd' = [rd EXCEPT ![p] = FALSE]
  /\ rref' = rref - 1
  /\ Goto(p, IF rref = 1 THEN "rclose" ELSE AfterClose(p))
  /\ UNCHANGED <<pipe, plock, wref, wr, killed, leaving, todo, want, got>>

CloseWrite(p) ==
  /\ pc[p] \in {"user", "exit"} /\ wr[p]
  /\ wr' = [wr EXCEPT ![p] = FALSE]
  /\ wref' = wref - 1
  /\ Goto(p, IF wref = 1 THEN "wclose" ELSE AfterClose(p))
  /\ UNCHANGED <<pipe, plock, rref, rd, killed, leaving, todo, want, got>>

(* pipeclose() of the last descriptor of an end *)
PipeCloseRead(p) ==
  /\ pc[p] = "rclose" /\ plock = NoProc
  /\ readopen' = FALSE
  /\ freed' = ~writeopen
  /\ pc' = [WakeWriters(pc) EXCEPT ![p] = AfterClose(p)]
  /\ UNCHANGED <<nread, nwrite, data, writeopen, plock, files, killed, leaving, todo, want, got>>

PipeCloseWrite(p) ==
  /\ pc[p] = "wclose" /\ plock = NoProc
  /\ writeopen' = FALSE
  /\ freed' = ~readopen
  /\ pc' = [WakeReaders(pc) EXCEPT ![p] = AfterClose(p)]
  /\ UNCHANGED <<nread, nwrite, data, readopen, plock, files, killed, leaving, todo, want, got>>

Die(p) ==
  /\ pc[p] = "exit" /\ ~rd[p] /\ ~wr[p]
  /\ Goto(p, "dead")
  /\ UNCHANGED <<pipe, plock, files, killed, leaving, todo, want, got>>

(* kill(), at any moment: it looks at p->lock nowhere. *)
Kill(p) ==
  /\ pc[p] # "dead" /\ p \in Killable
  /\ killed' = [killed EXCEPT ![p] = TRUE]
  /\ pc' = [pc EXCEPT ![p] = CASE @ = "rasleep" -> "read" [] @ = "wasleep" -> "write" [] OTHER -> @]
  /\ UNCHANGED <<pipe, plock, files, leaving, todo, want, got>>

(* A killed process is forced to exit when it next enters the kernel. *)
TrapExit(p) ==
  /\ pc[p] = "user" /\ killed[p]
  /\ Goto(p, "exit")
  /\ leaving' = leaving \cup {p}
  /\ UNCHANGED <<pipe, plock, files, killed, todo, want, got>>

(* Everybody is dead or waits, for instance for itself: a process may read  *)
(* from a pipe of which it holds the last write end.                        *)
Idle ==
  /\ \A p \in Proc : pc[p] \in {"dead", "rasleep", "wasleep"}
  /\ UNCHANGED vars

KernelStep(p) ==
  \/ ReadWait(p) \/ Read(p) \/ Write(p)
  \/ Sleep(p, "rsleep", "rasleep") \/ Sleep(p, "wsleep", "wasleep")
  \/ SysRet(p) \/ PipeCloseRead(p) \/ PipeCloseWrite(p) \/ TrapExit(p) \/ Die(p)
  \/ (p \in leaving /\ CloseRead(p)) \/ (p \in leaving /\ CloseWrite(p))

UserStep(p) ==
  \/ \E n \in ReadSizes : CallRead(p, n)
  \/ \E m \in Messages : CallWrite(p, m)
  \/ CloseRead(p) \/ CloseWrite(p) \/ Exit(p)

Next ==
  \/ \E p \in Proc : KernelStep(p) \/ UserStep(p) \/ Kill(p)
  \/ Idle

Spec == Init /\ [][Next]_vars

(* A thread that is not asleep goes on; p->lock is held for a bounded time, *)
(* and one that keeps finding it free gets it in the end.                   *)
FairSpec == Spec /\ \A p \in Proc : SF_vars(KernelStep(p))

-----------------------------------------------------------------------------
(* kfree() of the pipe comes after the last use: no process is in, or will  *)
(* enter, a pipe operation on a page that was given back.                   *)
NoUseAfterFree ==
  freed => \A p \in Proc :
    /\ ~rd[p] /\ ~wr[p]
    /\ pc[p] \in {"user", "sysret", "exit", "dead"}

(* A reader sleeps only on an empty pipe that has a writer ("pipe-empty").  *)
ReaderHasReason ==
  \A p \in Proc : pc[p] = "rasleep" => Empty /\ writeopen

(* A writer sleeps only on a full pipe that has a reader ("pipewrite-full"), *)
(* and readers of that pipe are awake.                                       *)
WriterHasReason ==
  \A p \in Proc : pc[p] = "wasleep" =>
    space = 0 /\ readopen /\ \A r \in Proc : pc[r] # "rasleep"

(* Nobody sleeps in a pipe without a reason: no wakeup was lost in either   *)
(* direction, whoever closes or sleeps again and whichever reader is killed.*)
(* A killed writer is left out: on a full pipe pipewrite() returns before   *)
(* it wakes the readers of what it has stored.                              *)
SleeperHasReason == ReaderHasReason /\ WriterHasReason

(* The pipe is one bounded FIFO of bytes: reads get what was written, in    *)
(* order, no byte twice, and end of file only after the last byte.          *)
F == INSTANCE Fifo WITH Size <- PIPESIZE, q <- contents, ended <- ~writeopen
IsFifo == F!FSpec

(* A reader leaves the kernel once the writers are gone, and a writer once  *)
(* the readers are: nobody is stranded by pipeclose().                      *)
CloseReleases ==
  \A p \in Proc :
    /\ (~writeopen /\ pc[p] \in {"read", "rsleep", "rasleep"}) ~> pc[p] = "sysret"
    /\ (~readopen /\ pc[p] \in {"write", "wsleep", "wasleep"}) ~> pc[p] = "sysret"

(* kill() wakes its victim from sleep if necessary: a killed process dies.  *)
KilledDies ==
  \A p \in Proc : killed[p] ~> pc[p] = "dead"

=============================================================================
