------------------------------- MODULE Clock -------------------------------
(***************************************************************************)
(* The timer interrupt of trap.c and the calls that depend on it: sleep,   *)
(* uptime, alarm and time (sysproc.c).  The tick counter and the counters  *)
(* of the alarm wrap at 2^Width; sleep compares unsigned.                  *)
(*                                                                         *)
(* tickslock keeps the increment with its wakeup out of the time between   *)
(* the test of sys_sleep and its sleep, but not kill, which does not take  *)
(* that lock.                                                              *)
(***************************************************************************)
EXTENDS Integers

CONSTANTS Sleeper,  \* processes
          Width,    \* bits of a uint (32)
          MaxLate,  \* bound: ticks that pass before a woken process runs
          Periods   \* ticks given to alarm

VARIABLES ticks,
          call,     \* the sleep call of each process
          passed,   \* history: ticks since that call
          late,     \* history: ticks since the process was woken
          killed,
          alarmticks, curalarmtick

clockvars == <<ticks, call, passed, late, killed, alarmticks, curalarmtick>>
alarmvars == <<alarmticks, curalarmtick>>

UInt == 0 .. 2^Width - 1
Wrap(x) == x % 2^Width
User == [pc |-> "user", ticks0 |-> 0, n |-> 0]

ClockInit ==
  /\ ticks \in UInt
  /\ call = [p \in Sleeper |-> User]
  /\ passed = [p \in Sleeper |-> 0] /\ late = [p \in Sleeper |-> 0]
  /\ killed = [p \in Sleeper |-> FALSE]
  /\ alarmticks = [p \in Sleeper |-> 0] /\ curalarmtick = [p \in Sleeper |-> 0]

\* A bug in the next operator: the times are compared, not their distance.
ElapsedAbsolute(p) == ticks >= Wrap(call[p].ticks0 + call[p].n)

\* The end of the loop of sys_sleep: ticks - ticks0 < n no longer holds.
Elapsed(p) == Wrap(ticks - call[p].ticks0) >= call[p].n

\* sys_sleep(n), with its first test, under tickslock; a negative n is a large one.
sys_sleep(p, n) ==
  /\ call[p].pc = "user" /\ ~killed[p]
  /\ \A q \in Sleeper : call[q].pc # "locked"
  /\ call' = IF n = 0 THEN call
             ELSE [call EXCEPT ![p] = [pc |-> "locked", ticks0 |-> ticks, n |-> n]]
  /\ passed' = [passed EXCEPT ![p] = 0] /\ late' = [late EXCEPT ![p] = 0]
  /\ UNCHANGED <<ticks, killed, alarmvars>>

\* The next test, after a wakeup and with tickslock again ...
test(p) ==
  /\ call[p].pc = "test" /\ \A q \in Sleeper : call[q].pc # "locked"
  /\ \/ (Elapsed(p) \/ killed[p]) /\ call' = [call EXCEPT ![p] = User]
     \/ ~Elapsed(p) /\ ~killed[p] /\ call' = [call EXCEPT ![p].pc = "locked"]
  /\ late' = [late EXCEPT ![p] = 0]
  /\ UNCHANGED <<ticks, passed, killed, alarmvars>>

\* ... and sleep, which gives the lock up.
sleep(p) ==
  /\ call[p].pc = "locked"
  /\ call' = [call EXCEPT ![p].pc = "sleep"]
  /\ UNCHANGED <<ticks, passed, late, killed, alarmvars>>

\* wakeup(&ticks)
Woken(p) == IF call[p].pc = "sleep" THEN [call[p] EXCEPT !.pc = "test"] ELSE call[p]

\* A process that a timer interrupt found in user mode counts towards its alarm.
Rings(r) == Wrap(curalarmtick[r] + 1) = alarmticks[r]
Counted(r) ==
  /\ curalarmtick' = [curalarmtick EXCEPT ![r] = IF Rings(r) THEN 0 ELSE Wrap(@ + 1)]
  /\ UNCHANGED alarmticks
UserMode(r) == call[r].pc = "user"

\* The timer interrupt of cpu 0, which counts the ticks, in user mode of r or in
\* the kernel; and that of another cpu.
Tick ==
  /\ \A p \in Sleeper : late[p] < MaxLate /\ call[p].pc # "locked"
  /\ ticks' = Wrap(ticks + 1)
  /\ call' = [p \in Sleeper |-> Woken(p)]
  /\ passed' = [p \in Sleeper |-> IF call[p].pc # "user" /\ passed[p] < 2^(Width + 1)
                                  THEN passed[p] + 1 ELSE passed[p]]
  /\ late' = [p \in Sleeper |-> IF call[p].pc = "test" THEN late[p] + 1 ELSE 0]
timer0(r) == Tick /\ (IF UserMode(r) THEN Counted(r) ELSE UNCHANGED alarmvars) /\ UNCHANGED killed
timer(r) == UserMode(r) /\ Counted(r) /\ UNCHANGED <<ticks, call, passed, late, killed>>

\* sys_alarm sets the period and leaves the count where it is.
sys_alarm(p, n) ==
  /\ UserMode(p) /\ ~killed[p]
  /\ alarmticks' = [alarmticks EXCEPT ![p] = n]
  /\ UNCHANGED <<ticks, call, passed, late, killed, curalarmtick>>

kill(p) ==
  /\ killed' = [killed EXCEPT ![p] = TRUE]
  /\ call' = [call EXCEPT ![p] = Woken(p)]
  /\ UNCHANGED <<ticks, passed, late, alarmvars>>

ClockNext ==
  \E p \in Sleeper : \/ \E n \in UInt : sys_sleep(p, n)
                     \/ test(p) \/ sleep(p) \/ timer0(p) \/ timer(p) \/ kill(p)
                     \/ \E n \in Periods : sys_alarm(p, n)

(***************************************************************************)
(* Properties                                                              *)
(***************************************************************************)

\* A call that can end in time whatever the delay of the scheduler: others miss
\* the moment at which the counter is past their time.
InReach(p) == call[p].n + MaxLate < 2^Width

\* sleep(n) goes on sleeping only while fewer than n ticks have passed, and ends
\* only after n ticks or when killed, wherever the tick counter wraps.
SleepExact == [][\A p \in Sleeper :
   /\ InReach(p) /\ call[p].pc = "test" /\ call[p]'.pc = "locked" => passed[p] < call[p].n
   /\ call[p].pc = "test" /\ call[p]'.pc = "user" => passed[p] >= call[p].n \/ killed[p]]_clockvars
=============================================================================
