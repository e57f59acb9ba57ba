------------------------------ MODULE MCKernel ------------------------------
(***************************************************************************)
(* Small instances of two parts of the kernel that do not interact: the    *)
(* memory and the console.  A behaviour is one of a single part; the other *)
(* stays in its initial state.                                             *)
(***************************************************************************)
EXTENDS Memory, Sequences

VARIABLES part, buf, r, w, e, inputPos, isConsole, mode, gameInput, command,
          first, reader, line, pend, stray, events

consolevars == <<buf, r, w, e, inputPos, isConsole, mode, gameInput, command, first,
                 reader, line, pend, stray, events>>

\* The first process and one child, on two CPUs.
MCSbrk == {-3, -1, 3}
MCMaxCalls == <<4, 2>>

\* Programs of one segment and of two that overlap or lie apart, a header with nothing
\* in it, one up to KERNBASE, one with too large a file, and ones that exec() should
\* not trust: not aligned, and wrapping.
Header(v, m, f) == [vaddr |-> v, memsz |-> m, filesz |-> f]
MCHeaders == {Header(0, 1, 1), Header(2, 2, 2), Header(2, 6, 3), Header(0, 0, 0), Header(8, 4, 0),
              Header(0, 1, 2), Header(1, 3, 2), Header(14, 4, 4)}

\* A ring of three characters and a history of three lines.
C == INSTANCE Console WITH Char <- {"i"}, INPUT_BUF <- 3, COMMAND_BUF <- 3, Ask <- {2},
       Completions <- {0, 1}, MaxEvents <- 4,
       Keys <- {"i", "nl", "^D", "^U", "bs", "left", "right", "up", "down", "tab", "esc"}

\* From the start, or after the lines "i" and "ii" were entered and read.
CInit ==
    /\ \/ buf = [i \in 0 .. 2 |-> C!Nul] /\ r = 0 /\ command = C!NoLines
       \/ /\ part = "console"
          /\ buf = [i \in 0 .. 2 |-> IF i = 1 THEN C!NL ELSE "i"] /\ r = 5
          /\ command = C!Remember(C!Remember(C!NoLines, <<"i">>), <<"i", "i">>)
    /\ w = r /\ e = r
    /\ inputPos = 0 /\ isConsole = 1 /\ mode = "none" /\ gameInput = C!Nul
    /\ first = TRUE /\ reader = C!Idle
    /\ line = <<>> /\ pend = <<>> /\ stray = "" /\ events = 0

KInit == /\ part \in {"console", "memory"} /\ CInit
         /\ Init /\ (part = "console" => npage = 11)
ConsoleStep == part = "console" /\ C!Next /\ UNCHANGED <<part, vars>>
MemoryStep == part = "memory" /\ Next /\ UNCHANGED <<part, consolevars>>
KNext == ConsoleStep \/ MemoryStep
KSpec == KInit /\ [][KNext]_<<part, vars, consolevars>>

\* The ring holds the text entered and not read, then the line as edited (Console).
InputExact == C!InputExact

\* A reader in consoleread() sleeps only while nothing is there to read (Console).
SleeperHasReason == C!SleeperHasReason

\* The history is a ring until all of its lines are in use (Console).
HistoryIsRing == C!HistoryIsRing
=============================================================================
