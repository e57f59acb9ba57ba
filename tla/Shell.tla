------------------------------- MODULE Shell -------------------------------
(***************************************************************************)
(* The shell, sh.c: the recursive-descent parser and the processes that    *)
(* runcmd makes of a parsed line, with their file descriptors.             *)
(*                                                                         *)
(* A line is a sequence of the tokens gettoken finds; every word is the    *)
(* token "a" and is known by its position in the line.  A process step     *)
(* runs up to the next fork, wait, exec or exit, the points at which other *)
(* processes matter; what it does to its own descriptors in between is     *)
(* private to it.  Programs read their input to its end.                   *)
(***************************************************************************)
EXTENDS Integers, Sequences, FiniteSets, SequencesExt

CONSTANTS MAXARGS,   \* a command has fewer words (10)
          NFD,       \* descriptors of a process (NOFILE)
          MaxProc,   \* bound: processes of one line, the shell included
          Lines      \* lines that may be typed

VARIABLES line,      \* the line typed
          procs,     \* the live and the zombie processes
          ran        \* history: what was exec'ed, with its descriptors

shvars == <<line, procs, ran>>

(***************************************************************************)
(* Parsing: an operator takes the position ps of the next token and gives  *)
(* a tree and the position after it; the tree is Panic after panic().      *)
(***************************************************************************)

Panic == [type |-> "panic"]
execcmd(argv) == [type |-> "exec", argv |-> argv]
redircmd(cmd, file, fd) == [type |-> "redir", cmd |-> cmd, file |-> file, fd |-> fd]
pipecmd(l, r) == [type |-> "pipe", left |-> l, right |-> r]
listcmd(l, r) == [type |-> "list", left |-> l, right |-> r]
backcmd(cmd) == [type |-> "back", cmd |-> cmd]

Fails(ps) == [ok |-> FALSE, t |-> Panic, ps |-> ps]
Gives(t, ps) == [ok |-> TRUE, t |-> t, ps |-> ps]
gettoken(s, ps) == IF ps <= Len(s) THEN s[ps] ELSE "end"
peek(s, ps, toks) == ps <= Len(s) /\ s[ps] \in toks
Fd(tok) == IF tok = "<" THEN 0 ELSE 1
RedirToks == {"<", ">", ">>"}

\* parseredirs: the redirections at ps, as pairs of descriptor and word.
RECURSIVE parseredirs(_, _)
parseredirs(s, ps) ==
  IF ~peek(s, ps, RedirToks) THEN Gives(<<>>, ps)
  ELSE IF gettoken(s, ps + 1) # "a" THEN Fails(ps)
  ELSE LET r == parseredirs(s, ps + 2)
       IN IF r.ok THEN Gives(<<<<Fd(gettoken(s, ps)), ps + 1>>>> \o r.t, r.ps) ELSE r

\* Each redirection is wrapped around the command, the later ones outside.
Redirected(cmd, rs) == FoldLeft(LAMBDA c, x : redircmd(c, x[2], x[1]), cmd, rs)

\* parseexec's loop, with the words and redirections collected so far.
RECURSIVE Words(_, _, _, _)
Words(s, ps, argv, rs) ==
  LET r == parseredirs(s, ps + 1)
  IN IF gettoken(s, ps) = "end" \/ peek(s, ps, {"|", ")", "&", ";"})
     THEN Gives(Redirected(execcmd(argv), rs), ps)
     ELSE IF gettoken(s, ps) # "a" \/ Len(argv) + 1 >= MAXARGS \/ ~r.ok THEN Fails(ps)
     ELSE Words(s, r.ps, Append(argv, ps), rs \o r.t)

\* A bug in the next operator: `if' in place of `while'.
BacksOnce(s, r) == IF ~peek(s, r.ps, {"&"}) THEN r ELSE Gives(backcmd(r.t), r.ps + 1)

\* Every "&" after a pipeline puts it in the background once more.
RECURSIVE Backs(_, _)
Backs(s, r) == IF ~peek(s, r.ps, {"&"}) THEN r
               ELSE Backs(s, Gives(backcmd(r.t), r.ps + 1))

\* The four procedures that call each other: a block is a line in parentheses.
RECURSIVE parse(_, _, _)
parse(what, s, ps) ==
  LET redirs == parseredirs(s, ps)
      block == parse("line", s, ps + 1)
      after == parseredirs(s, block.ps + 1)
      stage == parse("exec", s, ps)
      stages == parse("pipe", s, stage.ps + 1)
      pipeline == parse("pipe", s, ps)
      job == Backs(s, pipeline)
      rest == parse("line", s, job.ps + 1)
  IN CASE what = "block" ->
            IF block.ok /\ peek(s, block.ps, {")"}) /\ after.ok
            THEN Gives(Redirected(block.t, after.t), after.ps) ELSE Fails(ps)
       [] what = "exec" ->
            IF peek(s, ps, {"("}) THEN parse("block", s, ps)
            ELSE IF redirs.ok THEN Words(s, redirs.ps, <<>>, redirs.t) ELSE redirs
       [] what = "pipe" ->
            IF ~stage.ok \/ ~peek(s, stage.ps, {"|"}) THEN stage
            ELSE IF stages.ok THEN Gives(pipecmd(stage.t, stages.t), stages.ps) ELSE stages
       [] what = "line" ->
            IF ~pipeline.ok THEN pipeline
            ELSE IF ~peek(s, job.ps, {";"}) THEN job
            ELSE IF rest.ok THEN Gives(listcmd(job.t, rest.t), rest.ps) ELSE rest

\* parsecmd: anything left over is a syntax error.
parsecmd(s) == LET r == parse("line", s, 1)
               IN IF r.ok /\ r.ps = Len(s) + 1 THEN r.t ELSE Panic

(***************************************************************************)
(* The grammar those operators are to accept: the trees of the tokens i to *)
(* j - 1, by every way of splitting them.                                  *)
(***************************************************************************)

\* Operators with their word, and nothing else but words around them.
FilesOf(s, i, j) == {k \in i .. j - 1 : k > i /\ s[k - 1] \in RedirToks}
Simple(s, i, j) ==
  /\ \A k \in i .. j - 1 : s[k] \in RedirToks \union {"a"}
  /\ \A k \in i .. j - 1 : s[k] \in RedirToks => k + 1 < j /\ s[k + 1] = "a"
InOrder(S) == SetToSortSeq(S, <)
RedirsOf(s, i, j) == [n \in 1 .. Cardinality(FilesOf(s, i, j)) |->
                        LET k == InOrder(FilesOf(s, i, j))[n] IN <<Fd(s[k - 1]), k>>]
Argv(s, i, j) == InOrder({k \in i .. j - 1 : s[k] = "a"} \ FilesOf(s, i, j))

RECURSIVE Trees(_, _, _, _)
Trees(what, s, i, j) ==
  LET simple == Simple(s, i, j) /\ Len(Argv(s, i, j)) < MAXARGS
      ends == {m \in i + 1 .. j - 1 : /\ s[i] = "(" /\ s[m] = ")"
                                      /\ Simple(s, m + 1, j) /\ Argv(s, m + 1, j) = <<>>}
      at(tok) == {m \in i .. j - 1 : s[m] = tok}
  IN CASE what = "exec" ->
            (IF simple THEN {Redirected(execcmd(Argv(s, i, j)), RedirsOf(s, i, j))} ELSE {})
            \union UNION {{Redirected(t, RedirsOf(s, m + 1, j)) :
                             t \in Trees("line", s, i + 1, m)} : m \in ends}
       [] what = "pipe" ->
            Trees("exec", s, i, j)
            \union UNION {{pipecmd(l, r) : l \in Trees("exec", s, i, m),
                                          r \in Trees("pipe", s, m + 1, j)} : m \in at("|")}
       [] what = "job" ->
            Trees("pipe", s, i, j)
            \union (IF j - 1 \in at("&")
                    THEN {backcmd(t) : t \in Trees("job", s, i, j - 1)} ELSE {})
       [] what = "line" ->
            Trees("job", s, i, j)
            \union UNION {{listcmd(l, r) : l \in Trees("job", s, i, m),
                                          r \in Trees("line", s, m + 1, j)} : m \in at(";")}

(***************************************************************************)
(* The processes of a line                                                 *)
(***************************************************************************)

Pid == 1 .. MaxProc
sh == 1
None == <<"none">>
Console == <<"console">>
NoFds == [d \in 0 .. NFD - 1 |-> None]
Unused == [pc |-> "unused", cmd |-> Panic, fds |-> NoFds, parent |-> 0]

ShInit ==
  /\ line = <<>> /\ ran = {}
  /\ procs = [p \in Pid |-> IF p # sh THEN Unused ELSE
                [pc |-> "prompt", cmd |-> Panic, parent |-> 0,
                 fds |-> [d \in 0 .. NFD - 1 |-> IF d < 3 THEN Console ELSE None]]]

\* The kernel's part of open, dup and pipe: the lowest free descriptor.
Lowest(fds) == CHOOSE d \in DOMAIN fds : fds[d] = None /\ \A e \in 0 .. d - 1 : fds[e] # None
Opened(fds, obj) == [fds EXCEPT ![Lowest(fds)] = obj]
Holding(fds, obj) == CHOOSE d \in DOMAIN fds : fds[d] = obj /\ d > 2
Closed(fds, d) == [fds EXCEPT ![d] = None]

\* The ends of the pipe of a command, and the descriptors without p[0] and p[1].
PipeEnd(e, cmd) == <<e, cmd>>
Unpiped(fds, cmd) ==
  Closed(Closed(fds, Holding(fds, PipeEnd("r", cmd))), Holding(fds, PipeEnd("w", cmd)))

\* fork: a child with its parent's descriptors starts at pc with a command.
Free == {c \in Pid \ {sh} : procs[c].pc = "unused"}
Child == CHOOSE c \in Free : TRUE
CanFork == Free # {}
Forked(ps, p, pc, cmd) ==
  [ps EXCEPT ![Child] = [pc |-> pc, cmd |-> cmd, fds |-> ps[p].fds, parent |-> p]]

\* exit: descriptors are closed, children go to init, which waits for them.
Exited(ps, p) ==
  [q \in Pid |->
     IF q = p THEN IF ps[p].parent = 0 THEN Unused
                   ELSE [Unused EXCEPT !.pc = "zombie", !.parent = ps[p].parent]
     ELSE IF ps[q].parent = p /\ ps[q].pc = "zombie" THEN Unused
     ELSE IF ps[q].parent = p THEN [ps[q] EXCEPT !.parent = 0] ELSE ps[q]]

At(p, pc) == procs[p].pc = pc
Runs(p, type) == At(p, "run") /\ procs[p].cmd.type = type

\* main: a command line is run by a child, which parses it; at the end of its
\* input the shell exits.  The lines of the shell itself leave this state as it
\* is: cd changes no process or file, and an assignment is given to set(), after
\* which wait() has no child to wait for.
getcmd ==
  /\ At(sh, "prompt") /\ line = <<>>
  /\ line' \in Lines
  /\ procs' = [Forked(procs, sh, "parse", Panic) EXCEPT ![sh].pc = "wait"]
  /\ UNCHANGED ran
eof ==
  /\ At(sh, "prompt")
  /\ procs' = Exited(procs, sh)
  /\ UNCHANGED <<line, ran>>

parseLine(p) ==
  LET t == parsecmd(line)
  IN /\ At(p, "parse")
     /\ procs' = IF t = Panic THEN Exited(procs, p)
                 ELSE [procs EXCEPT ![p].cmd = t, ![p].pc = "run"]
     /\ UNCHANGED <<line, ran>>

\* EXEC: the program starts, or there is none, or exec fails.
runexec(p) ==
  LET argv == procs[p].cmd.argv
  IN /\ Runs(p, "exec")
     /\ \/ /\ argv # <<>>
           /\ procs' = [procs EXCEPT ![p].pc = "program"]
           /\ ran' = ran \union {<<argv, procs[p].fds>>}
        \/ procs' = Exited(procs, p) /\ UNCHANGED ran
     /\ UNCHANGED line

\* REDIR: close and open, in the hope of the same descriptor.
runredir(p) ==
  LET c == procs[p].cmd
  IN /\ Runs(p, "redir")
     /\ \/ procs' = [procs EXCEPT ![p].cmd = c.cmd,
                        ![p].fds = Opened(Closed(@, c.fd), <<"file", c.file>>)]
        \/ procs' = Exited(procs, p)
     /\ UNCHANGED <<line, ran>>

runlist(p) ==
  /\ Runs(p, "list") /\ CanFork
  /\ procs' = [Forked(procs, p, "run", procs[p].cmd.left) EXCEPT ![p].pc = "list"]
  /\ UNCHANGED <<line, ran>>

\* PIPE: pipe and the first fork; the second fork; then both ends are closed.
runpipe(p) ==
  LET c == procs[p].cmd
      fds == Opened(Opened(procs[p].fds, PipeEnd("r", c)), PipeEnd("w", c))
      ps == [procs EXCEPT ![p].fds = fds]
  IN /\ Runs(p, "pipe") /\ CanFork
     /\ Cardinality({d \in 0 .. NFD - 1 : procs[p].fds[d] = None}) >= 2
     /\ procs' = [Forked(ps, p, "left", c) EXCEPT ![p].pc = "pipe"]
     /\ UNCHANGED <<line, ran>>
runpipe2(p) ==
  LET c == procs[p].cmd
  IN /\ At(p, "pipe") /\ CanFork
     /\ procs' = [Forked(procs, p, "right", c) EXCEPT ![p].pc = "pipewait2",
                     ![p].fds = Unpiped(@, c)]
     /\ UNCHANGED <<line, ran>>

\* The children of PIPE: the end becomes descriptor 1 or 0, the others go.
left(p) ==
  LET c == procs[p].cmd
  IN /\ At(p, "left")
     /\ procs' = [procs EXCEPT ![p].pc = "run", ![p].cmd = c.left,
                     ![p].fds = Unpiped(Opened(Closed(@, 1), PipeEnd("w", c)), c)]
     /\ UNCHANGED <<line, ran>>

\* A bug in the right child: it keeps the write end of its own pipe.
rightKeeps(p) ==
  LET c == procs[p].cmd
  IN /\ At(p, "right")
     /\ procs' = [procs EXCEPT ![p].pc = "run", ![p].cmd = c.right,
                     ![p].fds = LET o == Opened(Closed(@, 0), PipeEnd("r", c))
                                IN Closed(o, Holding(o, PipeEnd("r", c)))]
     /\ UNCHANGED <<line, ran>>
right(p) ==
  LET c == procs[p].cmd
  IN /\ At(p, "right")
     /\ procs' = [procs EXCEPT ![p].pc = "run", ![p].cmd = c.right,
                     ![p].fds = Unpiped(Opened(Closed(@, 0), PipeEnd("r", c)), c)]
     /\ UNCHANGED <<line, ran>>

runback(p) ==
  /\ Runs(p, "back") /\ CanFork
  /\ procs' = Exited(Forked(procs, p, "run", procs[p].cmd.cmd), p)
  /\ UNCHANGED <<line, ran>>

\* fork or pipe fails: panic, which ends the shell itself in main.
forkFails(p) ==
  /\ \/ p = sh /\ At(p, "prompt") /\ line = <<>>
     \/ At(p, "run") /\ procs[p].cmd.type \in {"list", "pipe", "back"}
     \/ At(p, "pipe")
  /\ procs' = Exited(procs, p)
  /\ UNCHANGED <<line, ran>>

\* wait: a zombie child is reaped, and the caller goes on.
Waiting == {"wait", "list", "pipewait2", "pipewait1"}
wait(p) ==
  \E c \in Pid :
    /\ procs[p].pc \in Waiting /\ At(c, "zombie") /\ procs[c].parent = p
    /\ LET ps == [procs EXCEPT ![c] = Unused]
       IN procs' = CASE At(p, "wait") -> [ps EXCEPT ![p].pc = "prompt"]
                     [] At(p, "list") -> [ps EXCEPT ![p].pc = "run", ![p].cmd = @.right]
                     [] At(p, "pipewait2") -> [ps EXCEPT ![p].pc = "pipewait1"]
                     [] At(p, "pipewait1") -> Exited(ps, p)
    /\ UNCHANGED <<line, ran>>

\* A program ends when its input has: on a pipe, when no process can write.
Writable(cmd) == \E q \in Pid : PipeEnd("w", cmd) \in Range(procs[q].fds)
program(p) ==
  LET in == procs[p].fds[0]
  IN /\ At(p, "program")
     /\ in[1] = "r" => ~Writable(in[2])
     /\ procs' = Exited(procs, p)
     /\ UNCHANGED <<line, ran>>

Step(p) == \/ parseLine(p) \/ runexec(p) \/ runredir(p) \/ runlist(p) \/ runpipe(p) \/ runpipe2(p)
           \/ left(p) \/ right(p) \/ runback(p) \/ forkFails(p) \/ wait(p) \/ program(p)
ShNext == getcmd \/ eof \/ \E p \in Pid : Step(p)

(***************************************************************************)
(* Properties                                                              *)
(***************************************************************************)

\* The parser accepts exactly the lines of the grammar, and of such a line it
\* makes the only tree the grammar allows: no line is read in two ways.
ParseExact == (\E p \in Pid : At(p, "parse")) =>
  Trees("line", line, 1, Len(line) + 1) = IF parsecmd(line) = Panic THEN {} ELSE {parsecmd(line)}

\* The programs of a tree with the input and output each is to have.
RECURSIVE Plumbing(_, _, _)
Plumbing(c, in, out) ==
  CASE c.type = "exec" -> {<<c.argv, in, out>>}
    [] c.type = "redir" -> IF c.fd = 0 THEN Plumbing(c.cmd, <<"file", c.file>>, out)
                           ELSE Plumbing(c.cmd, in, <<"file", c.file>>)
    [] c.type = "pipe" -> Plumbing(c.left, in, PipeEnd("w", c)) \union Plumbing(c.right, PipeEnd("r", c), out)
    [] c.type = "list" -> Plumbing(c.left, in, out) \union Plumbing(c.right, in, out)
    [] c.type = "back" -> Plumbing(c.cmd, in, out)

\* Every program starts with the input and output its place in the line gives
\* it, the console as its error output, and no other descriptor: in particular
\* no end of a pipe that would keep a reader from seeing the end of its input.
PlumbingExact ==
  \A x \in ran : /\ <<x[1], x[2][0], x[2][1]>> \in Plumbing(parsecmd(line), Console, Console)
                 /\ x[2][2] = Console
                 /\ \A d \in 3 .. NFD - 1 : x[2][d] = None

\* A process that waits neither for a child nor for its input.
GoesOn(p) ==
  \/ procs[p].pc \in {"parse", "run", "left", "right", "pipe"}
  \/ procs[p].pc \in Waiting /\ \E c \in Pid : At(c, "zombie") /\ procs[c].parent = p
  \/ At(p, "program") /\ (procs[p].fds[0][1] = "r" => ~Writable(procs[p].fds[0][2]))

\* The shell and the processes of a line never all wait for each other, for a
\* child to exit or for a pipe to end: until the shell is back at its prompt (or
\* has exited), some process can go on.
NeverStuck == procs[sh].pc \in {"prompt", "unused"} \/ \E p \in Pid : GoesOn(p)
=============================================================================
