------------------------------- MODULE Envars -------------------------------
(***************************************************************************)
(* The environment variables kept in the kernel, sysproc.c: one table for  *)
(* all processes, searched by name, whose values are expanded in place     *)
(* when a variable is set.  No lock protects it, so that the calls of two  *)
(* processes interleave: a slot compared, a character copied and a counter *)
(* changed are steps of their own.                                         *)
(*                                                                         *)
(* The source of a set call is a name and a sequence of characters and of  *)
(* names, a name standing for a reference ${name}.  `env' is what a user   *)
(* expects the variables to be.  `racy' records that a set call fell into  *)
(* one of the cases, listed in Departs, for which the code promises        *)
(* nothing, and `excused' the same of a single get call.                   *)
(***************************************************************************)
EXTENDS Integers, Sequences, SequencesExt

CONSTANTS Caller,        \* processes
          Names,
          VAR_LIMIT,     \* variables the table holds (100)
          CONTENT_LIMIT, \* bytes of a value, its terminator included (1000)
          Sources,       \* what may be set: <<name, con>>
          MaxSets, MaxGets \* bounds: calls of each kind

VARIABLES contents, varNum, initiated, \* the table
          req,              \* the call of each process
          sets, gets,       \* calls made so far
          env,              \* history: the expected values
          racy              \* history: a departing call has happened

envvars == <<contents, varNum, initiated, req, sets, gets, env, racy>>

NoName == "none"
Unset == <<"unset">>
NUL == "nul"
Slots == 0 .. VAR_LIMIT - 1

(* pc: "find" and "again" inside find(), which goes on at k; "reset",      *)
(* "set", "name", "fill", "ref", "copy" and "count" inside sys_set(),      *)
(* "get", "out" and "got" inside and after sys_get().  j is the index of   *)
(* find() and its result, i the slot being set, at the next character of   *)
(* slot j.                                                                 *)
Idle == [pc |-> "idle", k |-> "idle", want |-> NoName, j |-> 0, at |-> 0,
         name |-> NoName, con |-> <<>>, i |-> 0, fill |-> 0, new |-> FALSE,
         out |-> <<>>, expected |-> <<>>, excused |-> FALSE]

EnvInit ==
  /\ contents = [i \in Slots |-> [name |-> NoName, size |-> 0,
                                   value |-> [j \in 0 .. CONTENT_LIMIT - 1 |-> NUL]]]
  /\ varNum = 0 /\ initiated = FALSE /\ sets = 0 /\ gets = 0 /\ racy = FALSE
  /\ req = [p \in Caller |-> Idle]
  /\ env = [n \in Names |-> Unset]

Free(p) == req[p].pc \in {"idle", "got"}
Setting(p) == ~Free(p) /\ req[p].k # "get"
Getting(p) == ~Free(p) /\ req[p].k = "get"

(***************************************************************************)
(* find                                                                    *)
(***************************************************************************)

\* The loop: up to the first slot with that name, or past the last one.  Two calls
\* that both counted a variable can have made varNum larger than the table; memory
\* behind it is not followed.
find(p) ==
  LET s == req[p]
      hit == s.j \in Slots /\ contents[s.j].name = s.want
  IN /\ s.pc = "find"
     /\ \/ s.j < varNum /\ s.j \in Slots /\ ~hit /\ req' = [req EXCEPT ![p].j = @ + 1]
        \/ (s.j >= varNum \/ hit) /\ req' = [req EXCEPT ![p].pc = "again"]
     /\ UNCHANGED <<contents, varNum, initiated, sets, gets, env, racy>>

\* After the loop varNum is read again: a variable counted in between is taken
\* for the one that was looked for.
findAgain(p) ==
  LET s == req[p]
  IN /\ s.pc = "again" /\ (s.j < varNum => s.j \in Slots)
     /\ req' = [req EXCEPT ![p].pc = s.k, ![p].j = IF @ < varNum THEN @ ELSE -1]
     /\ UNCHANGED <<contents, varNum, initiated, sets, gets, env, racy>>

(***************************************************************************)
(* The cases in which the table departs from what is expected              *)
(***************************************************************************)
Value(n) == IF env[n] = Unset THEN <<>> ELSE env[n]

\* What a source is expected to give, by the values the variables have.
Expanded(con) == FlattenSeq([k \in 1 .. Len(con) |->
                               IF con[k] \in Names THEN Value(con[k]) ELSE <<con[k]>>])

\* The expansion fails half way: a reference to no variable, or no room.
Incomplete(src) ==
  \/ \E k \in 1 .. Len(src[2]) : src[2][k] \in Names /\ env[src[2][k]] = Unset
  \/ Len(Expanded(src[2])) > CONTENT_LIMIT - 1

\* A value is copied from itself after it has been overwritten.
ReadsItself(src) == \E k \in 2 .. Len(src[2]) : src[2][k] = src[1]

\* Another set call is under way that adds a variable too, or writes what this
\* call reads or writes, or reads what it writes.
Overlaps(p, src) == \E q \in Caller \ {p} :
  /\ Setting(q)
  /\ \/ env[src[1]] = Unset /\ req[q].new
     \/ req[q].name = src[1]
     \/ req[q].name \in Range(src[2])
     \/ src[1] \in Range(req[q].con)
Departs(p, src) == Incomplete(src) \/ ReadsItself(src) \/ Overlaps(p, src)

(***************************************************************************)
(* sys_set                                                                 *)
(***************************************************************************)

\* The call, which is the first one or not; a get call of the same variable that
\* is under way is excused.
setCall(p) == \E src \in Sources :
  /\ Free(p) /\ sets < MaxSets
  /\ sets' = sets + 1
  /\ req' = [q \in Caller |->
               IF q = p THEN [Idle EXCEPT !.pc = IF initiated THEN "find" ELSE "reset",
                                          !.k = "set", !.want = src[1],
                                          !.name = src[1], !.con = src[2],
                                          !.new = env[src[1]] = Unset,
                                          !.expected = Expanded(src[2])]
               ELSE IF Getting(q) /\ req[q].name = src[1]
               THEN [req[q] EXCEPT !.excused = TRUE] ELSE req[q]]
  /\ initiated' = TRUE
  /\ racy' = (racy \/ Departs(p, src))
  /\ UNCHANGED <<contents, varNum, gets, env>>

\* The first call empties the table, after it has said so: another one may already
\* have counted a variable.
setReset(p) ==
  /\ req[p].pc = "reset"
  /\ varNum' = 0
  /\ req' = [req EXCEPT ![p].pc = "find"]
  /\ UNCHANGED <<contents, initiated, sets, gets, env, racy>>

\* After find(): a new variable needs room in the table.
setFound(p) ==
  LET s == req[p]
  IN /\ s.pc = "set"
     /\ \/ s.j # -1 /\ req' = [req EXCEPT ![p].pc = "fill", ![p].i = s.j, ![p].new = FALSE]
        \/ /\ s.j = -1 /\ varNum # VAR_LIMIT
           /\ req' = [req EXCEPT ![p].pc = "name", ![p].i = varNum, ![p].new = TRUE]
        \/ s.j = -1 /\ varNum = VAR_LIMIT /\ req' = [req EXCEPT ![p] = Idle]
     /\ UNCHANGED <<contents, varNum, initiated, sets, gets, env, racy>>

setName(p) ==
  /\ req[p].pc = "name" /\ req[p].i \in Slots
  /\ contents' = [contents EXCEPT ![req[p].i].name = req[p].name]
  /\ req' = [req EXCEPT ![p].pc = "fill"]
  /\ UNCHANGED <<varNum, initiated, sets, gets, env, racy>>

\* changeEnVar returns, and sys_set() does not look at its result: a new variable
\* is counted (in a step of its own), and what the user now expects.
Return(p) ==
  /\ req' = [req EXCEPT ![p] = IF @.new THEN [@ EXCEPT !.pc = "count"] ELSE Idle]
  /\ env' = IF req[p].new THEN env ELSE [env EXCEPT ![req[p].name] = req[p].expected]

\* changeEnVar, one character or reference at a time.
changeEnVar(p) ==
  LET s == req[p]
      c == s.con[1]
  IN /\ s.pc = "fill" /\ s.con # <<>>
     /\ \/ /\ c \in Names
           /\ req' = [req EXCEPT ![p].pc = "find", ![p].k = "ref", ![p].want = c, ![p].j = 0]
           /\ UNCHANGED <<contents, env>>
        \/ /\ c \notin Names /\ s.fill < CONTENT_LIMIT - 1
           /\ contents' = [contents EXCEPT ![s.i].value[s.fill] = c]
           /\ req' = [req EXCEPT ![p].con = Tail(@), ![p].fill = @ + 1]
           /\ UNCHANGED env
        \/ c \notin Names /\ s.fill >= CONTENT_LIMIT - 1 /\ Return(p) /\ UNCHANGED contents
     /\ UNCHANGED <<varNum, initiated, sets, gets, racy>>

\* ${name}: nothing more is done when there is no such variable.
Referred(p) ==
  /\ req[p].pc = "ref"
  /\ \/ req[p].j = -1 /\ Return(p)
     \/ req[p].j # -1 /\ req' = [req EXCEPT ![p].pc = "copy", ![p].at = 0] /\ UNCHANGED env
  /\ UNCHANGED <<contents, varNum, initiated, sets, gets, racy>>

\* A bug in the next operator: what is filled so far is not counted.
CopiedInPlace(p, s) ==
  /\ contents' = [contents EXCEPT ![s.i].value[s.fill + s.at] = contents[s.j].value[s.at]]
  /\ req' = [req EXCEPT ![p].at = @ + 1]

\* A character of the other value goes to the end of this one.
Copied(p, s) ==
  /\ contents' = [contents EXCEPT ![s.i].value[s.fill] = contents[s.j].value[s.at]]
  /\ req' = [req EXCEPT ![p].fill = @ + 1, ![p].at = @ + 1]

\* The other value is copied, as far as there is room.
Reference(p) ==
  LET s == req[p]
  IN /\ s.pc = "copy"
     /\ \/ /\ s.at >= contents[s.j].size
           /\ req' = [req EXCEPT ![p].pc = "fill", ![p].con = Tail(@)]
           /\ UNCHANGED <<contents, env>>
        \/ /\ s.at < contents[s.j].size /\ s.fill < CONTENT_LIMIT - 1
           /\ Copied(p, s) /\ UNCHANGED env
        \/ /\ s.at < contents[s.j].size /\ s.fill >= CONTENT_LIMIT - 1
           /\ Return(p) /\ UNCHANGED contents
     /\ UNCHANGED <<varNum, initiated, sets, gets, racy>>

\* Its end: the value is terminated and its size set.
setSize(p) ==
  LET s == req[p]
  IN /\ s.pc = "fill" /\ s.con = <<>>
     /\ contents' = [contents EXCEPT ![s.i].size = s.fill, ![s.i].value[s.fill] = NUL]
     /\ Return(p)
     /\ UNCHANGED <<varNum, initiated, sets, gets, racy>>

\* varNum++ makes a new variable known.  A get call that has not found its own
\* and has not read varNum again is excused: it gets this one.
setCount(p) ==
  /\ req[p].pc = "count"
  /\ varNum' = varNum + 1
  /\ env' = [env EXCEPT ![req[p].name] = req[p].expected]
  /\ req' = [q \in Caller |->
               IF q = p THEN Idle
               ELSE IF Getting(q) /\ req[q].pc = "again" /\ req[q].j >= varNum
               THEN [req[q] EXCEPT !.excused = TRUE] ELSE req[q]]
  /\ UNCHANGED <<contents, initiated, sets, gets, racy>>

(***************************************************************************)
(* sys_get                                                                 *)
(***************************************************************************)

\* The call; it is excused while its variable is being set.
getCall(p) == \E n \in Names :
  /\ Free(p) /\ gets < MaxGets
  /\ gets' = gets + 1
  /\ req' = [req EXCEPT ![p] =
               [Idle EXCEPT !.pc = "find", !.k = "get", !.want = n, !.name = n,
                            !.expected = env[n],
                            !.excused = \E q \in Caller : Setting(q) /\ req[q].name = n]]
  /\ UNCHANGED <<contents, varNum, initiated, sets, env, racy>>

\* The value is copied out, as many bytes as size says; -1 when there is none.
sys_get(p) ==
  LET s == req[p]
  IN /\ \/ s.pc = "get" /\ s.j # -1 /\ req' = [req EXCEPT ![p].pc = "out"]
        \/ s.pc = "get" /\ s.j = -1 /\ req' = [req EXCEPT ![p].pc = "got", ![p].out = Unset]
        \/ /\ s.pc = "out" /\ Len(s.out) < contents[s.j].size
           /\ req' = [req EXCEPT ![p].out = Append(@, contents[s.j].value[Len(@)])]
        \/ /\ s.pc = "out" /\ Len(s.out) >= contents[s.j].size
           /\ req' = [req EXCEPT ![p].pc = "got"]
     /\ UNCHANGED <<contents, varNum, initiated, sets, gets, env, racy>>

EnvNext == \E p \in Caller :
  \/ find(p) \/ findAgain(p) \/ getCall(p) \/ sys_get(p)
  \/ setCall(p) \/ setReset(p) \/ setFound(p) \/ setName(p) \/ changeEnVar(p)
  \/ Referred(p) \/ Reference(p) \/ setSize(p) \/ setCount(p)

(***************************************************************************)
(* The property                                                            *)
(***************************************************************************)

\* sys_get returns for a variable what its last set call means, references
\* expanded, whatever calls for other variables are under way, as long as no set
\* call was one of Departs and the get call is not excused: nobody sets the same
\* variable meanwhile, and none is counted at the end of a search in vain.
EnvExact == ~racy => \A p \in Caller :
  req[p].pc = "got" /\ ~req[p].excused => req[p].out = req[p].expected
=============================================================================
