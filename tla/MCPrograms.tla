---------------------------- MODULE MCPrograms ----------------------------
(***************************************************************************)
(* Small instances of five parts that do not interact: the editor, the     *)
(* user-level allocator, the shell, the environment variables and the      *)
(* clock.  A behaviour is one of a single part; the others stay in their   *)
(* initial state.                                                          *)
(***************************************************************************)
EXTENDS Tedit

CONSTANTS p1, p2 \* processes

VARIABLES part,
          ptr, size, freep, started, brk, held,
          line, procs, ran,
          contents, varNum, initiated, req, sets, gets, env, racy,
          ticks, call, passed, late, killed, alarmticks, curalarmtick

\* Every file of up to four characters is loaded and saved; two are edited.
AllFiles == UNION {[1 .. n -> Letters \union {NL}] : n \in 0 .. 4}
Edited == {<<>>, <<"a", NL, "b">>}

\* Requests of up to four units from a heap of eight.
U == INSTANCE Umalloc WITH MaxUnits <- 4, CoreUnits <- 3, HeapUnits <- 8

\* Every line of up to four tokens, and some longer ones.
Token == {"a", "|", ";", "&", "<", "(", ")"}
LongLines == {<<"a", "|", "a", "|", "a">>,
              <<"(", "a", ";", "a", ")", "|", "a", ">", "a">>,
              <<"a", "<", "a", "|", "(", "a", "|", "a", ")", "&">>,
              <<"a", "&", ";", "a", "|", "a">>}
S == INSTANCE Shell WITH MAXARGS <- 3, NFD <- 5, MaxProc <- 6,
       Lines <- UNION {[1 .. n -> Token] : n \in 1 .. 4} \union LongLines

\* Two slots for three names, four characters of a value.
E == INSTANCE Envars WITH Caller <- {p1, p2}, Names <- {"x", "y", "z"},
       VAR_LIMIT <- 2, CONTENT_LIMIT <- 5, MaxSets <- 3, MaxGets <- 2,
       Sources <- {<<"x", <<"a">>>>, <<"x", <<"b", "a">>>>, <<"x", <<"x", "b">>>>,
                   <<"x", <<"a", "x">>>>, <<"y", <<"x", "b", "x">>>>, <<"y", <<>>>>,
                   <<"z", <<"y", "a">>>>, <<"z", <<"a", "b", "b", "a", "b">>>>}

C == INSTANCE Clock WITH Sleeper <- {p1}, Width <- 3, MaxLate <- 2, Periods <- {0, 1, 3}

PInit ==
  /\ part \in {"tedit", "umalloc", "shell", "envars", "clock"}
  /\ Init /\ (part # "tedit" => file = <<>>)
  /\ U!MallocInit /\ S!ShInit /\ E!EnvInit
  /\ C!ClockInit /\ (part # "clock" => ticks = 0)

teditvars == <<f, text, file, firstline_onscreen, edit_mode, ese_mode, order,
               wrong_order, page, stray>>
mallocvars == <<ptr, size, freep, started, brk, held>>
shvars == <<line, procs, ran>>
envvars == <<contents, varNum, initiated, req, sets, gets, env, racy>>
clockvars == <<ticks, call, passed, late, killed, alarmticks, curalarmtick>>

TeditStep == /\ part = "tedit" /\ Next
             /\ UNCHANGED <<part, mallocvars, shvars, envvars, clockvars>>
MallocStep == /\ part = "umalloc" /\ U!MallocNext
              /\ UNCHANGED <<part, teditvars, shvars, envvars, clockvars>>
ShellStep == /\ part = "shell" /\ S!ShNext
             /\ UNCHANGED <<part, teditvars, mallocvars, envvars, clockvars>>
EnvarsStep == /\ part = "envars" /\ E!EnvNext
              /\ UNCHANGED <<part, teditvars, mallocvars, shvars, clockvars>>
ClockStep == /\ part = "clock" /\ C!ClockNext
             /\ UNCHANGED <<part, teditvars, mallocvars, shvars, envvars>>
PNext == TeditStep \/ MallocStep \/ ShellStep \/ EnvarsStep \/ ClockStep

pvars == <<part, teditvars, mallocvars, shvars, envvars, clockvars>>
PSpec == PInit /\ [][PNext]_pvars

\* A document that has left its text is not followed further, a table of variables
\* that has left its values not past the second call.
Followed == ~stray /\ (edit_mode => file \in Edited) /\ (racy => sets + gets <= 2)

\* Free and held blocks tile the heap, and free blocks never touch (Umalloc).
HeapTiled == U!HeapTiled

\* The parser makes of a line the one tree its grammar allows (Shell).
ParseExact == S!ParseExact

\* Programs get the descriptors their place in the line gives them (Shell).
PlumbingExact == S!PlumbingExact

\* The processes of a line never all wait for each other (Shell).
NeverStuck == S!NeverStuck

\* get returns what the last set means (Envars).
EnvExact == E!EnvExact

\* sleep lasts as long as it was asked to (Clock).
SleepExact == C!SleepExact
=============================================================================
