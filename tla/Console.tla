------------------------------ MODULE Console -------------------------------
(***************************************************************************)
(* Console input: the ring buffer between the keyboard and consoleread(),  *)
(* the line editor and the command history of consoleintr(), and the modes *)
(* that the shell, the editor and the game switch.  consoleintr() and      *)
(* consoleread() hold input.lock, so a key is one step and so is what a    *)
(* reader does between two sleeps.  Of the screen only the cursor matters: *)
(* inputPos counts from the end of the line, negative inside it.           *)
(***************************************************************************)
EXTENDS Integers, Sequences, FiniteSetsExt

CONSTANTS
    Char,          \* printing characters; "i" starts the editor's input mode
    INPUT_BUF, COMMAND_BUF,
    Ask,           \* byte counts that readers ask for
    Completions,   \* numbers of characters that TAB may complete
    Keys,          \* the keys of an instance
    MaxEvents      \* bound on the keys pressed and the mode switches

VARIABLES
    buf, r, w, e,  \* input
    inputPos,
    isConsole,     \* 1 shell, 0 editor, 2 game
    mode,          \* "none", "edit", "esc", "both": edit_mode and esc_mode
    gameInput,     \* the key that gameget() has not taken, or Nul
    command,       \* the history: lines, next, pre, head, tail, current, size
    first,
    reader,        \* a process in consoleread(), what it asked for and has got
    line, pend,    \* history: the line as edited, the text entered and unread
    stray,         \* history: why the code lost track of the line, or ""
    events         \* how many there have been

vars == <<buf, r, w, e, inputPos, isConsole, mode, gameInput, command, first, reader,
          line, pend, stray, events>>

NL == "nl"
CtrlD == "^D"
Nul == "nul"
Unknown == "?"

Slot(n) == n % INPUT_BUF
Text(i, j) == [k \in 1 .. j - i |-> buf[Slot(i + k - 1)]]

(* The cells of the ring as an array, with the stores of a loop without %; *)
(* a store outside is kept out and remembered by Outside.                  *)
Outside(i) == i < 0 \/ i >= INPUT_BUF

-----------------------------------------------------------------------------
WokenNot == reader

(* wakeup(&input.r)                                                        *)
Woken == [reader EXCEPT !.pc = IF @ = "asleep" THEN "reading" ELSE @]

(* input.w = input.e; wakeup(&input.r)                                     *)
Enter(text) ==
    /\ w' = e'
    /\ reader' = Woken
    /\ pend' = pend \o text
    /\ line' = <<>>

(* Where the cursor is in the line, and whether it is in the line at all.  *)
Cursor == Len(line) + inputPos
Misplaced == inputPos > 0 \/ Cursor < 0

InsertAt(s, k, t) == SubSeq(s, 1, k) \o t \o SubSeq(s, k + 1, Len(s))

RoomForOneMore == e - r >= 0 /\ e - r <= INPUT_BUF

Room == e - r >= 0 /\ e - r < INPUT_BUF

(* The loop of the default case that makes room at the cursor.             *)
Shifted(c) ==
    LET b == Slot(e)
    IN  [i \in 0 .. INPUT_BUF - 1 |->
           IF i = b + inputPos THEN c
           ELSE IF i > b + inputPos /\ i <= b THEN buf[i - 1] ELSE buf[i]]

-----------------------------------------------------------------------------
(* The history.                                                            *)

(* Copying a line over an old one: there is no terminator, so the end of a *)
(* longer old line stays.                                                  *)
Over(old, new) == new \o SubSeq(old, Len(new) + 1, Len(old))

NoLines == [lines |-> [k \in 0 .. COMMAND_BUF - 1 |-> <<>>],
            next |-> [k \in 0 .. COMMAND_BUF - 1 |-> 0],
            pre |-> [k \in 0 .. COMMAND_BUF - 1 |-> 0],
            head |-> 0, tail |-> 0, current |-> 0, size |-> 0]

(* A new line goes behind the tail, in place of the head if need be.       *)
Appended(h, text) ==
    LET k == h.size % COMMAND_BUF
        head == IF k = h.head THEN h.next[h.head] ELSE h.head
    IN  [h EXCEPT !.head = head, !.lines[k] = Over(@, text),
                  !.next = [@ EXCEPT ![h.tail] = k, ![k] = head],
                  !.pre = [@ EXCEPT ![k] = h.tail, ![head] = k],
                  !.tail = k, !.current = k, !.size = @ + 1]

MovedHalf(h, text) ==
    LET c == h.current
        head == IF c = h.head THEN h.next[c] ELSE h.head
        next == [h.next EXCEPT ![h.pre[c]] = h.next[c]]
        pre == h.pre
    IN  [h EXCEPT !.lines[c] = Over(@, text), !.head = head,
                  !.pre = [pre EXCEPT ![c] = h.tail, ![head] = c],
                  !.next = [next EXCEPT ![c] = head, ![h.tail] = c],
                  !.tail = c]

(* A line that was recalled is overwritten and moves behind the tail.      *)
Moved(h, text) ==
    LET c == h.current
        head == IF c = h.head THEN h.next[c] ELSE h.head
        next == [h.next EXCEPT ![h.pre[c]] = h.next[c]]
        pre == [h.pre EXCEPT ![h.next[c]] = h.pre[c]]
    IN  [h EXCEPT !.lines[c] = Over(@, text), !.head = head,
                  !.pre = [pre EXCEPT ![c] = h.tail, ![head] = c],
                  !.next = [next EXCEPT ![c] = head, ![h.tail] = c],
                  !.tail = c]

Remember(h, text) ==
    CASE h.size = 0 -> [h EXCEPT !.lines[0] = Over(@, text), !.size = 1,
                                 !.pre[h.head] = h.tail, !.next[h.head] = h.tail]
      [] h.size > 0 /\ h.current = h.tail -> Appended(h, text)
      [] h.size > 0 /\ h.current # h.tail -> Moved(h, text)

(* The loops that copy the line from r to e - 1 into the history.  The one *)
(* for the first line does not wrap the index: past the end of the ring it *)
(* copies other bytes of the kernel, here one unknown character.           *)
Copied(b) ==
    [k \in 1 .. e - r |->
       CASE command.size > 0 -> b[Slot(r + k - 1)]
         [] command.size = 0 /\ Outside(r + k - 1) -> Unknown
         [] command.size = 0 /\ ~ Outside(r + k - 1) -> b[r + k - 1]]

-----------------------------------------------------------------------------
(* Keys in the shell and, but for those that type, in the game.            *)
Lost(why) == stray' = why

(* The default case: insert at the cursor, and hand the line over at its   *)
(* end, at ^D and when the buffer is full.                                 *)
Type(c) ==
    LET inside == inputPos < 0 /\ c # NL
        ends == c \in {NL, CtrlD} \/ e + 1 = r + INPUT_BUF
        text == IF inside THEN InsertAt(line, Cursor, <<c>>) ELSE Append(line, c)
    IN  /\ isConsole = 1 /\ c \in Char \cup {NL, CtrlD} /\ Room
        /\ \/ /\ inside /\ (Misplaced \/ Outside(Slot(e) + inputPos))
              /\ Lost(IF Misplaced THEN "cursor" ELSE "wrap")
              /\ UNCHANGED <<buf, w, e, inputPos, reader, line, pend, command, first>>
           \/ /\ ~ (inside /\ (Misplaced \/ Outside(Slot(e) + inputPos)))
              /\ buf' = IF inside THEN Shifted(c) ELSE [buf EXCEPT ![Slot(e)] = c]
              /\ e' = e + 1
              /\ \/ /\ ends
                    /\ inputPos' = 0 /\ first' = TRUE
                    /\ command' = Remember(command, Copied(buf'))
                    /\ Enter(text)
                 \/ /\ ~ ends
                    /\ line' = text
                    /\ UNCHANGED <<w, inputPos, reader, pend, command, first>>
              /\ UNCHANGED stray
        /\ UNCHANGED <<r, isConsole, mode, gameInput>>

(* Killing the line back to w or to a newline, which a recalled line may   *)
(* have: the history takes all that is unread for the line.                *)
Killed ==
    CHOOSE n \in w .. e :
       /\ n = w \/ buf[Slot(n - 1)] = NL
       /\ \A k \in n + 1 .. e : buf[Slot(k - 1)] # NL

Kept == SubSeq(line, 1, Killed - w)

CtrlU ==
    /\ isConsole # 0
    /\ e' = Killed
    /\ line' = Kept
    /\ UNCHANGED <<buf, r, w, inputPos, isConsole, mode, gameInput, command, first, reader,
                   pend, stray>>

Backspace ==
    LET from == Slot(e) + inputPos - 1
    IN  /\ isConsole # 0
        /\ e + inputPos # w
        /\ \/ /\ Misplaced \/ (inputPos < 0 /\ Outside(from))
              /\ Lost(IF Misplaced THEN "cursor" ELSE "wrap")
              /\ UNCHANGED <<buf, e, line>>
           \/ /\ ~ Misplaced /\ (inputPos < 0 => ~ Outside(from))
              /\ buf' = IF inputPos = 0 THEN buf
                        ELSE [i \in 0 .. INPUT_BUF - 1 |->
                                IF i >= from /\ i < Slot(e - 1) THEN buf[i + 1] ELSE buf[i]]
              /\ e' = e - 1
              /\ line' = SubSeq(line, 1, Cursor - 1) \o SubSeq(line, Cursor + 1, Len(line))
              /\ UNCHANGED stray
        /\ UNCHANGED <<r, w, inputPos, isConsole, mode, gameInput, command, first, reader, pend>>

(* cgaputc(LEFTARROW) stops at the first colon of the screen's row, if the *)
(* row has one: the prompt's, one in the line, or none where the line has  *)
(* run on to the next row and the cursor can leave it.                     *)
(* cgaputc(RIGHTARROW) goes on as long as one of the next two cells of the *)
(* screen is not blank.  What is there past the end of the line is left    *)
(* over from earlier output.                                               *)
Left ==
    /\ isConsole # 0
    /\ inputPos' \in {inputPos - 1, inputPos}
    /\ UNCHANGED <<buf, r, w, e, isConsole, mode, gameInput, command, first, reader, line,
                   pend, stray>>

Right ==
    /\ isConsole # 0
    /\ inputPos < 1
    /\ inputPos' = inputPos + 1
    /\ UNCHANGED <<buf, r, w, e, isConsole, mode, gameInput, command, first, reader, line,
                   pend, stray>>

(* Up and down: kill the line, put in the recalled one.                    *)
Recall(dir) ==
    LET c == IF first THEN command.current ELSE command[dir][command.current]
        text == command.lines[c]
        new == Killed + Len(text)
    IN  /\ isConsole # 0 /\ command.size > 0
        /\ command' = [command EXCEPT !.current = c]
        /\ first' = FALSE
        /\ \/ /\ new - r > INPUT_BUF
              /\ Lost("overrun")
              /\ UNCHANGED <<buf, e, line>>
           \/ /\ new - r <= INPUT_BUF
              /\ buf' = [i \in 0 .. INPUT_BUF - 1 |->
                           IF \E k \in 1 .. Len(text) : i = Slot(Killed + k - 1)
                           THEN text[CHOOSE k \in 1 .. Len(text) : i = Slot(Killed + k - 1)]
                           ELSE buf[i]]
              /\ e' = new
              /\ line' = Kept \o text
              /\ UNCHANGED stray
        /\ UNCHANGED <<r, w, inputPos, isConsole, mode, gameInput, reader, pend>>

(* TAB with one match of n more characters: they and a blank go in at the  *)
(* cursor, after the rest of the line has moved n + 1 places up.           *)
Complete(n) ==
    LET b == Slot(e)
        blanks == [k \in 1 .. n + 1 |-> IF k <= n THEN "t" ELSE " "]
        text == InsertAt(line, Cursor, blanks)
    IN  /\ isConsole # 0 /\ Room
        /\ \/ /\ Misplaced \/ e + n + 1 - r > INPUT_BUF
                 \/ (inputPos < 0 /\ (Outside(b + n) \/ Outside(b + inputPos)))
              /\ Lost(IF Misplaced THEN "cursor"
                      ELSE IF e + n + 1 - r > INPUT_BUF THEN "overrun" ELSE "wrap")
              /\ UNCHANGED <<buf, e, line>>
           \/ /\ ~ Misplaced /\ e + n + 1 - r <= INPUT_BUF
              /\ inputPos < 0 => ~ Outside(b + n) /\ ~ Outside(b + inputPos)
              /\ buf' = [i \in 0 .. INPUT_BUF - 1 |->
                           IF \E k \in 1 .. n + 1 : i = Slot(e + inputPos + k - 1)
                           THEN blanks[CHOOSE k \in 1 .. n + 1 : i = Slot(e + inputPos + k - 1)]
                           ELSE IF i >= b + inputPos + n + 1 /\ i <= b + n THEN buf[i - n - 1]
                           ELSE buf[i]]
              /\ e' = e + n + 1
              /\ line' = text
              /\ UNCHANGED stray
        /\ UNCHANGED <<r, w, inputPos, isConsole, mode, gameInput, command, first, reader, pend>>

(* TAB with no match or several: they are listed, and the line is replaced *)
(* by an empty one.                                                        *)
ListMatches ==
    /\ isConsole # 0 /\ Room
    /\ e' = Killed + 1
    /\ buf' = [buf EXCEPT ![Slot(Killed)] = NL]
    /\ inputPos' = 0
    /\ Enter(Append(Kept, NL))
    /\ UNCHANGED <<r, isConsole, mode, gameInput, command, first, stray>>

-----------------------------------------------------------------------------
(* Keys in the editor and in the game.                                     *)

(* One more byte, at once.                                                 *)
Put(c) ==
    /\ Room
    /\ buf' = [buf EXCEPT ![Slot(e)] = c]
    /\ e' = e + 1
    /\ Enter(Append(line, c))
    /\ UNCHANGED stray

(* Arrows, backspace and ^P, which also move the cursor, and TAB go in     *)
(* without a look at what is unread.                                       *)
EditorKey(c) ==
    /\ isConsole = 0
    /\ c \in {"left", "right", "up", "down", "bs", "^P"} \/ (c = "tab" /\ mode \in {"edit", "both"})
    /\ \/ Put(c)
       \/ /\ ~ Room
          /\ Lost("overrun")
          /\ UNCHANGED <<buf, w, e, reader, line, pend>>
    /\ inputPos' \in CASE c = "left" -> {inputPos, inputPos - 1}
                       [] c = "right" -> {inputPos, inputPos + 1}
                       [] OTHER -> {inputPos}
    /\ UNCHANGED <<r, isConsole, mode, gameInput, command, first>>

EditorType(c) ==
    /\ isConsole = 0 /\ c \in Char \cup {NL, CtrlD, "esc"}
    /\ \/ mode \in {"none", "esc"} /\ c = "i" /\ mode' = IF mode = "esc" THEN "both" ELSE "edit"
       \/ mode \in {"edit", "both"} /\ c = "esc" /\ mode' = "esc"
       \/ mode \in {"edit", "both"} /\ c # "esc" /\ mode' = mode
       \/ mode = "esc" /\ c # "i" /\ mode' = mode
    /\ Put(c)
    /\ UNCHANGED <<r, inputPos, isConsole, gameInput, command, first>>

GameKey(c) ==
    /\ isConsole = 2 /\ c \in Char \cup {NL, CtrlD, "esc"}
    /\ gameInput' = c
    /\ UNCHANGED <<buf, r, w, e, inputPos, isConsole, mode, command, first, reader, line,
                   pend, stray>>

Press(c) ==
    \/ Type(c) \/ EditorType(c) \/ EditorKey(c) \/ GameKey(c)
    \/ c = "^U" /\ CtrlU
    \/ c = "bs" /\ Backspace
    \/ c = "left" /\ Left
    \/ c = "right" /\ Right
    \/ c = "up" /\ Recall("pre")
    \/ c = "down" /\ Recall("next")
    \/ c = "tab" /\ (ListMatches \/ \E n \in Completions : Complete(n))

Event == stray = "" /\ events < MaxEvents /\ events' = events + 1

consoleintr ==
    /\ Event
    /\ \E c \in Keys : Press(c)

-----------------------------------------------------------------------------
(* Processes.                                                              *)
Idle == [pc |-> "idle", n |-> 0, target |-> 0]

consoleread(n) ==
    /\ reader.pc = "idle" /\ stray = ""
    /\ reader' = [pc |-> "reading", n |-> n, target |-> n]
    /\ UNCHANGED <<buf, r, w, e, inputPos, isConsole, mode, gameInput, command, first, line,
                   pend, stray, events>>

(* What the loop takes at once: up to a newline, a ^D, what was asked for, *)
(* or all there is.                                                        *)
Taken ==
    LET t == Text(r, w)
    IN  Min({k \in 0 .. reader.n : k <= Len(t)
               /\ \/ k = reader.n \/ k = Len(t)
                  \/ k > 0 /\ t[k] = NL
                  \/ k < Len(t) /\ t[k + 1] = CtrlD})

(* The loop until it returns or sleeps.  A ^D ends it; unless it comes     *)
(* first it is left for the next call.                                     *)
Read ==
    LET k == Taken
        t == Text(r, w)
        full == k = reader.n \/ (k > 0 /\ t[k] = NL)
        eof == ~ full /\ k < Len(t)
        used == IF eof /\ k = 0 /\ reader.n = reader.target THEN 1 ELSE k
    IN  /\ reader.pc = "reading" /\ stray = ""
        /\ r' = r + used
        /\ pend' = SubSeq(pend, used + 1, Len(pend))
        /\ reader' = IF full \/ eof THEN Idle
                     ELSE [reader EXCEPT !.pc = "asleep", !.n = @ - k]
        /\ UNCHANGED <<buf, w, e, inputPos, isConsole, mode, gameInput, command, first, line,
                       stray, events>>

(* kill() wakes the reader, which returns if there is nothing to read.     *)
Kill ==
    /\ reader.pc = "asleep" /\ r = w
    /\ reader' = Idle
    /\ UNCHANGED <<buf, r, w, e, inputPos, isConsole, mode, gameInput, command, first, line,
                   pend, stray, events>>

sys_cmdmod(type) ==
    /\ Event /\ type # isConsole
    /\ isConsole' = type
    /\ mode' = IF type = 0 THEN mode
               ELSE IF mode \in {"edit", "both"} THEN "edit" ELSE "none"
    /\ UNCHANGED <<buf, r, w, e, inputPos, gameInput, command, first, reader, line, pend,
                   stray>>

clearscreen ==
    /\ Event /\ inputPos # 0
    /\ inputPos' = 0
    /\ UNCHANGED <<buf, r, w, e, isConsole, mode, gameInput, command, first, reader, line,
                   pend, stray>>

sys_gameget ==
    /\ Event /\ gameInput # Nul
    /\ gameInput' = Nul
    /\ UNCHANGED <<buf, r, w, e, inputPos, isConsole, mode, command, first, reader, line,
                   pend, stray>>

Init ==
    /\ buf = [i \in 0 .. INPUT_BUF - 1 |-> Nul]
    /\ r = 0 /\ w = 0 /\ e = 0
    /\ inputPos = 0 /\ isConsole = 1 /\ mode = "none" /\ gameInput = Nul
    /\ command = NoLines /\ first = TRUE
    /\ reader = Idle
    /\ line = <<>> /\ pend = <<>> /\ stray = "" /\ events = 0

Strayed == stray # "" /\ UNCHANGED vars

Next ==
    \/ consoleintr
    \/ \E n \in Ask : consoleread(n)
    \/ Read \/ Kill
    \/ \E t \in {0, 1, 2} : sys_cmdmod(t)
    \/ clearscreen \/ sys_gameget
    \/ Strayed

Spec == Init /\ [][Next]_vars

-----------------------------------------------------------------------------
(* Properties                                                              *)

(* The ring holds the text entered and not read, then the line as edited   *)
(* so far, in order and without overrunning what is unread, through        *)
(* editing inside the line, recall, completion, the end of the ring and    *)
(* switches of mode.  The code loses track of the line in three cases only *)
(* and then stray is set: a cursor outside the line, an edit inside a line *)
(* that crosses the end of the ring, and a recall, a completion or an      *)
(* editor key without room.                                                *)
InputExact ==
    /\ r <= w /\ w <= e /\ e - r <= INPUT_BUF
    /\ Text(r, w) = pend
    /\ Text(w, e) = line

(* A reader in consoleread() sleeps only while nothing is there to read.   *)
SleeperHasReason == reader.pc = "asleep" => pend = <<>>

(* Until all of its lines are in use the history is a ring: from the head, *)
(* next visits every line once and pre is its inverse, however lines were  *)
(* recalled and entered again.                                             *)
Used == 0 .. command.size - 1
HistoryIsRing ==
    command.size \in 1 .. COMMAND_BUF =>
       LET reach[n \in 0 .. COMMAND_BUF] ==
               IF n = 0 THEN command.head ELSE command.next[reach[n - 1]]
       IN  /\ {reach[n] : n \in 0 .. command.size - 1} = Used
           /\ reach[command.size - 1] = command.tail
           /\ \A k \in Used : command.pre[command.next[k]] = k
=============================================================================
