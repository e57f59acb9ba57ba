------------------------------- MODULE Tedit -------------------------------
(***************************************************************************)
(* The text editor, tedit.c: a document kept as a doubly linked list of    *)
(* rows of at most CONTENT_SIZE characters, the operations that insert and *)
(* delete a character (with the spilling and refilling of rows), loading,  *)
(* saving and the key loop with its three modes.                           *)
(*                                                                         *)
(* A node's content is an array of CONTENT_SIZE + 1 bytes, as in the code, *)
(* because tedit uses the extra byte.  The kernel owns the cursor: a key   *)
(* carries the place (a row of the screen and a column) at which getpos or *)
(* lstpos finds it, one of the places where cgaputc can leave it.  What is *)
(* drawn (setcln, hlline) is left out; the row of the document that a row  *)
(* of the screen shows is not.                                             *)
(*                                                                         *)
(* `text' is the document a user believes to be editing: a plain sequence  *)
(* of characters.  `stray' records that a step belonged to one of the      *)
(* cases in which the code leaves that sequence: the operators whose names *)
(* end in Departs, Fits and Scrolls.                                       *)
(***************************************************************************)
EXTENDS Integers, Sequences, FiniteSets, SequencesExt

CONSTANTS CONTENT_SIZE,  \* characters of a row (80)
          MAX_LINE_NUM,  \* rows of the screen (24)
          TabWidth,      \* blanks a TAB inserts (4)
          Letters,       \* characters other than the newline
          Files,         \* what may be in the file at the start
          MaxNodes,      \* bound: nodes malloc hands out
          MaxText        \* bound: characters of the document

VARIABLES f,          \* the document: nodes, last, size
          text,       \* the document as the user sees it
          file,       \* contents of the file on disk
          firstline_onscreen, edit_mode, ese_mode,
          order, wrong_order, \* the ending page
          page,       \* "load", "edit", "order", "done", "crashed"
          stray       \* history: a departing step has happened

vars == <<f, text, file, firstline_onscreen, edit_mode, ese_mode, order,
          wrong_order, page, stray>>
keys == <<edit_mode, ese_mode, order, wrong_order, page, file>>

NL == "nl"
NUL == "nul"
Node == 1 .. MaxNodes
Top == 1
Blank == [i \in 0 .. CONTENT_SIZE |-> NUL]

(***************************************************************************)
(* The list                                                                *)
(***************************************************************************)

\* The nodes from the head to f.last, in order; a list on which f.last does
\* not lie yields the empty sequence.
RECURSIVE RowsFrom(_, _, _)
RowsFrom(d, n, seen) == IF n = 0 \/ n \in Range(seen) THEN <<>>
                        ELSE IF n = d.last THEN Append(seen, n)
                        ELSE RowsFrom(d, d.next[n], Append(seen, n))
Rows(d) == RowsFrom(d, Top, <<>>)

\* The character before index i of a node; content[-1] is the top byte of the
\* node's next pointer, which is zero.
Ends(d, n) == IF d.size[n] = 0 THEN NUL ELSE d.content[n][d.size[n] - 1]

Row(d, n) == [i \in 1 .. d.size[n] |-> d.content[n][i - 1]]
Text(d) == FlattenSeq([k \in 1 .. Len(Rows(d)) |-> Row(d, Rows(d)[k])])

\* A node linked in after front; the node after it learns its new predecessor.
Linked(d, n, front) ==
  LET after == d.next[front]
  IN [d EXCEPT !.next = [@ EXCEPT ![n] = after, ![front] = n],
               !.prev = [m \in Node |-> IF m = n THEN front
                                        ELSE IF m = after THEN n ELSE @[m]]]

\* A row with character c in place pos.
Put(row, pos, c) == [i \in 0 .. CONTENT_SIZE |-> IF i = pos THEN c ELSE row[i]]
Cleared(d, n) == [d EXCEPT !.content[n] = Blank, !.size[n] = 0]

\* An empty row taken out of the document: kept after f.last for later use.
Retired(d, n) ==
  LET p == d.prev[n]
      out == [d EXCEPT !.next = [m \in Node |-> IF m = p THEN d.next[n] ELSE @[m]],
                       !.prev = [m \in Node |-> IF m = d.next[n] THEN p ELSE @[m]]]
  IN IF n # d.last THEN Linked(out, n, d.last) ELSE [d EXCEPT !.last = p]

add_node(d, front) ==
  LET n == d.used + 1
  IN Linked(Cleared([d EXCEPT !.used = n], n), n, front)

\* The document main starts with: an empty head, which is also the last row.
NoText == [next |-> [n \in Node |-> 0], prev |-> [n \in Node |-> 0],
           content |-> [n \in Node |-> Blank], size |-> [n \in Node |-> 0],
           last |-> Top, used |-> 1]

(***************************************************************************)
(* Inserting                                                               *)
(***************************************************************************)

\* The first len characters of the next row moved to the end of row m, as
\* newpara does it: the loop that closes the gap stops len places early.
Drawn(d, m, len) ==
  LET n == d.next[m]
      left == d.size[n] - len
      stop == d.size[n] - len - len
  IN [d EXCEPT !.content[m] = [i \in 0 .. CONTENT_SIZE |->
                   IF i \in d.size[m] .. d.size[m] + len - 1
                   THEN d.content[n][i - d.size[m]] ELSE @[i]],
               !.size[m] = @ + len,
               !.content[n] = [i \in 0 .. CONTENT_SIZE |->
                   IF i < stop THEN @[i + len]
                   ELSE IF i < left \/ i = CONTENT_SIZE THEN @[i] ELSE NUL],
               !.size[n] = left]

\* Row m, cut off by a newline before it, is filled from the rows after it.
RECURSIVE Filled(_, _)
Filled(d, m) ==
  LET n == d.next[m]
      room == CONTENT_SIZE - d.size[m]
  IN IF Ends(d, m) \in {NL, NUL} \/ m = d.last THEN d
     ELSE IF d.size[n] < room THEN Retired(Cleared(Drawn(d, m, d.size[n]), n), n)
     ELSE Filled(Drawn(d, m, room), n)

\* A newline in row now: what follows it goes to a row of its own.
newpara(d, now, pos) ==
  LET n == d.used + 1
      cut == [add_node(d, now) EXCEPT
                !.content[n] = [i \in 0 .. CONTENT_SIZE |->
                    IF i < d.size[now] - pos THEN d.content[now][pos + i] ELSE NUL],
                !.size[n] = d.size[now] - pos,
                !.content[now] = [i \in 0 .. CONTENT_SIZE |->
                    IF i < pos \/ i = CONTENT_SIZE THEN @[i]
                    ELSE IF i = pos THEN NL ELSE NUL],
                !.size[now] = pos + 1]
  IN IF d.last = now THEN [cut EXCEPT !.last = n] ELSE Filled(cut, n)

\* A character in one row; from a full row the last character falls out (or
\* NUL when none does).
addc_node(d, now, pos, c) ==
  LET s == d.size[now]
      shifted == [i \in 0 .. CONTENT_SIZE |->
                    IF i = pos THEN c
                    ELSE IF i > pos /\ i < s + 1 /\ i < CONTENT_SIZE
                    THEN d.content[now][i - 1] ELSE d.content[now][i]]
  IN IF s < CONTENT_SIZE /\ pos >= s
     THEN [d |-> [d EXCEPT !.content[now] = Put(@, s, c), !.size[now] = s + 1], lef |-> NUL]
     ELSE [d |-> [d EXCEPT !.content[now] = shifted,
                           !.size[now] = IF s < CONTENT_SIZE THEN s + 1 ELSE s],
           lef |-> IF s < CONTENT_SIZE THEN NUL ELSE d.content[now][s - 1]]

\* A character in the document: what falls out of a row goes to the next one,
\* a newline to a new row.
RECURSIVE Spilled(_, _, _, _)
Spilled(d, now, pos, c) ==
  LET r == addc_node(d, now, pos, c)
      e == IF r.d.next[now] = 0 THEN add_node(r.d, now) ELSE r.d
      g == IF r.d.next[now] = 0 /\ r.d.last = now
           THEN [e EXCEPT !.last = e.next[now]] ELSE e
      a == add_node(r.d, now)
  IN CASE r.lef = NUL -> r.d
       [] r.lef = NL -> [a EXCEPT !.content[a.used] = Put(@, 0, NL), !.size[a.used] = 1,
                                  !.last = IF @ = now THEN a.used ELSE @]
       [] OTHER -> Spilled(g, g.next[now], 0, r.lef)

addc(d, now, pos, c) == IF c = NL THEN newpara(d, now, pos) ELSE Spilled(d, now, pos, c)

(***************************************************************************)
(* Deleting                                                                *)
(***************************************************************************)

\* A bug in it: the characters after the deleted one do not close up.
delete_nodeGap(d, now, pos) ==
  LET s == d.size[now]
      e == [d EXCEPT !.content[now] = Put(@, s - 1, NUL), !.size[now] = s - 1]
  IN IF s = 0 THEN [d |-> d, more |-> TRUE]
     ELSE IF s = 1 THEN [d |-> Retired(e, now), more |-> FALSE]
     ELSE [d |-> e, more |-> Ends(e, now) \notin {NL, NUL}]

\* A character of one row removed; an emptied row is retired.  `more' is the
\* code's result: the row is not empty and does not end a paragraph.
delete_node(d, now, pos) ==
  LET s == d.size[now]
      e == [d EXCEPT !.content[now] = [i \in 0 .. CONTENT_SIZE |->
                         IF i >= pos /\ i < s - 1 THEN @[i + 1]
                         ELSE IF i = s - 1 THEN NUL ELSE @[i]],
                     !.size[now] = s - 1]
  IN IF s = 0 THEN [d |-> d, more |-> TRUE]
     ELSE IF s = 1 THEN [d |-> Retired(e, now), more |-> FALSE]
     ELSE [d |-> e, more |-> Ends(e, now) \notin {NL, NUL}]

\* The pointers lead out of the list: what the program does then is undefined,
\* and it is not followed further.
Crashed(d) == [d EXCEPT !.last = 0]

\* The rows after a shortened row give it their first characters.  After a row
\* that has more to give, the loop goes on with the row after that one, which
\* from f.last is a retired row or none.
RECURSIVE Refilled(_, _)
Refilled(d, now) ==
  LET n == d.next[now]
      s == d.size[now]
      r == delete_node([d EXCEPT !.content[now] = Put(@, s, d.content[n][0]),
                                 !.size[now] = s + 1], n, 0)
  IN IF now = d.last THEN d
     ELSE IF now = 0 \/ n = 0 \/ s > CONTENT_SIZE THEN Crashed(d)
     ELSE IF r.more THEN Refilled(r.d, r.d.next[n]) ELSE r.d

\* The row taken out by merge_para: it becomes f.last, but no node's next
\* pointer is made to lead to it.
Misplaced(d, now, un) ==
  LET p == d.last
  IN [Cleared(d, un) EXCEPT !.last = un,
               !.next = [@ EXCEPT ![now] = d.next[un], ![un] = d.next[p]],
               !.prev = [m \in Node |-> IF m = un THEN p
                                        ELSE IF m = d.next[p] /\ m # 0 THEN un
                                        ELSE IF m = d.next[un] THEN now ELSE @[m]]]

\* The newline at pos of row now removed: the next row joins it, as far as
\* there is room, and so on down the paragraph.
RECURSIVE Merged(_, _, _)
Merged(d, now, pos) ==
  LET n == d.next[now]
      room == CONTENT_SIZE - pos
      len == IF room >= d.size[n] THEN d.size[n] ELSE room
      e == [d EXCEPT !.content[now] = [i \in 0 .. CONTENT_SIZE |->
                         IF i \in pos .. pos + len - 1 THEN d.content[n][i - pos] ELSE @[i]],
                     !.size[now] = IF len = 0 THEN @ ELSE pos + len]
      g == [e EXCEPT !.content[n] = [i \in 0 .. CONTENT_SIZE |->
                         IF i < d.size[n] - len THEN @[i + len]
                         ELSE IF i = CONTENT_SIZE THEN @[i] ELSE NUL],
                     !.size[n] = @ - len]
  IN IF now = d.last THEN d
     ELSE IF room >= d.size[n]
     THEN IF n # d.last THEN Misplaced(e, now, n) ELSE Retired(Cleared(e, n), n)
     ELSE IF Ends(g, n) = NL THEN g ELSE Merged(g, n, g.size[n])

merge_para(d, now, pos) ==
  Merged(IF now = d.last
         THEN [d EXCEPT !.content[now] = Put(@, d.size[now] - 1, NUL), !.size[now] = @ - 1]
         ELSE d, now, pos)

deletec(d, now, pos) ==
  LET r == delete_node(d, now, pos)
  IN IF pos >= d.size[now] THEN d
     ELSE IF d.content[now][pos] = NL THEN merge_para(d, now, pos)
     ELSE IF r.more THEN Refilled(r.d, now) ELSE r.d

(***************************************************************************)
(* The file                                                                *)
(***************************************************************************)

\* savefile writes each row up to its first NUL, looking one byte past size.
Written(d, n) ==
  LET upto == {i \in 0 .. d.size[n] : \A j \in 0 .. i : d.content[n][j] # NUL}
  IN [i \in 1 .. Cardinality(upto) |-> d.content[n][i - 1]]

SavedText(d) == FlattenSeq([k \in 1 .. Len(Rows(d)) |-> Written(d, Rows(d)[k])])

\* loadfile appends one character after the other to the last row.
Loaded(s) == FoldLeft(LAMBDA d, c : addc(d, d.last, d.size[d.last], c), NoText, s)

\* loadfile keeps a file as it is when no row grows past CONTENT_SIZE: in a full
\* row the next character overwrites content[CONTENT_SIZE], and a newline has
\* newpara clear memory without bound.
Fits(s) == \A i \in 1 .. Len(s) - CONTENT_SIZE :
             \E j \in i .. i + CONTENT_SIZE - 1 : s[j] = NL

Init ==
  /\ f = NoText
  /\ text = <<>>
  /\ file \in Files
  /\ firstline_onscreen = 0
  /\ edit_mode = FALSE /\ ese_mode = FALSE
  /\ order = <<>> /\ wrong_order = FALSE
  /\ page = "load" /\ stray = FALSE

\* openfile and loadfile; the screen then shows the end of the document.
load ==
  LET d == Loaded(file)
      linenum == Len(Rows(d)) - 1
  IN /\ page = "load"
     /\ f' = d /\ text' = file /\ page' = "edit"
     /\ firstline_onscreen' = IF linenum > MAX_LINE_NUM
                              THEN linenum - MAX_LINE_NUM ELSE 0
     /\ stray' = ~Fits(file)
     /\ UNCHANGED <<file, edit_mode, ese_mode, order, wrong_order>>

(***************************************************************************)
(* The key loop                                                            *)
(***************************************************************************)

\* The node lines further down the list than the head; 0 past its end.
RECURSIVE Down(_, _, _)
Down(d, n, lines) == IF lines <= 0 \/ n = 0 THEN n ELSE Down(d, d.next[n], lines - 1)

\* The node that row r of the screen stands for.
getpline(d, first, r) == Down(d, Top, first + r)

\* The row of the document that the user sees in row r of the screen.
Shown(r) == (IF firstline_onscreen < 0 THEN 0 ELSE firstline_onscreen) + r + 1

\* The places where the cursor can be: on a character, after the last one of a
\* row that no newline ends, or at the start of the row after a full last row.
OnText(r, c) == /\ Shown(r) <= Len(Rows(f))
                /\ c < f.size[Rows(f)[Shown(r)]]
AfterRow(r, c) == /\ Shown(r) <= Len(Rows(f))
                  /\ c = f.size[Rows(f)[Shown(r)]]
                  /\ Ends(f, Rows(f)[Shown(r)]) # NL
Wrapped(r, c) == /\ Shown(r) = Len(Rows(f)) + 1 /\ c = 0
                 /\ Ends(f, f.last) # NL /\ f.size[f.last] = CONTENT_SIZE
Place(r, c) == OnText(r, c) \/ AfterRow(r, c) \/ Wrapped(r, c)

\* Where in the text that place is: characters before it.
Offset(r, c) == Len(FlattenSeq([k \in 1 .. Shown(r) - 1 |-> Row(f, Rows(f)[k])])) + c
Inserted(o, s) == SubSeq(text, 1, o) \o s \o SubSeq(text, o + 1, Len(text))

(***************************************************************************)
(* The cases in which tedit leaves the text                                *)
(***************************************************************************)

\* A newline is deleted whose next row is empty (merge_para copies nothing, so
\* the newline stays) or is not the last row (Misplaced loses f.last).
JoinDeparts(d, n, c) == d.content[n][c] = NL /\ n # d.last
                        /\ (d.size[d.next[n]] = 0 \/ d.next[n] # d.last)

\* The first row is emptied: f.head can neither be retired nor be f.last's
\* successor.
HeadDeparts(d, n, c) == n = Top /\ d.size[n] = 1 /\ d.content[n][c] # NL

\* A row that no newline ends goes on in the next one.
Continues(d, n) == n # d.last /\ Ends(d, n) # NL

\* A row is refilled from an empty one (a NUL joins the text), or the row that
\* gave a letter has more of them and no newline (the loop refills not it but the
\* row after it; after f.last it leaves the list).
RefillDeparts(d, n) ==
  /\ Continues(d, n) /\ d.size[n] > 1
  /\ LET m == d.next[n] IN d.size[m] = 0 \/ (d.size[m] > 1 /\ Ends(d, m) # NL)
DeleteDeparts(d, n, c) == JoinDeparts(d, n, c) \/ HeadDeparts(d, n, c) \/ RefillDeparts(d, n)

\* Text goes past f.last: the cursor is in a retired row that follows it, or a
\* full last row spills into one.
SpillDeparts(d, n, k) == \E m \in Node :
  d.last = m /\ d.next[m] # 0
  /\ (n = d.next[m] \/ d.size[n] + k > CONTENT_SIZE)

\* A newline: past the last node it is dropped, in a retired row it is lost, and
\* in a row that goes on in others Drawn loses letters.
NewlineDeparts(d, n) == n = 0 \/ n \notin Range(Rows(d)) \/ Continues(d, n)

Editing == page = "edit" /\ edit_mode
Room(n, m) == Len(text) + n <= MaxText /\ f.used + m <= MaxNodes

\* The row to insert into, made when the cursor is past the last node.
Target(d, r) ==
  LET n == getpline(d, firstline_onscreen, r)
      e == add_node(d, d.last)
  IN IF n # 0 THEN [d |-> d, n |-> n]
     ELSE [d |-> [e EXCEPT !.last = e.used], n |-> e.used]

\* The row in which getpos() finds k echoed characters: the row above, once the
\* echo has made the kernel scroll.
Scrolls(r, c, k) == r = MAX_LINE_NUM - 1 /\ c + k >= CONTENT_SIZE
Echoed(r, c, k) == IF Scrolls(r, c, k) THEN r - 1 ELSE r

\* A letter: getpos() - 1 is where the kernel has echoed it.
Type(ch, r, c) ==
  LET t == Target(f, Echoed(r, c, 1))
  IN /\ Editing /\ Place(r, c) /\ Room(1, 2)
     /\ f' = addc(t.d, t.n, c, ch)
     /\ text' = Inserted(Offset(r, c), <<ch>>)
     /\ stray' = (stray \/ Scrolls(r, c, 1) \/ SpillDeparts(f, t.n, 1))
     /\ UNCHANGED <<firstline_onscreen, keys>>

\* TAB: as many blanks, each inserted at the same place.
Tab(r, c) ==
  LET t == Target(f, Echoed(r, c, TabWidth))
  IN /\ Editing /\ Place(r, c) /\ Room(TabWidth, TabWidth + 1)
     /\ f' = FoldLeft(LAMBDA d, i : addc(d, t.n, c, " "), t.d, [i \in 1 .. TabWidth |-> i])
     /\ text' = Inserted(Offset(r, c), [i \in 1 .. TabWidth |-> " "])
     /\ stray' = (stray \/ Scrolls(r, c, TabWidth) \/ SpillDeparts(f, t.n, TabWidth))
     /\ UNCHANGED <<firstline_onscreen, keys>>

\* Newline: lstpos() is where the cursor was; in the last row of the screen the
\* kernel has scrolled.
Newline(r, c) ==
  LET bottom == r >= MAX_LINE_NUM - 1
      first == IF bottom THEN firstline_onscreen + 1 ELSE firstline_onscreen
      n == getpline(f, first, IF bottom THEN r - 1 ELSE r)
  IN /\ Editing /\ Place(r, c) /\ Room(1, 1)
     /\ firstline_onscreen' = first
     /\ f' = IF n = 0 THEN f ELSE addc(f, n, c, NL)
     /\ text' = Inserted(Offset(r, c), <<NL>>)
     /\ stray' = (stray \/ NewlineDeparts(f, n))
     /\ UNCHANGED keys

\* Backspace: the kernel has moved the cursor onto the character to delete.
Backspace(r, c) ==
  LET o == Offset(r, c)
  IN /\ Editing /\ OnText(r, c)
     /\ f' = deletec(f, getpline(f, firstline_onscreen, r), c)
     /\ text' = SubSeq(text, 1, o) \o SubSeq(text, o + 2, Len(text))
     /\ stray' = (stray \/ DeleteDeparts(f, getpline(f, firstline_onscreen, r), c))
     /\ page' = IF f'.last = 0 THEN "crashed" ELSE page
     /\ UNCHANGED <<firstline_onscreen, edit_mode, ese_mode, order, wrong_order, file>>

\* The arrows scroll at the edges of the screen, in both modes.
Up(c) ==
  /\ page = "edit" /\ Place(0, c)
  /\ firstline_onscreen' = firstline_onscreen - 1
  /\ stray' = (stray \/ firstline_onscreen = 0)
  /\ UNCHANGED <<f, text, keys>>

ScrollDown(c) ==
  /\ page = "edit" /\ Place(MAX_LINE_NUM - 1, c)
  /\ getpline(f, firstline_onscreen, MAX_LINE_NUM - 1) # f.last
  /\ firstline_onscreen' = firstline_onscreen + 1
  /\ UNCHANGED <<f, text, stray, keys>>

\* `i' and ESC switch the mode; `:' after an ESC opens the ending page.
Insert ==
  /\ page = "edit" /\ ~edit_mode /\ edit_mode' = TRUE
  /\ UNCHANGED <<f, text, file, firstline_onscreen, ese_mode, order, wrong_order, page, stray>>
Escape ==
  /\ page = "edit" /\ edit_mode' = FALSE /\ ese_mode' = TRUE
  /\ UNCHANGED <<f, text, file, firstline_onscreen, order, wrong_order, page, stray>>
Colon ==
  /\ page = "edit" /\ ~edit_mode /\ ese_mode /\ page' = "order"
  /\ UNCHANGED <<f, text, file, firstline_onscreen, edit_mode, ese_mode, order, wrong_order, stray>>

\* The ending page: a key of the order, and Enter.
OrderKey(k) ==
  /\ page = "order" /\ Len(order) < 2 /\ order' = Append(order, k)
  /\ UNCHANGED <<f, text, file, firstline_onscreen, edit_mode, ese_mode, wrong_order, page, stray>>

savefile ==
  /\ file' = SavedText(f) /\ page' = "done"
  /\ UNCHANGED <<order, wrong_order>>
quit ==
  /\ page' = "done"
  /\ UNCHANGED <<file, order, wrong_order>>
OrderEnter ==
  /\ page = "order"
  /\ \/ wrong_order /\ order' = <<>> /\ wrong_order' = FALSE /\ UNCHANGED <<file, page>>
     \/ ~wrong_order /\ order = <<"q">> /\ quit
     \/ ~wrong_order /\ order = <<"w", "q">> /\ savefile
     \/ /\ ~wrong_order /\ order \notin {<<"q">>, <<"w", "q">>}
        /\ wrong_order' = TRUE /\ UNCHANGED <<file, order, page>>
  /\ UNCHANGED <<f, text, firstline_onscreen, edit_mode, ese_mode, stray>>

Screen == (0 .. MAX_LINE_NUM - 1) \X (0 .. CONTENT_SIZE - 1)
Key == \/ \E p \in Screen : \/ \E ch \in Letters : Type(ch, p[1], p[2])
                              \/ Tab(p[1], p[2]) \/ Newline(p[1], p[2]) \/ Backspace(p[1], p[2])
       \/ \E c \in 0 .. CONTENT_SIZE - 1 : Up(c) \/ ScrollDown(c)
Next == load \/ Key \/ Insert \/ Escape \/ Colon \/ OrderEnter \/ \E k \in {"q", "w"} : OrderKey(k)

Spec == Init /\ [][Next]_vars

(***************************************************************************)
(* Properties                                                              *)
(***************************************************************************)

\* What the user sees is what tedit keeps: the rows from f.head to f.last spell
\* the text, whatever rows were split, spilled, joined and retired on the way,
\* no key makes it follow a pointer out of the list, and `:wq' leaves exactly that
\* text in the file, outside the departures.
TextExact == ~stray =>
  CASE page \in {"edit", "order"} -> Text(f) = text
    [] page = "done" -> order = <<"w", "q">> => file = text
    [] page = "crashed" -> FALSE
    [] OTHER -> TRUE
=============================================================================
