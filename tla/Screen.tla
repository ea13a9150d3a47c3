------------------------------- MODULE Screen -------------------------------
(***************************************************************************)
(* The cooked terminal's windows and its refresh thread.                   *)
(*                                                                         *)
(* Other threads write text into the windows, which only notes it in their *)
(* buffers and dirty rectangles; the refresh thread sends the rectangles   *)
(* to the terminal.  All threads have one priority and no time slice, so   *)
(* that they change over where one blocks: in a queue, or in putc when the *)
(* serial port is behind.  The drawing is cut at every putc.               *)
(*                                                                         *)
(* A row of a window is what was written since its first column, the rest  *)
(* of the row is NUL: nothing moves the cursor of the two windows that are *)
(* written, and status_win is never written.                               *)
(***************************************************************************)
EXTENDS Integers, Sequences, FiniteSets

CONSTANTS Height, Width,    \* of the output window, 37 and 132 in the code
          CmdQueueLen       \* entries of cooked_terminal::cmd_queue

ASSUME ScreenAssumption == /\ Height \in Nat \ {0, 1}
                           /\ Width \in Nat \ {0}
                           /\ CmdQueueLen \in Nat \ {0}

VARIABLES mode,             \* terminal_adapter::mode, "RAW" or "COOKED"; the
                            \* drop flags of the two queue_io follow it
          text,             \* window::buf: for each window and row what it holds
          line,             \* cursor.row of the output window
          dirty,            \* window::_dirty, as the set of its cells
          redraws,          \* REDRAW commands in cmd_queue, with that of a
                            \* sender which waits for room in it
          pc,               \* of the refresh thread
          win, rect,        \* the window it draws, and the rectangle
          row, col,         \* the cell it draws next
          screen, at,       \* the terminal, and whether its cursor is "known"
          raced             \* history: windows written while being drawn since
                            \* the last redraw
refresh == <<pc, win, rect, row, col>>
screenVars == <<mode, text, line, dirty, redraws, refresh, screen, at, raced>>

Windows == {"output", "input"}
Rows(w) == IF w = "output" THEN 1 .. Height ELSE {1}
Cells(w) == Rows(w) \X (1 .. Width)
Blank == 0
Unknown == -1                         \* whatever raw output left there

CharAt(w, c) == IF c[2] <= Len(text[w][c[1]]) THEN text[w][c[1]][c[2]] ELSE Blank

ScreenInit ==
  /\ mode = "RAW"
  /\ text = [w \in Windows |-> [r \in Rows(w) |-> <<>>]]
  /\ line = 1
  /\ dirty = [w \in Windows |-> {}]
  /\ redraws = 0
  /\ pc = "wait" /\ win = "output" /\ rect = {} /\ row = 1 /\ col = 1
  /\ screen = [w \in Windows |-> [c \in Cells(w) |-> Unknown]]
  /\ at = "lost"
  /\ raced = {}

-----------------------------------------------------------------------------
(* Writing into the windows.                                               *)

\* rect::enclosing: the smallest rectangle around both.
Hull(w, old, new) ==
  LET S == old \cup new IN
  {c \in Cells(w) : /\ \E a, b \in S : a[1] <= c[1] /\ c[1] <= b[1]
                    /\ \E a, b \in S : a[2] <= c[2] /\ c[2] <= b[2]}

Drawing(w) == pc \in {"line", "char"} /\ win = w

\* Some windows get a new text, which makes the given cells dirty.
Change(new) ==
  /\ text' = [w \in Windows |-> IF w \in DOMAIN new THEN new[w].text ELSE text[w]]
  /\ dirty' = [w \in Windows |-> IF w \in DOMAIN new THEN Hull(w, dirty[w], new[w].cells)
                                                     ELSE dirty[w]]
  /\ raced' = raced \cup {w \in DOMAIN new : Drawing(w)}

\* Mutant: one column too many.
FitsLate(t) == Len(t) <= Width
\* window::putc drops what is past the right edge.
Fits(t) == Len(t) < Width

\* Mutant: scrolling makes only the last line dirty.
WithLineScrolls(t) ==
  LET cut == SubSeq(t, 1, IF Len(t) < Width THEN Len(t) ELSE Width)
      filled == [text["output"] EXCEPT ![line] = cut]
  IN IF line < Height
       THEN [text |-> filled, cells |-> {<<line, c>> : c \in DOMAIN cut}]
       ELSE [text |-> [r \in Rows("output") |-> IF r < Height THEN filled[r + 1] ELSE <<>>],
             cells |-> {<<line, c>> : c \in 1 .. Width}]
\* window::write of a line t and its newline, with window::scroll.
WithLine(t) ==
  LET cut == SubSeq(t, 1, IF Len(t) < Width THEN Len(t) ELSE Width)
      filled == [text["output"] EXCEPT ![line] = cut]
  IN IF line < Height
       THEN [text |-> filled, cells |-> {<<line, c>> : c \in DOMAIN cut}]
       ELSE [text |-> [r \in Rows("output") |-> IF r < Height THEN filled[r + 1] ELSE <<>>],
             cells |-> Cells("output")]
NextLine == IF line < Height THEN line + 1 ELSE line

\* window::clear: the cursor stays where it is.
Cleared(w) == [text |-> [r \in Rows(w) |-> <<>>], cells |-> Cells(w)]

-----------------------------------------------------------------------------
(* The refresh thread.                                                     *)

NoChar == UNCHANGED <<screen, at>>

\* recv_wait returns REDRAW: clear_screen().
ReceiveRedraw ==
  /\ pc = "wait" /\ redraws > 0
  /\ redraws' = redraws - 1
  /\ pc' = "cleared"
  /\ IF mode = "COOKED"
       THEN /\ screen' = [w \in Windows |-> [c \in Cells(w) |-> Blank]]
            /\ at' = "known"
       ELSE NoChar
  /\ UNCHANGED <<mode, text, line, dirty, win, rect, row, col, raced>>

\* Mutant: cooked_terminal::redraw is called for viewport::redraw.
DirtyAllSends ==
  /\ pc = "cleared"
  /\ redraws' = redraws + 1
  /\ pc' = "wait"
  /\ UNCHANGED <<mode, text, line, dirty, win, rect, row, col, screen, at, raced>>
\* viewport::redraw
DirtyAll ==
  /\ pc = "cleared"
  /\ dirty' = [w \in Windows |-> Cells(w)]
  /\ raced' = {}
  /\ pc' = "next" /\ win' = "output"
  /\ UNCHANGED <<mode, text, line, redraws, rect, row, col, screen, at>>

\* recv_wait times out, with nothing in the queue.
Timeout ==
  /\ pc = "wait" /\ redraws = 0
  /\ \E w \in Windows : dirty[w] # {}
  /\ pc' = "next" /\ win' = "output"
  /\ UNCHANGED <<mode, text, line, dirty, redraws, rect, row, col, screen, at, raced>>

\* On to the next child of the termbuf, or to the queue; dead locals are reset.
Leave ==
  /\ rect' = {} /\ row' = 1 /\ col' = 1
  /\ IF win = "output" THEN pc' = "next" /\ win' = "input"
                       ELSE pc' = "wait" /\ win' = "output"

\* viewport::refresh: a clean child is passed over.
Begin ==
  /\ pc = "next" /\ mode = "COOKED"
  /\ IF dirty[win] = {}
       THEN Leave
       ELSE /\ rect' = dirty[win]
            /\ row' = CHOOSE r \in Rows(win) : /\ \E c \in rect' : c[1] = r
                                               /\ \A c \in rect' : r <= c[1]
            /\ pc' = "line" /\ UNCHANGED <<win, col>>
  /\ UNCHANGED <<mode, text, line, dirty, redraws, screen, at, raced>>

\* cooked_terminal::draw: move_to and erase_right.
DrawLine ==
  /\ pc = "line" /\ mode = "COOKED"
  /\ screen' = [screen EXCEPT ![win] =
                  [c \in Cells(win) |-> IF c \in rect /\ c[1] = row THEN Blank ELSE @[c]]]
  /\ at' = "known"
  /\ col' = CHOOSE k \in 1 .. Width : /\ <<row, k>> \in rect
                                      /\ \A c \in rect : k <= c[2]
  /\ pc' = "char"
  /\ UNCHANGED <<mode, text, line, dirty, redraws, win, rect, row, raced>>

\* The rest of a row after a NUL is NUL: the move_right of draw() that would
\* pass over NULs is never reached.
MoreChars == <<row, col>> \in rect /\ CharAt(win, <<row, col>>) # Blank

DrawChar ==
  /\ pc = "char" /\ mode = "COOKED" /\ MoreChars
  /\ screen' = IF at = "known"
                 THEN [screen EXCEPT ![win][<<row, col>>] = CharAt(win, <<row, col>>)]
                 ELSE screen
  /\ col' = col + 1
  /\ UNCHANGED <<mode, text, line, dirty, redraws, pc, win, rect, row, at, raced>>

\* The next line, or validate_self(), which clears the whole rectangle,
\* whatever was added to it in the meantime.
EndLine ==
  /\ pc = "char" /\ mode = "COOKED" /\ ~MoreChars
  /\ IF \E c \in rect : c[1] > row
       THEN row' = row + 1 /\ pc' = "line" /\ UNCHANGED <<dirty, win, rect, col>>
       ELSE Leave /\ dirty' = [dirty EXCEPT ![win] = {}]
  /\ UNCHANGED <<mode, text, line, redraws, screen, at, raced>>

\* In RAW mode putc() drops the characters and never blocks: the thread goes
\* through what is left without a pause.
DrawNothing ==
  /\ pc \in {"next", "line", "char"} /\ mode = "RAW"
  /\ dirty' = [w \in Windows |-> IF win = "input" /\ w = "output" THEN dirty[w] ELSE {}]
  /\ pc' = "wait" /\ win' = "output" /\ rect' = {} /\ row' = 1 /\ col' = 1
  /\ UNCHANGED <<mode, text, line, redraws, screen, at, raced>>

Refresh == \/ ReceiveRedraw \/ DirtyAll \/ Timeout \/ Begin \/ DrawLine \/ DrawChar
           \/ EndLine \/ DrawNothing

(***************************************************************************)
(* Properties                                                              *)
(***************************************************************************)
ScreenTypeOK ==
  /\ mode \in {"RAW", "COOKED"} /\ at \in {"known", "lost"}
  /\ \A w \in Windows : /\ DOMAIN text[w] = Rows(w)
                        /\ \A r \in Rows(w) : Len(text[w][r]) <= Width
                        /\ dirty[w] \subseteq Cells(w)
                        /\ DOMAIN screen[w] = Cells(w)
  /\ line \in 1 .. Height
  /\ redraws \in 0 .. CmdQueueLen + 1
  /\ pc \in {"wait", "cleared", "next", "line", "char"}
  /\ win \in Windows /\ raced \subseteq Windows
  /\ rect \subseteq Cells(win) /\ row \in Rows(win) /\ col \in 1 .. Width + 1

\* What the terminal shows outside the dirty rectangles is what the windows
\* hold, but for a window that was written while it was being drawn: draw()
\* blocks between reading the rectangle and clearing it (viewport.cpp:72-76).
\* A redraw nobody disturbs makes it right again.
ScreenIsBuffer ==
  mode = "COOKED" /\ redraws = 0 /\ pc # "cleared" =>
    \A w \in Windows \ raced : \A c \in Cells(w) \ dirty[w] : screen[w][c] = CharAt(w, c)
=============================================================================
