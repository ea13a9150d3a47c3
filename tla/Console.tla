------------------------------ MODULE Console ------------------------------
(***************************************************************************)
(* The console: keys arrive from the serial port, a raw or a cooked        *)
(* terminal makes commands of them, the main thread carries the commands   *)
(* out and answers, and Screen shows what was written.  Commands switch    *)
(* between the terminals while keys are on their way.                      *)
(*                                                                         *)
(* A key is its position in the script that is typed.  The letters stand   *)
(* for words: r, c, d and k for the commands raw, cooked, redraw and       *)
(* clear, x for any other.                                                 *)
(***************************************************************************)
EXTENDS Screen

CONSTANT Scripts                      \* what may be typed
Letters == {"r", "c", "d", "k", "x", "A"}
Printables == Letters \cup {"[", "0"}
Symbols == Printables \cup {"nl", "bs", "esc", "dle", "stx", "etx"}
\* No line ends inside a framed command, so that a command is of one row: of
\* its keys window::write() then shows the printable ones and passes over the
\* rest.
ASSUME ScriptsAssumption ==
  /\ Scripts \subseteq Seq(Symbols)
  /\ \A s \in Scripts : \A i, j \in DOMAIN s :
       i < j /\ s[i] = "stx" /\ s[j] = "nl" =>
         \E k \in (i + 2) .. (j - 1) :
           s[k] = "etx" /\ s[k - 1] = "dle" /\ s[k - 2] # "dle"

VARIABLES script, typed,      \* what is typed, and how much of it has arrived
          rawq, cookq,        \* in_queue of raw_io and cooked_io
          rawbuf,             \* raw_terminal::input_buffer
          vt, saved, frame,   \* vtparser::state, saved_state, command
          pushed, taken,      \* history: commands emitted, [keys, end], and how
                              \* many of them have left PiRadioApp::cmd_queue
          main, answer        \* the main thread, and what it is going to print
typing == <<script, typed>>
cooking == <<vt, saved, frame>>
commands == <<pushed, taken>>
executing == <<main, answer>>
vars == <<screenVars, typing, rawq, cookq, rawbuf, cooking, commands, executing>>

Init ==
  /\ ScreenInit
  /\ script \in Scripts /\ typed = 0
  /\ rawq = <<>> /\ cookq = <<>> /\ rawbuf = <<>>
  /\ vt = "GROUND" /\ saved = "GROUND" /\ frame = <<>>
  /\ pushed = <<>> /\ taken = 0
  /\ main = "idle" /\ answer = <<>>

Idle == UNCHANGED <<mode, redraws, refresh, screen, at>>   \* no output, no redraw

InOutput(new) == [w \in {"output"} |-> new]

Ok == <<-2, -3>>   Error == <<-4, -5>>   Report == <<-6, -7>>    \* lines of text

-----------------------------------------------------------------------------
(* The adapter's thread, and the terminals'.                               *)

OnChar ==
  /\ typed < Len(script)
  /\ typed' = typed + 1
  /\ IF mode = "RAW" THEN rawq' = Append(rawq, typed') /\ UNCHANGED cookq
                     ELSE cookq' = Append(cookq, typed') /\ UNCHANGED rawq
  /\ UNCHANGED <<screenVars, script, rawbuf, cooking, commands, executing>>

\* PiRadioApp::on_event: the command is shown and queued.
Printed(keys) ==
  LET first[n \in 0 .. Len(keys)] ==        \* the printable ones of the first n
        IF n = 0 THEN <<>>
        ELSE IF script[keys[n]] \in Printables THEN Append(first[n - 1], keys[n])
                                               ELSE first[n - 1]
  IN first[Len(keys)]
Shown(keys) == WithLine(Printed(keys))
Push(keys, end) == pushed' = Append(pushed, [keys |-> keys, end |-> end])

\* The terminals' threads run in the order their keys made them ready.
Turn(q, other) == q # <<>> /\ \A i \in DOMAIN other : Head(q) < other[i]

\* Mutant: the buffer is not cleared after a command.
RawGetsKeeps ==
  /\ Turn(rawq, cookq)
  /\ rawq' = Tail(rawq)
  /\ LET k == Head(rawq) IN
     IF mode = "RAW" /\ script[k] = "nl"
       THEN /\ Push(rawbuf, k)
            /\ Change(InOutput(Shown(rawbuf))) /\ line' = NextLine
            /\ UNCHANGED rawbuf
       ELSE /\ rawbuf' = IF mode = "RAW" THEN Append(rawbuf, k) ELSE rawbuf
            /\ UNCHANGED <<text, line, dirty, raced, pushed>>
  /\ Idle
  /\ UNCHANGED <<typing, cookq, cooking, taken, executing>>
\* queue_io::getc drops what it finds in the wrong mode; raw_terminal::on_char.
RawGets ==
  /\ Turn(rawq, cookq)
  /\ rawq' = Tail(rawq)
  /\ LET k == Head(rawq) IN
     IF mode = "RAW" /\ script[k] = "nl"
       THEN /\ Push(rawbuf, k)
            /\ Change(InOutput(Shown(rawbuf))) /\ line' = NextLine
            /\ rawbuf' = <<>>
       ELSE /\ rawbuf' = IF mode = "RAW" THEN Append(rawbuf, k) ELSE rawbuf
            /\ UNCHANGED <<text, line, dirty, raced, pushed>>
  /\ Idle
  /\ UNCHANGED <<typing, cookq, cooking, taken, executing>>

field == text["input"][1]             \* the input line holds keys
Field(keys, cells) == [text |-> <<keys>>, cells |-> cells]
InInput(new) == [w \in {"input"} |-> new]
Silent == UNCHANGED <<text, line, dirty, raced, pushed>>

\* text_field::on_input
OnInput(k) ==
  CASE script[k] = "nl" /\ field # <<>> ->
         /\ Push(field, k)
         /\ Change([w \in Windows |-> IF w = "output" THEN Shown(field)
                                                   ELSE Field(<<>>, Cells("input"))])
         /\ line' = NextLine
    [] script[k] = "nl" /\ field = <<>> ->
         Change(InInput(Field(<<>>, Cells("input")))) /\ UNCHANGED <<line, pushed>>
    [] script[k] = "bs" /\ field # <<>> ->
         /\ Change(InInput(Field(SubSeq(field, 1, Len(field) - 1), {<<1, Len(field)>>})))
         /\ UNCHANGED <<line, pushed>>
    [] script[k] \in Printables /\ Fits(field) ->
         /\ Change(InInput(Field(Append(field, k), {<<1, Len(field) + 1>>})))
         /\ UNCHANGED <<line, pushed>>
    [] OTHER -> Silent

\* vtparser::process; an error goes back to GROUND.  A DLE inside a frame is
\* stored before it is understood.
Process(k) ==
  LET c == script[k]
      To(state) == vt' = state /\ UNCHANGED <<saved, frame>>
  IN
  \/ /\ vt = "GROUND"
     /\ CASE c = "esc" -> To("ESC") /\ Silent
          [] c = "dle" -> vt' = "DLE" /\ saved' = "GROUND" /\ Silent /\ UNCHANGED frame
          [] OTHER -> OnInput(k) /\ UNCHANGED cooking
  \/ /\ vt = "ESC"
     /\ To(IF c = "[" THEN "CSI" ELSE "GROUND") /\ Silent
  \/ /\ vt = "CSI"
     /\ To(IF c = "0" THEN "CSI" ELSE "GROUND")
     /\ IF c \in Printables \ {"0", "A"}
          THEN Change(InOutput(WithLine(Report))) /\ line' = NextLine /\ UNCHANGED pushed
          ELSE Silent
  \/ /\ vt = "DLE"
     /\ CASE c = "stx" /\ saved = "GROUND" ->
               vt' = "TEXT" /\ frame' = <<>> /\ Silent /\ UNCHANGED saved
          [] c = "etx" /\ saved = "TEXT" ->
               /\ To("GROUND") /\ Push(frame, k)
               /\ Change(InOutput(Shown(frame))) /\ line' = NextLine
          [] OTHER -> To("GROUND") /\ Silent
  \/ /\ vt = "TEXT"
     /\ frame' = Append(frame, k) /\ Silent
     /\ IF c = "dle" THEN vt' = "DLE" /\ saved' = "TEXT" ELSE UNCHANGED <<vt, saved>>

CookedGets ==
  /\ Turn(cookq, rawq)
  /\ cookq' = Tail(cookq)
  /\ IF mode = "COOKED" THEN Process(Head(cookq)) ELSE Silent /\ UNCHANGED cooking
  /\ Idle
  /\ UNCHANGED <<typing, rawq, rawbuf, taken, executing>>

-----------------------------------------------------------------------------
(* The main thread.                                                        *)

\* A suspended sender's message takes the place the receiver has freed: it
\* counts as sent, and the sender goes on when no more are there than fit.
SendRedraw == redraws' = redraws + 1

\* set_mode() does nothing when the mode is what it was.
SetMode(m) == /\ mode' = m
              /\ IF m = "COOKED" /\ mode # m THEN SendRedraw ELSE UNCHANGED redraws

Unwritten == UNCHANGED <<text, dirty, raced>>

\* cmd_queue.pop() and Parser::parse: raw and cooked do not look at the rest.
Take ==
  /\ main = "idle" /\ taken < Len(pushed)
  /\ taken' = taken + 1 /\ main' = "answer"
  /\ LET keys == pushed[taken'].keys
         words == [i \in DOMAIN keys |-> script[keys[i]]]
         starts(c) == words # <<>> /\ words[1] = c
     IN
     \/ /\ starts("r") /\ answer' = Ok
        /\ SetMode("RAW") /\ Unwritten
     \/ /\ starts("c") /\ answer' = Ok
        /\ SetMode("COOKED") /\ Unwritten
     \/ /\ words = <<"d">> /\ answer' = Ok
        /\ SendRedraw /\ Unwritten /\ UNCHANGED mode
     \/ /\ words = <<"k">> /\ answer' = Ok
        /\ Change(InOutput(Cleared("output"))) /\ UNCHANGED <<mode, redraws>>
     \/ /\ words = <<>> /\ answer' = Ok
        /\ Unwritten /\ UNCHANGED <<mode, redraws>>
     \/ /\ ~starts("r") /\ ~starts("c") /\ words \notin {<<>>, <<"d">>, <<"k">>}
        /\ answer' = Error
        /\ Unwritten /\ UNCHANGED <<mode, redraws>>
  /\ UNCHANGED <<line, refresh, screen, at, typing, rawq, cookq, rawbuf, cooking, pushed>>

\* The answer goes to the output window, and in RAW mode to the terminal too,
\* which puts it where its cursor is.
Answer ==
  /\ main = "answer" /\ redraws <= CmdQueueLen
  /\ Change(InOutput(WithLine(answer))) /\ line' = NextLine
  /\ IF mode = "RAW"
       THEN /\ screen' = [w \in Windows |-> [c \in Cells(w) |-> Unknown]]
            /\ at' = "lost"
       ELSE NoChar
  /\ main' = "idle" /\ answer' = <<>>
  /\ UNCHANGED <<mode, redraws, refresh, typing, rawq, cookq, rawbuf, cooking, commands>>

-----------------------------------------------------------------------------
RefreshThread ==
  /\ Refresh
  /\ UNCHANGED <<typing, rawq, cookq, rawbuf, cooking, commands, executing>>
Terminals == RawGets \/ CookedGets
Main == Take \/ Answer
Next == OnChar \/ Terminals \/ Main \/ RefreshThread

\* Every thread that can run gets to run.
Spec == Init /\ [][Next]_vars
             /\ WF_vars(OnChar) /\ WF_vars(Terminals) /\ WF_vars(Main) /\ WF_vars(RefreshThread)

(***************************************************************************)
(* Properties                                                              *)
(***************************************************************************)
Keys == DOMAIN script
\* Windows, queues and buffers keep their shape; the input line ends at its
\* right edge, and only one redraw waits for room in the queue.
TypeOK ==
  /\ ScreenTypeOK
  /\ typed \in 0 .. Len(script)
  /\ \A s \in {rawq, cookq, rawbuf, frame, field} : \A i \in DOMAIN s : s[i] \in Keys
  /\ vt \in {"GROUND", "ESC", "CSI", "DLE", "TEXT"} /\ saved \in {"GROUND", "TEXT"}
  /\ taken \in 0 .. Len(pushed)
  /\ main \in {"idle", "answer"} /\ answer \in {<<>>, Ok, Error}

\* Commands come in the order they were finished in, whichever terminal took
\* them; a key belongs to one command at most, before its end, and in the
\* order of typing (adapter.cpp:39-56, :98-121).
CommandsInOrder ==
  \A i \in DOMAIN pushed :
    LET cmd == pushed[i] IN
    /\ \A a, b \in DOMAIN cmd.keys : a < b => cmd.keys[a] < cmd.keys[b]
    /\ \A a \in DOMAIN cmd.keys : cmd.keys[a] < cmd.end
    /\ \A j \in DOMAIN pushed \ {i} :
         \A a \in DOMAIN cmd.keys, b \in DOMAIN pushed[j].keys :
           cmd.keys[a] # pushed[j].keys[b]
    /\ \A j \in DOMAIN pushed : i < j => cmd.end < pushed[j].end

\* When nobody types any more the console comes to rest with every command
\* answered and every window drawn: a full command queue holds up the main
\* thread but nobody for ever (queue.hpp:117, cooked.cpp:148-169).
Settled == /\ typed = Len(script) /\ rawq = <<>> /\ cookq = <<>>
           /\ taken = Len(pushed) /\ main = "idle"
           /\ redraws = 0 /\ pc = "wait" /\ \A w \in Windows : dirty[w] = {}
Settles == <>[]Settled
=============================================================================
