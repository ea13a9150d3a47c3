----------------------------- MODULE MCConsole -----------------------------
(* An instance of Console for TLC: every script begins in RAW mode.  One    *)
(* redraws faster than the queue takes it, one edits the line, one sends    *)
(* escape sequences, one a framed command, one switches back and forth.     *)
EXTENDS Console

SomeScripts ==
  {<<"c", "nl", "d", "nl", "d", "nl">>,
   <<"c", "nl", "x", "bs", "k", "nl">>,
   <<"c", "nl", "esc", "[", "0", "A", "esc", "[", "r">>,
   <<"c", "nl", "dle", "stx", "r", "dle", "etx", "x", "nl">>,
   <<"c", "nl", "r", "nl", "c", "nl">>}
=============================================================================
