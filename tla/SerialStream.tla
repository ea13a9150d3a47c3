---------------------------- MODULE SerialStream ----------------------------
(***************************************************************************)
(* What the serial port promises to the console: the characters reach the  *)
(* host in the order in which they were put, none is left out, and some may *)
(* arrive again when a packet is repeated. Where the packet memory is       *)
(* shared, the first bytes of a packet may be those of another endpoint:    *)
(* -c stands for such a byte in the place of character c.                   *)
(***************************************************************************)
EXTENDS Integers, Sequences

CONSTANTS
  NChars,           \* bound: the characters that are put are 1, 2, ... NChars
  Shared            \* another endpoint may write to the packet memory

VARIABLES
  sent,             \* how many characters were put
  received          \* what the host has received

Init == sent = 0 /\ received = << >>

Got == {IF received[i] < 0 THEN -received[i] ELSE received[i] : i \in DOMAIN received}

(* The characters from i to j, the first k of them written over.            *)
Run(i, j, k) == [n \in 1..(j - i + 1) |-> IF n <= k THEN -(i + n - 1) ELSE i + n - 1]

Put == sent < NChars /\ sent' = sent + 1 /\ UNCHANGED received

(* A packet begins no later than with the first character not yet received. *)
Packet ==
  \E i \in 1..sent : \E j \in i..sent :
    \E k \in IF Shared THEN 0..(j - i + 1) ELSE {0} :
      /\ \A c \in 1..(i - 1) : c \in Got
      /\ received' = received \o Run(i, j, k)
      /\ UNCHANGED sent

Spec == Init /\ [][Put \/ Packet]_<<sent, received>>
=============================================================================
