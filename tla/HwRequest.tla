----------------------------- MODULE HwRequest -----------------------------
(***************************************************************************)
(* Requests to the chips on the SPI bus: the block pool, the queue to the  *)
(* hardware thread and the event flags that wake the requester.  The main  *)
(* thread is the only requester: commands run there and nowhere else.      *)
(*                                                                         *)
(* spi_transfer and spi_transmit are cut where they block: after the block *)
(* is allocated, after the request is sent, after the flag is seen.  The   *)
(* hardware thread polls the SPI peripheral and blocks only in its queue,  *)
(* so that it serves a request in one step.  What the chip does with the   *)
(* word is the business of the module that composes this one.              *)
(***************************************************************************)
EXTENDS Integers, Sequences

CONSTANTS NoWord,           \* what a free block holds
          NBlocks,          \* blocks in hw_request_pool, 128 in the code
          QueueLen,         \* entries of hw_queue, 32 in the code
          BlocksPerFlag     \* blocks that share an event flag, 4 in the code

ASSUME SizesAssumption == /\ NBlocks \in Nat \ {0}
                          /\ QueueLen \in Nat \ {0}
                          /\ BlocksPerFlag \in Nat \ {0}

VARIABLES pool,     \* free blocks
          queue,    \* blocks on their way to the hardware thread
          flags,    \* event flags that are set
          req,      \* contents of the blocks
          stage,    \* of the main thread: "none", "allocated", "waiting"
          mine      \* the block it is busy with
hwVars == <<pool, queue, flags, req, stage, mine>>

Blocks == 0 .. NBlocks - 1
NoBlock == -1

\* hw_req_get_id: a distance in words divided by a size in bytes.
FlagOf(b) == b \div BlocksPerFlag

Words(Word) == [word : Word, wait : {"wait", "forget"}, answer : {"none", "ok", "failed"}]

\* Nobody looks at a free block: what is left in it is not kept.
Blank == [word |-> NoWord, wait |-> "forget", answer |-> "none"]

HwInit ==
  /\ pool = Blocks /\ queue = <<>> /\ flags = {}
  /\ req = [b \in Blocks |-> Blank]
  /\ stage = "none" /\ mine = NoBlock

\* hw_req_allocate and the filling of the request.
Allocate(word, wait) ==
  /\ stage = "none"
  /\ \E b \in pool :
       /\ pool' = pool \ {b}
       /\ flags' = flags \ {FlagOf(b)}
       /\ req' = [req EXCEPT ![b] = [word |-> word, wait |-> wait, answer |-> "none"]]
       /\ mine' = b
  /\ stage' = "allocated"
  /\ UNCHANGED queue

\* Mutant: the request goes to the front of the queue.
SendFirst ==
  /\ stage = "allocated"
  /\ Len(queue) < QueueLen
  /\ queue' = <<mine>> \o queue
  /\ IF req[mine].wait = "wait"
       THEN stage' = "waiting" /\ UNCHANGED mine
       ELSE stage' = "none" /\ mine' = NoBlock
  /\ UNCHANGED <<pool, flags, req>>
\* tx_queue_send; spi_transmit is over, spi_transfer goes on to wait.
Send ==
  /\ stage = "allocated"
  /\ Len(queue) < QueueLen
  /\ queue' = Append(queue, mine)
  /\ IF req[mine].wait = "wait"
       THEN stage' = "waiting" /\ UNCHANGED mine
       ELSE stage' = "none" /\ mine' = NoBlock
  /\ UNCHANGED <<pool, flags, req>>


\* Mutant: the hardware thread releases every block it has served.
ServeReleasesAll(answered) ==
  /\ queue # <<>>
  /\ queue' = Tail(queue)
  /\ LET b == Head(queue) IN
     /\ pool' = pool \cup {b}
     /\ IF req[b].wait = "wait"
          THEN /\ req' = [req EXCEPT ![b].answer = answered]
               /\ flags' = flags \cup {FlagOf(b)}
          ELSE req' = [req EXCEPT ![b] = Blank] /\ UNCHANGED flags
  /\ UNCHANGED <<stage, mine>>
\* Mutant: the flag is set for every request.
ServeFlagsAll(answered) ==
  /\ queue # <<>>
  /\ queue' = Tail(queue)
  /\ LET b == Head(queue) IN
     /\ flags' = flags \cup {FlagOf(b)}
     /\ IF req[b].wait = "wait"
          THEN /\ req' = [req EXCEPT ![b].answer = answered]
               /\ UNCHANGED pool
          ELSE /\ pool' = pool \cup {b}
               /\ req' = [req EXCEPT ![b] = Blank]
  /\ UNCHANGED <<stage, mine>>
\* Mutant: nobody releases the block of a request that does not wait.
ServeReleasesNone(answered) ==
  /\ queue # <<>>
  /\ queue' = Tail(queue)
  /\ LET b == Head(queue) IN
     IF req[b].wait = "wait"
       THEN /\ req' = [req EXCEPT ![b].answer = answered]
            /\ flags' = flags \cup {FlagOf(b)}
       ELSE UNCHANGED <<req, flags>>
  /\ UNCHANGED <<pool, stage, mine>>
\* hw_thread_entry and handle_spi_cmd: answered is whether the transfer on
\* the bus succeeded.  Nobody is told of a failed request that does not wait.
Serve(answered) ==
  /\ queue # <<>>
  /\ queue' = Tail(queue)
  /\ LET b == Head(queue) IN
     IF req[b].wait = "wait"
       THEN /\ req' = [req EXCEPT ![b].answer = answered]
            /\ flags' = flags \cup {FlagOf(b)}
            /\ UNCHANGED pool
       ELSE /\ pool' = pool \cup {b}
            /\ req' = [req EXCEPT ![b] = Blank]
            /\ UNCHANGED flags
  /\ UNCHANGED <<stage, mine>>


\* Mutant: the block is released after the pointer to it is gone.
WakeReleasesNothing ==
  /\ stage = "waiting"
  /\ FlagOf(mine) \in flags
  /\ flags' = flags \ {FlagOf(mine)}
  /\ mine' = NoBlock
  /\ pool' = pool \cup {mine'}
  /\ req' = [req EXCEPT ![mine] = Blank]
  /\ stage' = "none"
  /\ UNCHANGED queue
\* hw_req_wait returns, the answer is read and the block released.
Wake ==
  /\ stage = "waiting"
  /\ FlagOf(mine) \in flags
  /\ flags' = flags \ {FlagOf(mine)}
  /\ pool' = pool \cup {mine}
  /\ req' = [req EXCEPT ![mine] = Blank]
  /\ stage' = "none"
  /\ mine' = NoBlock
  /\ UNCHANGED queue

(***************************************************************************)
(* Properties                                                              *)
(***************************************************************************)
HwTypeOK(Word) ==
  /\ pool \subseteq Blocks
  /\ queue \in Seq(Blocks)
  /\ flags \subseteq Nat
  /\ req \in [Blocks -> Words(Word)]
  /\ stage \in {"none", "allocated", "waiting"}
  /\ mine \in Blocks \cup {NoBlock}

\* Although blocks share flags, the requester wakes for its own answer and
\* not for that of an earlier request (fr3_1ch_hw.c:61 and :85).
AnswerIsOwn ==
  stage = "waiting" /\ FlagOf(mine) \in flags => req[mine].answer # "none"

\* A block is free, or in the queue once, or the requester's: none is lost,
\* used twice or released while somebody still uses it.
BlocksAreAccounted ==
  /\ \A i, j \in 1 .. Len(queue) : queue[i] = queue[j] => i = j
  /\ \A i \in 1 .. Len(queue) : queue[i] \notin pool
  /\ stage = "none" => mine = NoBlock
  /\ stage # "none" => mine \in Blocks \ pool
  /\ stage = "allocated" => \A i \in 1 .. Len(queue) : queue[i] # mine
  /\ \A b \in Blocks \ pool : b = mine \/ \E i \in 1 .. Len(queue) : queue[i] = b
=============================================================================
