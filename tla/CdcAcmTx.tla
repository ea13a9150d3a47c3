------------------------------ MODULE CdcAcmTx ------------------------------
(***************************************************************************)
(* The sending side of the serial port (usbxx/cdcacm): putc() queues a      *)
(* character, the TX thread collects characters in tx_buf and writes them a *)
(* segment at a time as transfers on the IN endpoint, and the USB interrupt *)
(* completes a transfer, or tears the whole configuration down at a bus     *)
(* reset. Threads run until they block; only interrupts come in between.    *)
(* A segment is shorter than a packet, so that a transfer is one packet.    *)
(*                                                                         *)
(* The packet memory of the IN endpoint is also that of endpoint 0: both    *)
(* have pmaaddress 0x80 and start_transfer_in writes there. A byte that     *)
(* stands in a packet is the character c that belongs there, or -c when a   *)
(* control reply has been written over it.                                  *)
(***************************************************************************)
EXTENDS Integers, Sequences

CONSTANTS
  RingSize,      \* elements of tx_buf's array
  QueueLen,      \* messages tx_queue holds
  NChars,        \* bound: the characters put are 1, 2, ... NChars
  MaxTeardowns,  \* bound: how often the configuration is torn down
  Allowed        \* subset of Liberties

(* "race": a bus reset may strike while the TX thread runs, and not only    *)
(* while it is blocked. "reply": endpoint 0 sends a reply with data while a *)
(* packet of the serial port is armed.                                      *)
Liberties == {"race", "reply"}

ASSUME SizesAssumption ==
  /\ RingSize \in Nat /\ RingSize > 1
  /\ QueueLen \in Nat /\ QueueLen > 0
ASSUME BoundsAssumption ==
  NChars \in Nat /\ MaxTeardowns \in Nat /\ Allowed \subseteq Liberties

VARIABLES
  sent,          \* the characters put so far
  tx_queue,
  buffer, start, end,      \* tx_buf
  wait,          \* the timeout of the next tx_queue.recv_wait: "forever" or "tick"
  pc,            \* where the TX thread is
  pend,          \* the character it holds while it flushes, 0 when none
  seg,           \* the segment it is writing
  mine,          \* the configuration whose endpoint write() has got hold of
  state,         \* DeviceBase::state
  activated,     \* FLAG_ACTIVATED
  gen,           \* configurations so far; the last one made in_endpoint
  begun,         \* history: what the host had received when it was made
  status, completion_code, semaphore,   \* of the Transfer of each endpoint
  stat_tx, pma,  \* the endpoint register; the packet in the memory at 0x80
  received,      \* history: what the host has received
  teardowns      \* resets and SET_CONFIGURATION(0) so far

ring == <<buffer, start, end>>
thread == <<wait, pc, pend, seg, mine>>
device == <<state, activated, gen, begun>>
transfer == <<status, completion_code, semaphore>>
hardware == <<stat_tx, pma>>
vars == <<sent, tx_queue, ring, thread, device, transfer, hardware, received, teardowns>>

Chars == 1..NChars
Slots == 0..(RingSize - 1)
Gens == 1..(MaxTeardowns + 1)
Bytes == Chars \cup {-c : c \in Chars}
(* The character in whose place byte b stands.                              *)
Place(b) == IF b < 0 THEN -b ELSE b

-----------------------------------------------------------------------------
(* TXX::ring_buffer.                                                        *)

Plus(p, x) == (p + x) % RingSize
(* Mutant: a full ring is not told from one with room.                      *)
FullNever == FALSE
Full == Plus(end, 1) = start
Empty == start = end
SegLen == IF start > end THEN RingSize - start
          ELSE IF start < end THEN end - start ELSE 0
Segment == [i \in 1..SegLen |-> buffer[start + i - 1]]

Push(c) ==
  /\ start' = IF Full THEN Plus(start, 1) ELSE start
  /\ buffer' = [buffer EXCEPT ![end] = c]
  /\ end' = Plus(end, 1)

-----------------------------------------------------------------------------
Init ==
  /\ sent = 0 /\ tx_queue = << >>
  /\ buffer = [p \in Slots |-> 0] /\ start = 0 /\ end = 0
  /\ wait = "forever" /\ pc = "start" /\ pend = 0 /\ seg = << >> /\ mine = 0
  /\ state = "ATTACHED" /\ activated = "clear" /\ gen = 0 /\ begun = 0
  /\ status = [g \in Gens |-> "IDLE"]
  /\ completion_code = [g \in Gens |-> "none"]
  /\ semaphore = [g \in Gens |-> 0]
  /\ stat_tx = "DIS" /\ pma = << >>
  /\ received = << >> /\ teardowns = 0

(* The TX thread is blocked, or was and has not run again: the other        *)
(* threads may run.                                                         *)
Blocked ==
  \/ pc \in {"start", "idle", "wait", "sleep"}
  \/ pc = "activated" /\ (activated = "clear" \/ mine # gen)

(* putc(), from the thread of the console.                                  *)
PutC ==
  /\ Blocked /\ sent < NChars /\ Len(tx_queue) < QueueLen
  /\ sent' = sent + 1
  /\ tx_queue' = Append(tx_queue, sent + 1)
  /\ UNCHANGED <<ring, thread, device, transfer, hardware, received, teardowns>>

-----------------------------------------------------------------------------
(* _tx_thread().                                                            *)

TxStart ==
  /\ pc = "start" /\ activated = "set"
  /\ pc' = "idle"
  /\ UNCHANGED <<sent, tx_queue, ring, wait, pend, seg, mine, device, transfer,
                 hardware, received, teardowns>>

(* Mutant: the thread does not come back after a tick to flush.             *)
ReceiveForever ==
  /\ pc = "idle" /\ tx_queue # << >>
  /\ tx_queue' = Tail(tx_queue) /\ UNCHANGED wait
  /\ IF Full
     THEN pc' = "flush" /\ pend' = Head(tx_queue) /\ UNCHANGED ring
     ELSE Push(Head(tx_queue)) /\ UNCHANGED <<pc, pend>>
  /\ UNCHANGED <<sent, seg, mine, device, transfer, hardware, received, teardowns>>

Receive ==
  /\ pc = "idle" /\ tx_queue # << >>
  /\ tx_queue' = Tail(tx_queue) /\ wait' = "tick"
  /\ IF Full
     THEN pc' = "flush" /\ pend' = Head(tx_queue) /\ UNCHANGED ring
     ELSE Push(Head(tx_queue)) /\ UNCHANGED <<pc, pend>>
  /\ UNCHANGED <<sent, seg, mine, device, transfer, hardware, received, teardowns>>

ReceiveTimeout ==
  /\ pc = "idle" /\ tx_queue = << >> /\ wait = "tick"
  /\ pc' = "flush" /\ wait' = "forever"
  /\ UNCHANGED <<sent, tx_queue, ring, pend, seg, mine, device, transfer,
                 hardware, received, teardowns>>

(* Mutant: the segment stays in the ring.                                   *)
GetSegPeeks ==
  /\ pc = "flush" /\ ~Empty
  /\ seg' = Segment /\ pc' = "write"
  /\ UNCHANGED <<sent, tx_queue, ring, wait, pend, mine, device, transfer,
                 hardware, received, teardowns>>

(* flush_buffer(): get_seg() takes the segment out of the ring.             *)
GetSeg ==
  /\ pc = "flush" /\ ~Empty
  /\ seg' = Segment /\ start' = Plus(start, SegLen)
  /\ pc' = "write"
  /\ UNCHANGED <<sent, tx_queue, buffer, end, wait, pend, mine, device, transfer,
                 hardware, received, teardowns>>

(* flush_buffer() returns; the character that found the ring full follows.  *)
Flushed ==
  /\ pc = "flush" /\ Empty
  /\ pc' = "idle" /\ pend' = 0
  /\ IF pend # 0 THEN Push(pend) ELSE UNCHANGED ring
  /\ UNCHANGED <<sent, tx_queue, wait, seg, mine, device, transfer, hardware,
                 received, teardowns>>

(* tx_thread_sleep(10) and the wait for FLAG_ACTIVATED after a failed write.*)
Retry ==
  /\ pc = "sleep" /\ activated = "set"
  /\ pc' = "write"
  /\ UNCHANGED <<sent, tx_queue, ring, wait, pend, seg, mine, device, transfer,
                 hardware, received, teardowns>>

-----------------------------------------------------------------------------
(* write() and DeviceBase::transfer_request().                              *)

(* is_configured() and the copy of in_endpoint.                             *)
WriteBegin ==
  /\ pc = "write"
  /\ IF state = "CONFIGURED" THEN pc' = "activated" /\ mine' = gen
     ELSE pc' = "sleep" /\ UNCHANGED mine
  /\ UNCHANGED <<sent, tx_queue, ring, wait, pend, seg, device, transfer,
                 hardware, received, teardowns>>

WaitActivated ==
  /\ pc = "activated" /\ activated = "set"
  /\ pc' = "request"
  /\ UNCHANGED <<sent, tx_queue, ring, wait, pend, seg, mine, device, transfer,
                 hardware, received, teardowns>>

(* The locked check: ATTACHED, which a reset leaves, passes it too, so that *)
(* UX_TRANSFER_NOT_READY is never returned here.                            *)
SetPending ==
  /\ pc = "request" /\ state \in {"ATTACHED", "CONFIGURED"}
  /\ status' = [status EXCEPT ![mine] = "PENDING"]
  /\ pc' = "transmit"
  /\ UNCHANGED <<sent, tx_queue, ring, wait, pend, seg, mine, device,
                 completion_code, semaphore, hardware, received, teardowns>>

LlTransmit ==
  /\ pc = "transmit"
  /\ stat_tx' = "VALID" /\ pma' = seg
  /\ pc' = "wait"
  /\ UNCHANGED <<sent, tx_queue, ring, wait, pend, seg, mine, device, transfer,
                 received, teardowns>>

(* Mutant: the completion code is not looked at.                            *)
WokenUnchecked ==
  /\ pc = "wait" /\ semaphore[mine] > 0
  /\ semaphore' = [semaphore EXCEPT ![mine] = @ - 1]
  /\ pc' = "written"
  /\ UNCHANGED <<sent, tx_queue, ring, wait, pend, seg, mine, device, status,
                 completion_code, hardware, received, teardowns>>

(* Transfer::wait().                                                        *)
Woken ==
  /\ pc = "wait" /\ semaphore[mine] > 0
  /\ semaphore' = [semaphore EXCEPT ![mine] = @ - 1]
  /\ pc' = IF completion_code[mine] = "success" THEN "written" ELSE "sleep"
  /\ UNCHANGED <<sent, tx_queue, ring, wait, pend, seg, mine, device, status,
                 completion_code, hardware, received, teardowns>>

(* The last is_configured(): a segment that did go out is written again when*)
(* a reset came after it.                                                   *)
Written ==
  /\ pc = "written"
  /\ IF state = "CONFIGURED" THEN pc' = "flush" /\ seg' = << >>
     ELSE pc' = "sleep" /\ UNCHANGED seg
  /\ UNCHANGED <<sent, tx_queue, ring, wait, pend, mine, device, transfer,
                 hardware, received, teardowns>>

TxThread ==
  \/ TxStart \/ Receive \/ ReceiveTimeout \/ GetSeg \/ Flushed \/ Retry
  \/ WriteBegin \/ WaitActivated \/ SetPending \/ LlTransmit \/ Woken \/ Written

-----------------------------------------------------------------------------
(* The interrupt and the control thread.                                    *)

(* The host takes the packet; the interrupt follows at once and goes to the *)
(* endpoint object that the DCD has now.                                    *)
PacketSent ==
  /\ state = "CONFIGURED" /\ stat_tx = "VALID"
  /\ received' = received \o pma
  /\ stat_tx' = "NAK"
  /\ status' = [status EXCEPT ![gen] = "COMPLETED"]
  /\ completion_code' = [completion_code EXCEPT ![gen] = "success"]
  /\ semaphore' = [semaphore EXCEPT ![gen] = @ + 1]
  /\ UNCHANGED <<sent, tx_queue, ring, thread, device, pma, teardowns>>

(* Mutant: the semaphore is put for a transfer that was complete already.   *)
DeactivateUnguarded ==
  /\ activated' = "clear"
  /\ completion_code' = [completion_code EXCEPT ![gen] = "bus_reset"]
  /\ status' = [status EXCEPT ![gen] = "ABORTED"]
  /\ semaphore' = [semaphore EXCEPT ![gen] = @ + 1]

(* CDCACMClass::deactivate and Interface::stop: the transfer is aborted,    *)
(* then the endpoint destroyed. Transfer::reset finds the thread no longer  *)
(* suspended, for abort has put the semaphore.                              *)
Deactivate ==
  /\ activated' = "clear"
  /\ completion_code' = [completion_code EXCEPT ![gen] = "bus_reset"]
  /\ IF status[gen] = "PENDING"
     THEN /\ status' = [status EXCEPT ![gen] = "ABORTED"]
          /\ semaphore' = [semaphore EXCEPT ![gen] = @ + 1]
     ELSE UNCHANGED <<status, semaphore>>

Teardown ==
  /\ teardowns < MaxTeardowns /\ teardowns' = teardowns + 1
  /\ stat_tx' = "DIS" /\ state' = "ATTACHED"
  /\ IF state = "CONFIGURED" THEN Deactivate
     ELSE UNCHANGED <<activated, transfer>>
  /\ UNCHANGED <<sent, tx_queue, ring, thread, gen, begun, pma, received>>

BusReset == (Blocked \/ "race" \in Allowed) /\ Teardown

Unconfigure == Blocked /\ state = "CONFIGURED" /\ Teardown

(* SET_CONFIGURATION(1): set_interface() makes the endpoints anew and the   *)
(* class is activated with them.                                            *)
Configure ==
  /\ Blocked /\ state = "ATTACHED"
  /\ gen' = gen + 1 /\ begun' = Len(received)
  /\ activated' = "set" /\ state' = "CONFIGURED"
  /\ stat_tx' = "NAK"
  /\ UNCHANGED <<sent, tx_queue, ring, thread, transfer, pma, received, teardowns>>

(* Endpoint 0 sends a packet with data, from its interrupt handler or the   *)
(* control thread: its words are the first ones of an armed packet now.     *)
ControlReply ==
  /\ "reply" \in Allowed /\ stat_tx = "VALID"
  /\ \E k \in 1..Len(pma) :
       pma' = [i \in DOMAIN pma |-> IF i <= k THEN -Place(pma[i]) ELSE pma[i]]
  /\ UNCHANGED <<sent, tx_queue, ring, thread, device, transfer, stat_tx, received,
                 teardowns>>

-----------------------------------------------------------------------------
Next ==
  \/ PutC \/ TxThread \/ PacketSent \/ ControlReply \/ BusReset \/ Unconfigure \/ Configure

(* A thread that can run gets to run, the host configures the device after  *)
(* every reset and polls the endpoint.                                      *)
Fairness == WF_vars(TxThread) /\ WF_vars(PacketSent) /\ WF_vars(Configure)

Spec == Init /\ [][Next]_vars /\ Fairness

-----------------------------------------------------------------------------
(* Properties.                                                              *)

(* Every variable has its type; no token is ever left on a semaphore beside *)
(* that of the last transfer.                                               *)
TypeOK ==
  /\ sent \in 0..NChars
  /\ tx_queue \in Seq(Chars) /\ Len(tx_queue) <= QueueLen
  /\ buffer \in [Slots -> 0..NChars] /\ start \in Slots /\ end \in Slots
  /\ wait \in {"forever", "tick"}
  /\ pc \in {"start", "idle", "flush", "write", "activated", "request", "transmit",
             "wait", "written", "sleep"}
  /\ pend \in 0..NChars /\ seg \in Seq(Chars) /\ Len(seg) < RingSize
  /\ mine \in 0..(MaxTeardowns + 1) /\ gen \in 0..(MaxTeardowns + 1)
  /\ begun \in 0..Len(received)
  /\ state \in {"ATTACHED", "CONFIGURED"} /\ activated \in {"set", "clear"}
  /\ status \in [Gens -> {"IDLE", "PENDING", "COMPLETED", "ABORTED"}]
  /\ completion_code \in [Gens -> {"none", "success", "bus_reset"}]
  /\ semaphore \in [Gens -> {0, 1}]
  /\ stat_tx \in {"DIS", "NAK", "VALID"} /\ pma \in Seq(Bytes)
  /\ received \in Seq(Bytes) /\ teardowns \in 0..MaxTeardowns

(* The port is the stream it promises to be, whenever the bus is reset: but *)
(* for bytes of control replies, if these come while a packet is armed.     *)
Stream == INSTANCE SerialStream WITH Shared <- ("reply" \in Allowed)
IsStream == Stream!Spec

(* What is on its way: the segment being written, the ring, the character   *)
(* that found it full, the queue.                                           *)
RingContents == [i \in 1..((end - start) % RingSize) |-> buffer[Plus(start, i - 1)]]
OnItsWay == seg \o RingContents \o (IF pend = 0 THEN << >> ELSE <<pend>>) \o tx_queue

(* The host has received c, or, if control replies may come while a packet  *)
(* is armed, what one of them left in the place of c.                       *)
Sent(c) == \E i \in DOMAIN received :
  /\ Place(received[i]) = c
  /\ received[i] = c \/ "reply" \in Allowed

(* Nothing is lost or reordered inside the firmware: what is on its way are *)
(* the last characters put, and all before them have been received, but for *)
(* those a control reply was written over.                                  *)
NothingIsLost ==
  LET done == sent - Len(OnItsWay)
  IN /\ done >= 0
     /\ \A i \in DOMAIN OnItsWay : OnItsWay[i] = done + i
     /\ \A c \in 1..done : Sent(c)

(* A character is sent again only after the configuration was torn down: of *)
(* what the host received in this configuration, no two are of one place in *)
(* the stream.                                                              *)
OncePerConfiguration ==
  \A i, j \in (begun + 1)..Len(received) :
    Place(received[i]) = Place(received[j]) => i = j

(* The TX thread waits for a transfer that no interrupt will complete.      *)
Stranded == pc = "wait" /\ semaphore[mine] = 0 /\ (mine # gen \/ state # "CONFIGURED")

(* Every character put is received, unless the TX thread was stranded or a  *)
(* control reply was written over it.                                       *)
EveryCharArrives == \A c \in Chars : (sent >= c) ~> (Sent(c) \/ Stranded)
=============================================================================
