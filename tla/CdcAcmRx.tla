------------------------------ MODULE CdcAcmRx ------------------------------
(***************************************************************************)
(* The receiving side of the serial port (usbxx/cdcacm): the terminal's     *)
(* thread calls getc(), which refills rx_buf with read(), a transfer of one *)
(* packet on the OUT endpoint; the USB interrupt completes the transfer, or *)
(* a bus reset tears the configuration down. The thread runs until it       *)
(* blocks; only interrupts come in between.                                 *)
(***************************************************************************)
EXTENDS Integers, Sequences, FiniteSets

CONSTANTS
  MPS,           \* wMaxPacketSize of the OUT endpoint, and the size of rx_buf
  NKeys,         \* bound: the characters typed are 1, 2, ... NKeys
  MaxTeardowns   \* bound: how often the configuration is torn down

ASSUME SizesAssumption == MPS \in Nat \ {0} /\ NKeys \in Nat /\ MaxTeardowns \in Nat

VARIABLES
  typedIn,       \* history: the configuration in which each character was sent
  pc,            \* where the thread is
  mine,          \* the configuration whose endpoint read() has got hold of
  rx_buf, rx_cur, rx_len,
  state,         \* DeviceBase::state
  activated,     \* FLAG_ACTIVATED
  gen,           \* configurations so far; the last one made out_endpoint
  status, completion_code, semaphore, data,   \* of the Transfer of each endpoint
  xfer_buff,     \* whether OutEndpoint::ep.xfer_buff is set, for each endpoint
  stat_rx,       \* the endpoint register
  isr,           \* "spinning" once endpoint_IRQ cannot leave its loop
  got            \* history: the characters getc() has returned

buffer == <<rx_buf, rx_cur, rx_len>>
device == <<state, activated, gen>>
transfer == <<status, completion_code, semaphore, data, xfer_buff>>
vars == <<typedIn, pc, mine, buffer, device, transfer, stat_rx, isr, got>>

Keys == 1..NKeys
Gens == 1..(MaxTeardowns + 1)
typed == Len(typedIn)

Init ==
  /\ typedIn = << >> /\ got = << >>
  /\ pc = "start" /\ mine = 0
  /\ rx_buf = << >> /\ rx_cur = 0 /\ rx_len = 0
  /\ state = "ATTACHED" /\ activated = "clear" /\ gen = 0
  /\ status = [g \in Gens |-> "IDLE"]
  /\ completion_code = [g \in Gens |-> "none"]
  /\ semaphore = [g \in Gens |-> 0]
  /\ data = [g \in Gens |-> << >>]
  /\ xfer_buff = [g \in Gens |-> "null"]
  /\ stat_rx = "DIS" /\ isr = "idle"

-----------------------------------------------------------------------------
(* getc(): its loop, and what the terminal does with the character.         *)

(* Mutant: the cursor is not moved.                                         *)
NextCharStays(cur, buf, len) ==
  IF cur < len
  THEN pc' = "char" /\ rx_cur' = cur /\ got' = Append(got, buf[cur + 1])
  ELSE pc' = "read" /\ rx_cur' = cur /\ UNCHANGED got

(* The test of getc's loop with the cursor at cur: a character to return, or*)
(* another read().                                                          *)
NextChar(cur, buf, len) ==
  IF cur < len
  THEN pc' = "char" /\ rx_cur' = cur + 1 /\ got' = Append(got, buf[cur + 1])
  ELSE pc' = "read" /\ rx_cur' = cur /\ UNCHANGED got

GetC ==
  /\ pc = "start" /\ activated = "set"
  /\ NextChar(rx_cur, rx_buf, rx_len)
  /\ UNCHANGED <<typedIn, mine, rx_buf, rx_len, device, transfer, stat_rx, isr>>

(* on_char() queues the character for a terminal and never blocks.          *)
OnChar ==
  /\ pc = "char" /\ pc' = "start"
  /\ UNCHANGED <<typedIn, mine, buffer, device, transfer, stat_rx, isr, got>>

(* tx_thread_sleep(100) after a failed read().                              *)
Retry ==
  /\ pc = "sleep"
  /\ NextChar(rx_cur, rx_buf, rx_len)
  /\ UNCHANGED <<typedIn, mine, rx_buf, rx_len, device, transfer, stat_rx, isr>>

-----------------------------------------------------------------------------
(* read() and DeviceBase::transfer_request().                               *)

ReadBegin ==
  /\ pc = "read"
  /\ IF state = "CONFIGURED"
     THEN pc' = "activated" /\ mine' = gen /\ rx_len' = 0
     ELSE pc' = "sleep" /\ UNCHANGED <<mine, rx_len>>
  /\ UNCHANGED <<typedIn, rx_buf, rx_cur, device, transfer, stat_rx, isr, got>>

WaitActivated ==
  /\ pc = "activated" /\ activated = "set"
  /\ pc' = "request"
  /\ UNCHANGED <<typedIn, mine, buffer, device, transfer, stat_rx, isr, got>>

(* The locked check, which ATTACHED passes too.                             *)
SetPending ==
  /\ pc = "request" /\ state \in {"ATTACHED", "CONFIGURED"}
  /\ status' = [status EXCEPT ![mine] = "PENDING"]
  /\ pc' = "receive"
  /\ UNCHANGED <<typedIn, mine, buffer, device, completion_code, semaphore, data,
                 xfer_buff, stat_rx, isr, got>>

(* Mutant: the endpoint is not armed.                                       *)
LlReceiveUnarmed ==
  /\ pc = "receive"
  /\ xfer_buff' = [xfer_buff EXCEPT ![mine] = "set"] /\ UNCHANGED stat_rx
  /\ pc' = "wait"
  /\ UNCHANGED <<typedIn, mine, buffer, device, status, completion_code, semaphore,
                 data, isr, got>>

(* Every endpoint object writes to the same register.                       *)
LlReceive ==
  /\ pc = "receive"
  /\ xfer_buff' = [xfer_buff EXCEPT ![mine] = "set"] /\ stat_rx' = "VALID"
  /\ pc' = "wait"
  /\ UNCHANGED <<typedIn, mine, buffer, device, status, completion_code, semaphore,
                 data, isr, got>>

(* Transfer::wait(); after a bus reset read() tries again with the endpoint *)
(* it has.                                                                  *)
Woken ==
  /\ pc = "wait" /\ semaphore[mine] > 0
  /\ semaphore' = [semaphore EXCEPT ![mine] = @ - 1]
  /\ pc' = IF completion_code[mine] = "success" THEN "copy" ELSE "activated"
  /\ UNCHANGED <<typedIn, mine, buffer, device, status, completion_code, data,
                 xfer_buff, stat_rx, isr, got>>

(* The memcpy; a short packet ends read(), a full one only after another    *)
(* is_configured(). getc() goes on at the start of the buffer.              *)
Copy ==
  /\ pc = "copy"
  /\ rx_buf' = data[mine] /\ rx_len' = Len(data[mine])
  /\ IF Len(data[mine]) < MPS
     THEN NextChar(0, data[mine], Len(data[mine]))
     ELSE pc' = "full" /\ UNCHANGED <<rx_cur, got>>
  /\ UNCHANGED <<typedIn, mine, device, transfer, stat_rx, isr>>

(* Mutant: the cursor stays where the last buffer ended.                    *)
FullKeepsCursor ==
  /\ pc = "full"
  /\ IF state = "CONFIGURED" THEN NextChar(rx_cur, rx_buf, rx_len)
     ELSE pc' = "sleep" /\ UNCHANGED <<rx_cur, got>>
  /\ UNCHANGED <<typedIn, mine, rx_buf, rx_len, device, transfer, stat_rx, isr>>

Full ==
  /\ pc = "full"
  /\ IF state = "CONFIGURED" THEN NextChar(0, rx_buf, rx_len)
     ELSE pc' = "sleep" /\ UNCHANGED <<rx_cur, got>>
  /\ UNCHANGED <<typedIn, mine, rx_buf, rx_len, device, transfer, stat_rx, isr>>

RxThread ==
  \/ GetC \/ OnChar \/ Retry \/ ReadBegin \/ WaitActivated \/ SetPending
  \/ LlReceive \/ Woken \/ Copy \/ Full

-----------------------------------------------------------------------------
(* The host, the interrupt and the control thread.                          *)

(* on_data_out() of the endpoint object that the DCD has now. Without a     *)
(* buffer it returns before it clears CTR_RX, and endpoint_IRQ's loop calls *)
(* it again.                                                                *)
OnDataOut(keys) ==
  \/ /\ xfer_buff[gen] = "null" /\ isr' = "spinning"
     /\ UNCHANGED transfer
  \/ /\ xfer_buff[gen] = "set"
     /\ data' = [data EXCEPT ![gen] = keys]
     /\ xfer_buff' = [xfer_buff EXCEPT ![gen] = "null"]
     /\ status' = [status EXCEPT ![gen] = "COMPLETED"]
     /\ completion_code' = [completion_code EXCEPT ![gen] = "success"]
     /\ semaphore' = [semaphore EXCEPT ![gen] = @ + 1]
     /\ UNCHANGED isr

(* The host sends a packet, possibly an empty one; the interrupt follows at *)
(* once.                                                                    *)
Type ==
  /\ state = "CONFIGURED" /\ stat_rx = "VALID" /\ stat_rx' = "NAK"
  /\ \E n \in 0..MPS :
       /\ typed + n <= NKeys
       /\ typedIn' = typedIn \o [i \in 1..n |-> gen]
       /\ OnDataOut([i \in 1..n |-> typed + i])
  /\ UNCHANGED <<pc, mine, buffer, device, got>>

(* Mutant: the semaphore is put for a transfer that was complete already.   *)
AbortUnguarded ==
  /\ status' = [status EXCEPT ![gen] = "ABORTED"]
  /\ semaphore' = [semaphore EXCEPT ![gen] = @ + 1]

Abort ==
  IF status[gen] = "PENDING"
  THEN /\ status' = [status EXCEPT ![gen] = "ABORTED"]
       /\ semaphore' = [semaphore EXCEPT ![gen] = @ + 1]
  ELSE UNCHANGED <<status, semaphore>>

(* A bus reset at any moment, or SET_CONFIGURATION(0): the class is         *)
(* deactivated and its endpoints are destroyed.                             *)
Teardown ==
  /\ state = "CONFIGURED" /\ gen <= MaxTeardowns
  /\ activated' = "clear" /\ state' = "ATTACHED" /\ stat_rx' = "DIS"
  /\ completion_code' = [completion_code EXCEPT ![gen] = "bus_reset"]
  /\ Abort
  /\ UNCHANGED <<typedIn, pc, mine, buffer, gen, data, xfer_buff, isr, got>>

(* SET_CONFIGURATION(1), handled by the control thread while this one is    *)
(* blocked.                                                                 *)
Configure ==
  /\ state = "ATTACHED" /\ pc \in {"start", "activated", "wait", "sleep"}
  /\ gen' = gen + 1 /\ activated' = "set" /\ state' = "CONFIGURED"
  /\ stat_rx' = "NAK"
  /\ UNCHANGED <<typedIn, pc, mine, buffer, transfer, isr, got>>

-----------------------------------------------------------------------------
(* An interrupt handler that never returns stops everything.                *)
Next == isr = "idle" /\ (RxThread \/ Type \/ Teardown \/ Configure)

(* A thread that can run gets to run, and the host configures the device    *)
(* after every reset. Nobody has to type.                                   *)
Fairness == WF_vars(isr = "idle" /\ RxThread) /\ WF_vars(isr = "idle" /\ Configure)

Spec == Init /\ [][Next]_vars /\ Fairness

-----------------------------------------------------------------------------
(* Properties.                                                              *)

(* Every variable has its type; no token is ever left on a semaphore beside *)
(* that of the last transfer.                                               *)
TypeOK ==
  /\ typedIn \in Seq(Gens) /\ Len(typedIn) <= NKeys /\ got \in Seq(Keys)
  /\ pc \in {"start", "char", "sleep", "read", "activated", "request", "receive",
             "wait", "copy", "full"}
  /\ mine \in 0..(MaxTeardowns + 1) /\ gen \in 0..(MaxTeardowns + 1)
  /\ rx_buf \in Seq(Keys) /\ rx_cur \in 0..MPS /\ rx_len \in 0..MPS
  /\ state \in {"ATTACHED", "CONFIGURED"} /\ activated \in {"set", "clear"}
  /\ status \in [Gens -> {"IDLE", "PENDING", "COMPLETED", "ABORTED"}]
  /\ completion_code \in [Gens -> {"none", "success", "bus_reset"}]
  /\ semaphore \in [Gens -> {0, 1}]
  /\ data \in [Gens -> Seq(Keys)]
  /\ xfer_buff \in [Gens -> {"null", "set"}]
  /\ stat_rx \in {"DIS", "NAK", "VALID"} /\ isr \in {"idle", "spinning"}

(* The terminal gets the characters in the order in which they were typed,  *)
(* and none twice, whenever the bus is reset.                               *)
KeysInOrder == \A i, j \in DOMAIN got : i < j => got[i] < got[j]

(* What the firmware holds between the endpoint and the terminal.           *)
Received == \/ pc = "wait" /\ status[mine] = "COMPLETED"
            \/ pc = "copy"
InTransfer == IF Received THEN data[mine] ELSE << >>
InBuffer == IF pc = "full" THEN rx_buf ELSE SubSeq(rx_buf, rx_cur + 1, rx_len)
InHand == InBuffer \o InTransfer

(* The character was sent in the configuration that still holds.            *)
SentNow(c) == c <= typed /\ typedIn[c] = gen /\ state = "CONFIGURED"

(* A character that the host saw acknowledged is lost only when the         *)
(* configuration it was sent in is torn down: until then the terminal has it*)
(* or will take it from a buffer.                                           *)
KeysAreKept ==
  isr = "idle" => \A c \in 1..typed : SentNow(c) =>
    \/ \E i \in DOMAIN got : got[i] = c
    \/ \E i \in DOMAIN InHand : InHand[i] = c

(* The thread waits for a transfer on an endpoint that is gone.             *)
Stranded == pc = "wait" /\ semaphore[mine] = 0 /\ (mine # gen \/ state # "CONFIGURED")

(* While the device stays configured the host is not refused for ever: the  *)
(* endpoint is armed again, and what was typed reaches the terminal, unless *)
(* the thread was stranded by a reset inside read().                        *)
InputIsServed ==
  /\ state = "CONFIGURED" ~> stat_rx = "VALID" \/ state # "CONFIGURED" \/ Stranded
  /\ \A c \in Keys :
       SentNow(c) ~> (\E i \in DOMAIN got : got[i] = c) \/ ~SentNow(c) \/ Stranded

(* endpoint_IRQ will "stay in loop while pending interrupts": every cause it*)
(* finds is one that its handlers clear.                                    *)
IrqLoopEnds == isr # "spinning"
=============================================================================
