----------------------------- MODULE UsbControl -----------------------------
(***************************************************************************)
(* The control pipe (endpoint 0) of the USB device stack: the USB host, the *)
(* endpoint hardware of the STM32, the interrupt handlers that feed the     *)
(* transfer of the control endpoint, and the control thread that answers.   *)
(*                                                                         *)
(* The bytes of an IN packet lie in the packet memory at 0x80, which is     *)
(* pmaaddress of every IN endpoint: the serial port writes its own there.   *)
(*                                                                         *)
(* Lengths are counted in units that keep what the code compares: MPS is    *)
(* wMaxPacketSize and BufferSize is Transfer::buffer_size.                  *)
(***************************************************************************)
EXTENDS Integers, FiniteSets

CONSTANTS
  Requests,       \* the SETUP packets the host may send, records of Request
  EarlyRequests,  \* the ones it sends while it still uses address 0
  MPS,            \* wMaxPacketSize of the control endpoint
  BufferSize,     \* Transfer::buffer_size
  Allowed         \* what this environment may do, a subset of Liberties

(* "abandon": the host gives a request up while the device works on it;    *)
(* "reset": the same, with a bus reset; "readdress": it sends SET_ADDRESS   *)
(* to a device that has an address; "late_irq": its next SETUP arrives      *)
(* before the completion interrupt of the last IN packet is served;         *)
(* "long_data": its last OUT packet is longer than announced; "serial": the *)
(* TX thread of the serial port transmits on its own IN endpoint.           *)
Liberties == {"abandon", "reset", "readdress", "late_irq", "long_data", "serial"}

(* What handle_control_request does with the request: queue `size` bytes    *)
(* (cut to len) and acknowledge; acknowledge; set the address and           *)
(* acknowledge; return an error, which stalls; stall and still return 0;    *)
(* test a status that was never set (a class request for an interface that  *)
(* is not there): the outcome is either of the two.                         *)
Kinds == {"reply", "accept", "address", "refuse", "stall_ack", "unset"}

Request == [dir : {"IN", "OUT"}, len : Nat, kind : Kinds, size : Nat, addr : Nat]

ASSUME RequestsAssumption ==
  /\ Requests \subseteq Request
  /\ EarlyRequests \subseteq Requests
  /\ \A r \in Requests :
       /\ r.dir = "IN" => r.len > 0
       /\ r.kind = "reply" => r.dir = "IN"
       /\ r.kind = "address" => r.dir = "OUT" /\ r.len = 0
ASSUME SizesAssumption ==
  MPS \in Nat \ {0} /\ BufferSize \in Nat \ {0} /\ Allowed \subseteq Liberties

VARIABLES
  ep,        \* ControlEndpoint::state
  ack_mode,  \* ControlEndpoint::ack_mode
  xfer,      \* the one Transfer of the control endpoint
  in_len,    \* in_ep.xfer_len
  out_buf,   \* out_ep.xfer_buff is not null
  control_xfer,  \* the mailbox DeviceBase::control_xfer: "null" or "xfer"
  sema,      \* count of control_request_sema
  thread,    \* the control thread: in sema.get(), or returned from it
  addr,      \* device_address, address_set and the DADDR register
  hw,        \* the endpoint registers and what they hold for the host
  host,      \* the USB host
  failed     \* the assert() that stopped the firmware, or "none"

device == <<ep, ack_mode, xfer, in_len, out_buf, addr, failed>>
queue == <<control_xfer, sema, thread>>
vars == <<ep, ack_mode, xfer, in_len, out_buf, control_xfer, sema, thread,
          addr, hw, host, failed>>

NoRequest == [dir |-> "OUT", len |-> 0, kind |-> "refuse", size |-> 0, addr |-> 0]
AnyRequest == Requests \cup {NoRequest}

(* hw.pkt, what CTR_RX announces.                                           *)
NoPacket == [tag |-> "none", req |-> NoRequest, len |-> 0]
Setup(r) == [tag |-> "setup", req |-> r, len |-> 0]
BadSetup == [tag |-> "bad", req |-> NoRequest, len |-> 0]
Out(n)   == [tag |-> "out", req |-> NoRequest, len |-> n]
Packets  == [tag : {"none", "setup", "bad", "out"}, req : AnyRequest, len : Nat]

Smaller(a, b) == IF a < b THEN a ELSE b

(* The bytes of the reply to an IN request: the descriptor or structure cut *)
(* to the length the host asked for.                                        *)
ReplyLen(r) == IF r.kind = "reply" THEN Smaller(r.size, r.len) ELSE 0

Init ==
  /\ ep = "IDLE" /\ ack_mode = "NONE"
  /\ xfer = [setup |-> NoRequest, valid |-> FALSE, requested |-> 0, inLen |-> 0,
             actual |-> 0, zlp |-> FALSE, pos |-> 0, data |-> NoRequest]
  /\ in_len = 0 /\ out_buf = FALSE
  /\ control_xfer = "null" /\ sema = 0 /\ thread = "wait"
  /\ addr = [dev |-> 0, set |-> FALSE, daddr |-> 0]
  /\ hw = [rx |-> "DIS", tx |-> "DIS", kind |-> FALSE, pkt |-> NoPacket,
           txDone |-> FALSE, reset |-> FALSE, pma |-> "control",
           bd |-> [len |-> 0, pos |-> 0, data |-> NoRequest]]
  /\ host = [phase |-> "idle", req |-> NoRequest, addr |-> 0, moved |-> 0,
             outcome |-> "none"]
  /\ failed = "none"

(***************************************************************************)
(* Arming the endpoint.  Transmit copies one packet to the packet memory,   *)
(* where an empty one leaves what is there; bd is what should be sent, pma  *)
(* whose bytes will be.  Receive(h, n) with n = 0 expects a zero-length     *)
(* status packet.                                                           *)
(***************************************************************************)
TransmitUnclamped(h, n, from, what) ==        \* mutant of Transmit
  [h EXCEPT !.tx = "VALID", !.pma = IF n = 0 THEN @ ELSE "control",
            !.bd = [len |-> n, pos |-> from, data |-> what]]

Transmit(h, n, from, what) ==
  [h EXCEPT !.tx = "VALID", !.pma = IF n = 0 THEN @ ELSE "control",
            !.bd = [len |-> Smaller(n, MPS), pos |-> from, data |-> what]]

Receive(h, n) == [h EXCEPT !.rx = "VALID", !.kind = (n = 0)]

Stall(h) == [h EXCEPT !.rx = "STALL"]

(* process_control_event, in the interrupt handler.                         *)
PostUnguarded ==                              \* mutant of Post
  control_xfer' = "xfer" /\ sema' = sema + 1 /\ UNCHANGED <<thread, failed>>

Post ==
  \/ /\ control_xfer = "xfer" /\ failed' = "control_xfer"
     /\ UNCHANGED queue
  \/ /\ control_xfer = "null" /\ control_xfer' = "xfer" /\ sema' = sema + 1
     /\ UNCHANGED <<thread, failed>>

(***************************************************************************)
(* Interrupt handlers.  Reception is served before transmission, and both   *)
(* before a reset (endpoint_IRQ, handle_IRQ).                               *)
(***************************************************************************)
OnSetup(r) ==
  LET h == [hw EXCEPT !.pkt = NoPacket]
      x == [xfer EXCEPT !.setup = r, !.actual = 0, !.valid = TRUE]
  IN \/ /\ r.dir = "IN"
        /\ ep' = "DATA_TX" /\ ack_mode' = "DATA_IN" /\ xfer' = x /\ hw' = h
        /\ Post /\ UNCHANGED out_buf
     \/ /\ r.dir = "OUT" /\ r.len = 0
        /\ ack_mode' = "SETUP" /\ xfer' = x /\ hw' = h
        /\ Post /\ UNCHANGED <<ep, out_buf>>
     \/ /\ r.dir = "OUT" /\ r.len > BufferSize
        /\ ep' = "IDLE" /\ hw' = Stall(h) /\ xfer' = [x EXCEPT !.requested = r.len]
        /\ UNCHANGED <<ack_mode, out_buf, queue, failed>>
     \/ /\ r.dir = "OUT" /\ r.len \in 1..BufferSize
        /\ ep' = "DATA_RX" /\ hw' = Receive(h, r.len) /\ out_buf' = TRUE
        /\ xfer' = [x EXCEPT !.requested = r.len, !.pos = 0]
        /\ UNCHANGED <<ack_mode, queue, failed>>

IsrSetup ==
  /\ hw.pkt.tag = "setup"
  /\ OnSetup(hw.pkt.req)
  /\ UNCHANGED <<in_len, addr, host>>

(* A SETUP of the wrong size stalls both directions.                        *)
IsrBadSetup ==
  /\ hw.pkt.tag = "bad"
  /\ hw' = [hw EXCEPT !.pkt = NoPacket, !.rx = "STALL", !.tx = "STALL"]
  /\ UNCHANGED <<device, queue, host>>

(* The zero-length status packet re-arms reception for the next request.    *)
IsrStatusOut ==
  /\ hw.pkt.tag = "out" /\ hw.pkt.len = 0
  /\ hw' = [hw EXCEPT !.pkt = NoPacket, !.rx = "VALID"]
  /\ UNCHANGED <<device, queue, host>>

(* A short packet, or the last byte asked for, ends the OUT data stage.      *)
LastPacketAlways(x, n) == TRUE                \* mutant of LastPacket
LastPacket(x, n) == x.actual = x.requested \/ n # MPS

OnDataOut(n) ==
  LET h == [hw EXCEPT !.pkt = NoPacket]
      x == [xfer EXCEPT !.actual = @ + n, !.data = xfer.setup]
  IN \/ /\ x.actual <= x.requested
        /\ LastPacket(x, n)
        /\ xfer' = [x EXCEPT !.valid = TRUE] /\ ack_mode' = "DATA_OUT" /\ hw' = h
        /\ Post
     \/ /\ x.actual <= x.requested
        /\ ~LastPacket(x, n)
        /\ xfer' = [x EXCEPT !.pos = @ + MPS] /\ hw' = Receive(h, MPS)
        /\ UNCHANGED <<ack_mode, queue, failed>>
     \/ /\ x.actual > x.requested
        /\ xfer' = [x EXCEPT !.valid = FALSE] /\ hw' = h
        /\ UNCHANGED <<ack_mode, queue, failed>>

IsrDataOut ==
  /\ hw.pkt.tag = "out" /\ hw.pkt.len > 0
  /\ IF out_buf /\ ep = "DATA_RX"
     THEN OnDataOut(hw.pkt.len)
     ELSE /\ hw' = [hw EXCEPT !.pkt = NoPacket]
          /\ UNCHANGED <<ack_mode, xfer, queue, failed>>
  /\ UNCHANGED <<ep, in_len, out_buf, addr, host>>

(* on_data_in: the next packet, the forced zero-length packet, or the end.  *)
OnDataIn(h) ==
  \/ /\ ep = "DATA_TX" /\ xfer.inLen > MPS
     /\ LET n == Smaller(xfer.inLen - MPS, MPS)
            x == [xfer EXCEPT !.pos = @ + MPS, !.inLen = @ - n]
        IN /\ xfer' = x /\ in_len' = n
           /\ hw' = Transmit(Receive(h, 0), n, x.pos, x.data)
     /\ out_buf' = FALSE /\ UNCHANGED ep
  \/ /\ ep = "DATA_TX" /\ xfer.inLen <= MPS /\ xfer.zlp
     /\ xfer' = [xfer EXCEPT !.zlp = FALSE] /\ in_len' = 0
     /\ hw' = Transmit(Receive(h, 0), 0, xfer.pos + MPS, xfer.data)
     /\ out_buf' = FALSE /\ UNCHANGED ep
  \/ /\ ep = "DATA_TX" /\ xfer.inLen <= MPS /\ ~xfer.zlp
     /\ xfer' = [xfer EXCEPT !.valid = TRUE, !.actual = xfer.requested]
     /\ ep' = "STATUS_RX" /\ hw' = Receive(h, 0)
     /\ out_buf' = FALSE /\ UNCHANGED in_len
  \/ /\ ep # "DATA_TX"
     /\ hw' = h /\ UNCHANGED <<ep, xfer, in_len, out_buf>>

(* After a zero-length packet the new address becomes the bus address.      *)
IsrTx ==
  /\ hw.txDone /\ hw.pkt = NoPacket
  /\ OnDataIn([hw EXCEPT !.txDone = FALSE])
  /\ addr' = IF in_len' = 0 /\ ~addr.set
               THEN [addr EXCEPT !.daddr = addr.dev, !.set = TRUE] ELSE addr
  /\ UNCHANGED <<ack_mode, queue, host, failed>>

(* set_device_address: the registers change now for 0, else after the status *)
(* stage.                                                                   *)
SetDeviceAddressAtOnce(a) ==                  \* mutant of SetDeviceAddress
  [dev |-> a, set |-> FALSE, daddr |-> a]
SetDeviceAddressKeepsSet(a) ==                \* mutant of SetDeviceAddress
  IF a = 0 THEN [addr EXCEPT !.dev = 0, !.daddr = 0] ELSE [addr EXCEPT !.dev = a]
SetDeviceAddressKeepsDev(a) ==                \* mutant of SetDeviceAddress
  IF a = 0 THEN [addr EXCEPT !.set = FALSE, !.daddr = 0] ELSE [addr EXCEPT !.dev = a]

SetDeviceAddress(a) ==
  IF a = 0 THEN [dev |-> 0, set |-> FALSE, daddr |-> 0] ELSE [addr EXCEPT !.dev = a]

(* A bus reset re-opens the endpoint and forgets the address.  The transfer *)
(* and the mailbox survive it.                                              *)
IsrResetForgetsAck ==                         \* mutant of IsrReset
  /\ hw.reset /\ hw.pkt = NoPacket /\ ~hw.txDone
  /\ ep' = "RESET" /\ ack_mode' = "NONE"
  /\ hw' = [hw EXCEPT !.reset = FALSE, !.rx = "VALID", !.tx = "NAK"]
  /\ addr' = SetDeviceAddress(0)
  /\ UNCHANGED <<xfer, in_len, out_buf, queue, host, failed>>

IsrReset ==
  /\ hw.reset /\ hw.pkt = NoPacket /\ ~hw.txDone
  /\ ep' = "RESET"
  /\ xfer' = [xfer EXCEPT !.requested = 1, !.inLen = 1, !.actual = 0]
  /\ hw' = [hw EXCEPT !.reset = FALSE, !.rx = "VALID", !.tx = "NAK"]
  /\ addr' = SetDeviceAddress(0)
  /\ UNCHANGED <<ack_mode, in_len, out_buf, queue, host, failed>>

(***************************************************************************)
(* The control thread.  It handles a request with interrupts off.           *)
(***************************************************************************)
(* Interrupts pending before the thread runs are served first.              *)
ThreadGetUncounted ==                         \* mutant of ThreadGet
  /\ thread = "wait" /\ hw.pkt = NoPacket /\ ~hw.txDone /\ ~hw.reset
  /\ sema' = sema - 1 /\ thread' = "woken"
  /\ UNCHANGED <<device, control_xfer, hw, host>>

ThreadGet ==
  /\ thread = "wait" /\ sema > 0
  /\ hw.pkt = NoPacket /\ ~hw.txDone /\ ~hw.reset
  /\ sema' = sema - 1 /\ thread' = "woken"
  /\ UNCHANGED <<device, control_xfer, hw, host>>

(* ack_ctrl, after a handler left the registers at h and in_ep.xfer_len at n *)
AckCtrl(h, n) ==
  \/ /\ ack_mode = "NONE" /\ failed' = "ack_mode"
     /\ hw' = h /\ in_len' = n /\ UNCHANGED <<ep, ack_mode>>
  \/ /\ ack_mode = "DATA_IN" /\ ack_mode' = "NONE"
     /\ hw' = h /\ in_len' = n /\ UNCHANGED <<ep, failed>>
  \/ /\ ack_mode \in {"SETUP", "DATA_OUT"} /\ ack_mode' = "NONE"
     /\ ep' = IF ack_mode = "SETUP" THEN "STATUS_RX" ELSE "STATUS_TX"
     /\ hw' = Transmit(h, 0, 0, xfer.setup) /\ in_len' = 0 /\ UNCHANGED failed

(* A reply that is shorter than the host asked for and ends on a packet      *)
(* boundary needs a zero-length packet.                                     *)
NeedsZlpNever(n, asked) == FALSE              \* mutant of NeedsZlp
NeedsZlp(n, asked) == n # 0 /\ n # asked /\ n % MPS = 0

(* transfer_request on the control endpoint, host_length = r.len.           *)
Reply(r) ==
  LET n == ReplyLen(r)
  IN /\ r.kind = "reply"
     /\ xfer' = [xfer EXCEPT !.zlp = NeedsZlp(n, r.len),
                   !.actual = 0, !.requested = n, !.inLen = n, !.pos = 0, !.data = r]
     /\ AckCtrl(Transmit(hw, n, 0, r), n)
     /\ UNCHANGED addr

Accept(r) ==
  /\ r.kind \in {"accept", "unset"}
  /\ AckCtrl(hw, in_len)
  /\ UNCHANGED <<xfer, addr>>

SetAddress(r) ==
  /\ r.kind = "address"
  /\ \/ /\ r.addr # 0 /\ addr.dev # 0 /\ failed' = "device_address"
        /\ UNCHANGED <<ep, ack_mode, in_len, addr, hw>>
     \/ /\ r.addr = 0 \/ addr.dev = 0
        /\ addr' = SetDeviceAddress(r.addr)
        /\ AckCtrl(hw, in_len)
  /\ UNCHANGED xfer

RefuseAcknowledged(r) ==                      \* mutant of Refuse
  /\ r.kind \in {"refuse", "unset"}
  /\ AckCtrl(hw, in_len)
  /\ UNCHANGED <<xfer, addr>>

Refuse(r) ==
  /\ r.kind \in {"refuse", "unset"} /\ hw' = Stall(hw)
  /\ UNCHANGED <<ep, ack_mode, in_len, xfer, addr, failed>>

StallAndAck(r) ==
  /\ r.kind = "stall_ack"
  /\ AckCtrl(Stall(hw), in_len)
  /\ UNCHANGED <<xfer, addr>>

Skip == ~xfer.valid /\ UNCHANGED <<ep, ack_mode, in_len, xfer, addr, hw, failed>>

ThreadHandle ==
  /\ thread = "woken" /\ ~hw.txDone
  /\ control_xfer' = "null" /\ thread' = "wait"
  /\ \/ Skip
     \/ /\ xfer.valid
        /\ LET r == xfer.setup
           IN Reply(r) \/ Accept(r) \/ SetAddress(r) \/ Refuse(r) \/ StallAndAck(r)
  /\ UNCHANGED <<sema, out_buf, host>>

(* The TX thread of the serial port, whose packets CdcAcmTx follows: one of *)
(* them is written to the packet memory, over an armed reply if there is one*)
SerialTransmit ==
  /\ "serial" \in Allowed /\ hw.pkt = NoPacket /\ ~hw.txDone /\ ~hw.reset
  /\ hw' = [hw EXCEPT !.pma = "serial"]
  /\ UNCHANGED <<device, queue, host>>

(***************************************************************************)
(* The host and the bus: what the endpoint hardware lets through.           *)
(***************************************************************************)
Settled ==
  control_xfer = "null" /\ thread = "wait" /\ hw.pkt = NoPacket /\ ~hw.reset

(* The request has a data stage in this direction, or a status stage in     *)
(* the other one.                                                           *)
AwaitsIn  == host.phase = (IF host.req.dir = "IN" THEN "data" ELSE "status")
AwaitsOut == host.phase = (IF host.req.dir = "IN" THEN "status" ELSE "data")

Reachable == hw.rx # "DIS" /\ hw.pkt = NoPacket /\ addr.daddr = host.addr /\ ~hw.reset

(* SETUP is accepted whatever the STAT bits are and sets both to NAK.        *)
HostSetup(r) ==
  /\ host.phase = "idle" /\ Reachable
  /\ "late_irq" \in Allowed \/ ~hw.txDone
  /\ "abandon" \in Allowed \/ Settled
  /\ host.addr = 0 => r \in EarlyRequests
  /\ r.kind = "address" => host.addr = 0 \/ "readdress" \in Allowed
  /\ hw' = [hw EXCEPT !.pkt = Setup(r), !.rx = "NAK", !.tx = "NAK"]
  /\ host' = [host EXCEPT !.phase = IF r.len = 0 THEN "status" ELSE "data",
                          !.req = r, !.moved = 0, !.outcome = "none"]
  /\ UNCHANGED <<device, queue>>

HostBadSetup ==
  /\ host.phase = "idle" /\ Reachable /\ Settled /\ ~hw.txDone
  /\ hw' = [hw EXCEPT !.pkt = BadSetup, !.rx = "NAK", !.tx = "NAK"]
  /\ UNCHANGED <<device, queue, host>>

(* An IN token takes the armed packet.  A short packet, or the last byte     *)
(* asked for, ends the data stage; any packet ends the status stage.         *)
HostIn ==
  /\ AwaitsIn /\ Reachable /\ hw.tx = "VALID" /\ ~hw.txDone
  /\ hw' = [hw EXCEPT !.tx = "NAK", !.txDone = TRUE]
  /\ \/ /\ host.phase = "data"
        /\ LET m == host.moved + hw.bd.len
           IN host' = [host EXCEPT !.moved = m,
                         !.phase = IF hw.bd.len < MPS \/ m >= host.req.len
                                     THEN "status" ELSE "data"]
     \/ /\ host.phase = "status"
        /\ host' = [host EXCEPT !.phase = "idle", !.outcome = "ok",
                      !.addr = IF host.req.kind = "address" THEN host.req.addr ELSE @]
  /\ UNCHANGED <<device, queue>>

HostOutData ==
  /\ AwaitsOut /\ host.phase = "data" /\ Reachable /\ hw.rx = "VALID" /\ ~hw.kind
  /\ \E n \in 1..MPS :
       /\ \/ n = Smaller(MPS, host.req.len - host.moved)
          \/ n = MPS /\ "long_data" \in Allowed
       /\ hw' = [hw EXCEPT !.pkt = Out(n), !.rx = "NAK"]
       /\ host' = [host EXCEPT !.moved = @ + n,
                     !.phase = IF host.moved + n >= host.req.len
                                 THEN "status" ELSE "data"]
  /\ UNCHANGED <<device, queue>>

HostOutStatus ==
  /\ AwaitsOut /\ host.phase = "status" /\ Reachable /\ hw.rx = "VALID"
  /\ hw' = [hw EXCEPT !.pkt = Out(0), !.rx = "NAK"]
  /\ host' = [host EXCEPT !.phase = "idle", !.outcome = "ok"]
  /\ UNCHANGED <<device, queue>>

HostSeesStall ==
  /\ host.phase # "idle" /\ Reachable
  /\ (AwaitsIn /\ hw.tx = "STALL") \/ (AwaitsOut /\ hw.rx = "STALL")
  /\ host' = [host EXCEPT !.phase = "idle", !.outcome = "stall"]
  /\ UNCHANGED <<device, queue, hw>>

(* The host's timeout.  A patient host outwaits the device: it gives up     *)
(* only when nothing is left that could still answer it.                    *)
NoAnswer ==
  /\ Settled /\ ~hw.txDone
  /\ addr.daddr = host.addr =>
       /\ AwaitsIn => hw.tx \notin {"VALID", "STALL"}
       /\ AwaitsOut => hw.rx \notin {"VALID", "STALL"}

HostGiveUp ==
  /\ host.phase # "idle"
  /\ "abandon" \in Allowed \/ NoAnswer
  /\ host' = [host EXCEPT !.phase = "idle", !.outcome = "timeout"]
  /\ UNCHANGED <<device, queue, hw>>

(* The hardware clears the STAT bits and keeps the pending completions.      *)
BusReset ==
  /\ ~hw.reset
  /\ "reset" \in Allowed \/ Settled
  /\ hw' = [hw EXCEPT !.reset = TRUE, !.rx = "DIS", !.tx = "DIS", !.kind = FALSE]
  /\ host' = [host EXCEPT !.phase = "idle", !.addr = 0,
                 !.outcome = IF host.phase = "idle" THEN @ ELSE "reset"]
  /\ UNCHANGED <<device, queue>>

-----------------------------------------------------------------------------
Isr == IsrSetup \/ IsrBadSetup \/ IsrStatusOut \/ IsrDataOut \/ IsrTx \/ IsrReset
Host == HostIn \/ HostOutData \/ HostOutStatus \/ HostSeesStall

(* A failed assert() never returns.                                         *)
Next ==
  /\ failed = "none"
  /\ \/ Isr \/ ThreadGet \/ ThreadHandle \/ SerialTransmit
     \/ Host \/ HostGiveUp \/ BusReset \/ HostBadSetup
     \/ \E r \in Requests : HostSetup(r)

Spec == Init /\ [][Next]_vars

(* Pending interrupts are served; the control thread gets the processor      *)
(* because every other thread blocks; the host polls a pending stage and     *)
(* has a timeout.                                                           *)
Fairness ==
  /\ WF_vars(failed = "none" /\ Isr)
  /\ WF_vars(failed = "none" /\ (ThreadGet \/ ThreadHandle))
  /\ WF_vars(failed = "none" /\ Host)
  /\ WF_vars(failed = "none" /\ HostGiveUp)

FairSpec == Spec /\ Fairness
-----------------------------------------------------------------------------
(***************************************************************************)
(* Properties.                                                              *)
(***************************************************************************)
XferType == [setup : AnyRequest, valid : BOOLEAN, requested : Nat, inLen : Nat,
             actual : Nat, zlp : BOOLEAN, pos : Nat, data : AnyRequest]
Status == {"DIS", "NAK", "VALID", "STALL"}
HwType == [rx : Status, tx : Status, kind : BOOLEAN, pkt : Packets,
           txDone : BOOLEAN, reset : BOOLEAN, pma : {"control", "serial"},
           bd : [len : Nat, pos : Nat, data : AnyRequest]]
AddrType == [dev : Nat, set : BOOLEAN, daddr : Nat]
HostType == [phase : {"idle", "data", "status"}, req : AnyRequest, addr : Nat,
             moved : Nat, outcome : {"none", "ok", "stall", "timeout", "reset"}]

(* The type invariant.                                                      *)
TypeOK ==
  /\ ep \in {"IDLE", "RESET", "DATA_TX", "DATA_RX", "STATUS_RX", "STATUS_TX"}
  /\ ack_mode \in {"NONE", "SETUP", "DATA_OUT", "DATA_IN"}
  /\ xfer \in XferType
  /\ in_len \in Nat /\ out_buf \in BOOLEAN
  /\ control_xfer \in {"null", "xfer"} /\ sema \in Nat /\ thread \in {"wait", "woken"}
  /\ addr \in AddrType
  /\ hw \in HwType
  /\ host \in HostType
  /\ failed \in {"none", "control_xfer", "ack_mode",
                 "device_address"}

(* The one-place mailbox and the semaphore agree: a request is in the       *)
(* mailbox exactly while one wake-up of the control thread is outstanding,  *)
(* so the thread never takes a null transfer and never sleeps on a request. *)
MailboxHasOneToken ==
  /\ control_xfer = "xfer" <=> sema = 1 \/ thread = "woken"
  /\ sema \in {0, 1}
  /\ ~(sema = 1 /\ thread = "woken")

(* A request waiting for the thread has an acknowledgement mode, also after *)
(* a reset or another SETUP.                                                *)
AckModeIsPosted == control_xfer = "xfer" => ack_mode # "NONE"

(* The assert(0) of ack_ctrl is out of reach whatever the host does: the    *)
(* thread acknowledges nothing twice and nothing that was not posted.       *)
AckAssertHolds == failed # "ack_mode"

(* The host the properties further down are about: it takes no liberty but  *)
(* to send too much data, and at address 0 asks for nothing that the device *)
(* answers with an empty IN packet before it has an address, since IsrTx    *)
(* takes any such packet for the status stage of SET_ADDRESS.  The serial   *)
(* port may be in use.                                                      *)
Patient ==
  /\ Allowed \subseteq {"long_data", "serial"}
  /\ \A r \in EarlyRequests :
       \/ /\ r.dir = "IN"
          /\ r.kind = "reply" => ReplyLen(r) > 0 /\ ~NeedsZlp(ReplyLen(r), r.len)
       \/ r.dir = "OUT" /\ r.kind = "refuse"
       \/ r.kind = "address" /\ r.addr # 0

(* No assert() of the control path fails: the mailbox is empty when the     *)
(* interrupt handler posts, ack_ctrl has a mode, SET_ADDRESS finds none.    *)
NoAssertFails == failed = "none"

(* One of those asserts by itself: a request is never posted while the      *)
(* previous one is in the mailbox (control_request.cpp:184).                *)
MailboxIsFreeAtPost == failed # "control_xfer"

(* The thread answers the request the host is waiting on: no reset, retry   *)
(* or later packet replaced the setup packet it will read, every byte of    *)
(* the OUT data stage is in the buffer, and the reply can still be taken.   *)
RequestIsIntact ==
  control_xfer = "xfer" /\ host.phase # "idle" =>
    /\ xfer.setup = host.req /\ xfer.valid
    /\ ack_mode = (IF host.req.dir = "IN" THEN "DATA_IN"
                   ELSE IF host.req.len = 0 THEN "SETUP" ELSE "DATA_OUT")
    /\ host.req.dir = "OUT" => host.phase = "status" /\ xfer.actual = host.moved

(* Whatever packet the hardware would hand to an IN token is the right one: *)
(* in a data stage the next bytes of the reply to this very request, in a   *)
(* status stage an empty packet.  Crosses the packet-splitting arithmetic   *)
(* of on_data_in with abandoned and reset requests.  Its length and what it *)
(* was armed with are right in any case; the bytes sent are those only while*)
(* the serial port does not write its own over them.                        *)
InPacketIsRight ==
  hw.tx = "VALID" /\ AwaitsIn /\ addr.daddr = host.addr =>
    IF host.phase = "data"
    THEN /\ hw.bd = [len |-> Smaller(MPS, ReplyLen(host.req) - host.moved),
                     pos |-> host.moved, data |-> host.req]
         /\ hw.pma = "control" \/ "serial" \in Allowed
    ELSE hw.bd.len = 0

(* Between requests the device answers to the address the host believes in, *)
(* once the completion interrupt of the status packet has been served.      *)
AddressesAgree ==
  host.phase = "idle" /\ ~hw.txDone /\ ~hw.reset => addr.daddr = host.addr

(* What the device supports.                                                *)
Supported(r) ==
  \/ r.kind \in {"reply", "address"}
  \/ r.kind = "accept" /\ r.dir = "OUT" /\ r.len <= BufferSize

(* The bus address changes only when the host already uses the new one,     *)
(* never before the status stage of SET_ADDRESS.  (With a bus reset already *)
(* signalled, a late completion may set it once more before it is cleared.) *)
AddressChangesAfterStatus ==
  [][addr'.daddr # addr.daddr => hw.reset \/ addr'.daddr = host.addr]_vars

(* Every supported request comes to the end of its stages unless the bus is *)
(* reset or the host sends more than it announced.                          *)
SupportedIsServed ==
  \A r \in Requests : Supported(r) =>
    (host.phase # "idle" /\ host.req = r)
      ~> host.outcome \in {"ok", "reset"} \/ host.moved > host.req.len

(* A refused request never looks like one that succeeded, although its      *)
(* status stage is often not stalled and the host has to wait for its       *)
(* timeout.                                                                 *)
RefusedIsNotAcknowledged ==
  host.req.kind = "refuse" => host.outcome # "ok"
=============================================================================
