-------------------------- MODULE UsbControlProofs --------------------------
(***************************************************************************)
(* For every set of requests, every packet and buffer size and every host,  *)
(* patient or not: the types, the one-token mailbox and the posted          *)
(* acknowledgement mode of the control pipe.                                *)
(***************************************************************************)
EXTENDS UsbControl, TLAPS

LEMMA SmallerIsNat ==
  ASSUME NEW a \in Nat, NEW b \in Nat
  PROVE  Smaller(a, b) \in Nat /\ Smaller(a, b) <= a /\ Smaller(a, b) <= b
BY DEF Smaller

LEMMA RequestTypes ==
  ASSUME NEW r \in AnyRequest
  PROVE  /\ r.dir \in {"IN", "OUT"} /\ r.len \in Nat /\ r.size \in Nat
         /\ r.addr \in Nat /\ r.kind \in Kinds
BY RequestsAssumption DEF AnyRequest, NoRequest, Request, Kinds

LEMMA ReplyLenIsNat ==
  ASSUME NEW r \in AnyRequest
  PROVE  ReplyLen(r) \in Nat
BY RequestTypes, SmallerIsNat DEF ReplyLen

LEMMA PacketTypes ==
  /\ NoRequest \in AnyRequest
  /\ NoPacket \in Packets /\ BadSetup \in Packets
  /\ \A r \in AnyRequest : Setup(r) \in Packets
  /\ \A n \in Nat : Out(n) \in Packets
<1>1. NoRequest \in AnyRequest
  BY DEF AnyRequest
<1> QED BY <1>1 DEF NoPacket, BadSetup, Setup, Out, Packets

LEMMA RegistersAreTyped ==
  ASSUME NEW h \in HwType, NEW n \in Nat, NEW from \in Nat, NEW what \in AnyRequest
  PROVE  /\ Transmit(h, n, from, what) \in HwType
         /\ Receive(h, n) \in HwType
         /\ Stall(h) \in HwType
         /\ [h EXCEPT !.pkt = NoPacket] \in HwType
         /\ [h EXCEPT !.txDone = FALSE] \in HwType
<1>1. Smaller(n, MPS) \in Nat
  BY SmallerIsNat, SizesAssumption
<1> DEFINE b == [len |-> Smaller(n, MPS), pos |-> from, data |-> what]
           p == IF n = 0 THEN h.pma ELSE "control"
<1>2. b \in [len : Nat, pos : Nat, data : AnyRequest]
  BY <1>1
<1>3. Transmit(h, n, from, what) = [h EXCEPT !.tx = "VALID", !.pma = p, !.bd = b]
  BY DEF Transmit
<1>a. p \in {"control", "serial"}
  BY DEF HwType
<1> HIDE DEF b, p
<1>4. Transmit(h, n, from, what) \in HwType
  BY <1>2, <1>3, <1>a DEF HwType, Status
<1>5. Receive(h, n) \in HwType /\ Stall(h) \in HwType
  BY DEF Receive, Stall, HwType, Status
<1>6. /\ [h EXCEPT !.pkt = NoPacket] \in HwType
      /\ [h EXCEPT !.txDone = FALSE] \in HwType
  BY PacketTypes DEF HwType
<1> QED BY <1>4, <1>5, <1>6

(* The types hold at the start, in every step of the interrupt handlers, of *)
(* the control thread and of the host.                                      *)
LEMMA InitTypes == Init => TypeOK
<1> SUFFICES ASSUME Init PROVE TypeOK
  OBVIOUS
<1>1. xfer \in XferType
  BY PacketTypes DEF Init, XferType
<1>2. hw \in HwType
  <2> DEFINE b == [len |-> 0, pos |-> 0, data |-> NoRequest]
  <2>1. b \in [len : Nat, pos : Nat, data : AnyRequest]
    BY PacketTypes
  <2>2. hw = [rx |-> "DIS", tx |-> "DIS", kind |-> FALSE, pkt |-> NoPacket,
              txDone |-> FALSE, reset |-> FALSE, pma |-> "control", bd |-> b]
    BY DEF Init
  <2> HIDE DEF b
  <2> QED BY <2>1, <2>2, PacketTypes DEF HwType, Status
<1>3. host \in HostType /\ addr \in AddrType
  BY PacketTypes DEF Init, HostType, AddrType
<1> QED BY <1>1, <1>2, <1>3 DEF Init, TypeOK

LEMMA PostTypes ==
  ASSUME TypeOK, Post
  PROVE  /\ control_xfer' \in {"null", "xfer"} /\ sema' \in Nat /\ thread' \in {"wait", "woken"}
         /\ failed' \in {"none", "control_xfer", "ack_mode",
                         "device_address"}
BY DEF TypeOK, Post, queue

LEMMA IsrSetupTypes == TypeOK /\ IsrSetup => TypeOK'
<1> SUFFICES ASSUME TypeOK, IsrSetup PROVE TypeOK'
  OBVIOUS
<1> DEFINE r == hw.pkt.req
           h == [hw EXCEPT !.pkt = NoPacket]
           x == [xfer EXCEPT !.setup = r, !.actual = 0, !.valid = TRUE]
<1>1. r \in AnyRequest
  BY DEF TypeOK, HwType, Packets
<1>2. h \in HwType /\ Stall(h) \in HwType /\ Receive(h, r.len) \in HwType
  BY <1>1, RequestTypes, RegistersAreTyped, PacketTypes DEF TypeOK
<1>3. /\ x \in XferType /\ [x EXCEPT !.requested = r.len] \in XferType
      /\ [x EXCEPT !.requested = r.len, !.pos = 0] \in XferType
  BY <1>1, RequestTypes DEF TypeOK, XferType
<1>4. OnSetup(r) /\ UNCHANGED <<in_len, addr, host>>
  BY DEF IsrSetup
<1>5. ep' \in {"IDLE", "RESET", "DATA_TX", "DATA_RX", "STATUS_RX", "STATUS_TX"}
  BY <1>4 DEF OnSetup, TypeOK
<1>6. ack_mode' \in {"NONE", "SETUP", "DATA_OUT", "DATA_IN"} /\ out_buf' \in BOOLEAN
  BY <1>4 DEF OnSetup, TypeOK
<1>7. xfer' \in XferType
  BY <1>3, <1>4 DEF OnSetup
<1>8. hw' \in HwType
  BY <1>2, <1>4 DEF OnSetup
<1>9. /\ control_xfer' \in {"null", "xfer"} /\ sema' \in Nat /\ thread' \in {"wait", "woken"}
      /\ failed' \in {"none", "control_xfer", "ack_mode",
                      "device_address"}
  <2>1. Post \/ UNCHANGED <<queue, failed>>
    BY <1>4 DEF OnSetup
  <2> QED BY <2>1, PostTypes DEF TypeOK, queue
<1> QED BY <1>4, <1>5, <1>6, <1>7, <1>8, <1>9 DEF TypeOK

LEMMA IsrDataOutTypes == TypeOK /\ IsrDataOut => TypeOK'
<1> SUFFICES ASSUME TypeOK, IsrDataOut PROVE TypeOK'
  OBVIOUS
<1> DEFINE n == hw.pkt.len
           h == [hw EXCEPT !.pkt = NoPacket]
           x == [xfer EXCEPT !.actual = @ + n, !.data = xfer.setup]
<1>1. n \in Nat
  BY DEF TypeOK, HwType, Packets
<1>2. h \in HwType /\ Receive(h, MPS) \in HwType
  BY SizesAssumption, RegistersAreTyped, PacketTypes DEF TypeOK
<1>3. /\ x \in XferType /\ [x EXCEPT !.valid = TRUE] \in XferType
      /\ [x EXCEPT !.pos = @ + MPS] \in XferType
      /\ [x EXCEPT !.valid = FALSE] \in XferType
  <2>1. xfer.actual + n \in Nat /\ xfer.setup \in AnyRequest
    BY <1>1 DEF TypeOK, XferType
  <2>2. x = [xfer EXCEPT !.actual = xfer.actual + n, !.data = xfer.setup]
    OBVIOUS
  <2> HIDE DEF n, x
  <2>3. x \in XferType
    BY <2>1, <2>2 DEF TypeOK, XferType
  <2>4. x.pos + MPS \in Nat
    BY <2>3, SizesAssumption DEF XferType
  <2>5. [x EXCEPT !.pos = @ + MPS] \in XferType
    BY <2>3, <2>4 DEF XferType
  <2>6. [x EXCEPT !.valid = TRUE] \in XferType /\ [x EXCEPT !.valid = FALSE] \in XferType
    BY <2>3 DEF XferType
  <2> QED BY <2>3, <2>5, <2>6
<1>4. CASE out_buf /\ ep = "DATA_RX"
  <2>1. OnDataOut(n) /\ UNCHANGED <<ep, in_len, out_buf, addr, host>>
    BY <1>4 DEF IsrDataOut
  <2>2. xfer' \in XferType
    BY <1>3, <2>1 DEF OnDataOut
  <2>3. hw' \in HwType
    BY <1>2, <2>1 DEF OnDataOut
  <2>4. ack_mode' \in {"NONE", "SETUP", "DATA_OUT", "DATA_IN"}
    BY <2>1 DEF OnDataOut, TypeOK
  <2>5. Post \/ UNCHANGED <<queue, failed>>
    BY <2>1 DEF OnDataOut
  <2> QED BY <2>1, <2>2, <2>3, <2>4, <2>5, PostTypes DEF TypeOK, queue
<1>5. CASE ~(out_buf /\ ep = "DATA_RX")
  BY <1>2, <1>5 DEF IsrDataOut, TypeOK, queue
<1> QED BY <1>4, <1>5

LEMMA IsrTxTypes == TypeOK /\ IsrTx => TypeOK'
<1> SUFFICES ASSUME TypeOK, IsrTx PROVE TypeOK'
  OBVIOUS
<1> DEFINE h == [hw EXCEPT !.txDone = FALSE]
           n == Smaller(xfer.inLen - MPS, MPS)
           x == [xfer EXCEPT !.pos = @ + MPS, !.inLen = @ - n]
<1>1. /\ xfer.inLen \in Nat /\ xfer.pos \in Nat /\ xfer.data \in AnyRequest
      /\ xfer.requested \in Nat /\ xfer.pos + MPS \in Nat
  BY SizesAssumption DEF TypeOK, XferType
<1>2. h \in HwType /\ Receive(h, 0) \in HwType
  BY RegistersAreTyped, PacketTypes DEF TypeOK
<1>3. OnDataIn(h)
  BY DEF IsrTx
<1>4. /\ xfer' \in XferType /\ in_len' \in Nat /\ hw' \in HwType
      /\ ep' \in {"IDLE", "RESET", "DATA_TX", "DATA_RX", "STATUS_RX", "STATUS_TX"}
      /\ out_buf' \in BOOLEAN
  <2>1. CASE ep = "DATA_TX" /\ xfer.inLen > MPS
    <3>1. n \in Nat /\ xfer.inLen - n \in Nat
      BY <1>1, <2>1, SizesAssumption DEF Smaller
    <3>2. x \in XferType
      BY <1>1, <3>1, SizesAssumption DEF TypeOK, XferType
    <3>3. x.pos \in Nat /\ x.data \in AnyRequest
      BY <3>2 DEF XferType
    <3>4. Transmit(Receive(h, 0), n, x.pos, x.data) \in HwType
      BY <1>2, <3>1, <3>3, RegistersAreTyped
    <3>5. /\ xfer' = x /\ in_len' = n
          /\ hw' = Transmit(Receive(h, 0), n, x.pos, x.data)
          /\ out_buf' = FALSE /\ UNCHANGED ep
      BY <1>1, <1>3, <2>1, SizesAssumption DEF OnDataIn
    <3> HIDE DEF h, n, x
    <3> QED BY <3>1, <3>2, <3>4, <3>5 DEF TypeOK
  <2>2. CASE ep = "DATA_TX" /\ xfer.inLen <= MPS /\ xfer.zlp
    <3>1. Transmit(Receive(h, 0), 0, xfer.pos + MPS, xfer.data) \in HwType
      BY <1>1, <1>2, RegistersAreTyped
    <3>2. [xfer EXCEPT !.zlp = FALSE] \in XferType
      BY DEF TypeOK, XferType
    <3>3. /\ xfer' = [xfer EXCEPT !.zlp = FALSE] /\ in_len' = 0
          /\ hw' = Transmit(Receive(h, 0), 0, xfer.pos + MPS, xfer.data)
          /\ out_buf' = FALSE /\ UNCHANGED ep
      BY <1>1, <1>3, <2>2, SizesAssumption DEF OnDataIn
    <3> QED BY <3>1, <3>2, <3>3 DEF TypeOK
  <2>3. CASE ep = "DATA_TX" /\ xfer.inLen <= MPS /\ ~xfer.zlp
    <3>1. [xfer EXCEPT !.valid = TRUE, !.actual = xfer.requested] \in XferType
      BY <1>1 DEF TypeOK, XferType
    <3>2. /\ xfer' = [xfer EXCEPT !.valid = TRUE, !.actual = xfer.requested]
          /\ ep' = "STATUS_RX" /\ hw' = Receive(h, 0)
          /\ out_buf' = FALSE /\ UNCHANGED in_len
      BY <1>1, <1>3, <2>3, SizesAssumption DEF OnDataIn
    <3> QED BY <1>2, <3>1, <3>2 DEF TypeOK
  <2>4. CASE ep # "DATA_TX"
    BY <1>2, <1>3, <2>4 DEF OnDataIn, TypeOK
  <2> QED BY <1>1, <2>1, <2>2, <2>3, <2>4, SizesAssumption
<1>5. addr' \in AddrType
  BY DEF IsrTx, TypeOK, AddrType
<1> QED BY <1>4, <1>5 DEF IsrTx, TypeOK, queue

LEMMA IsrResetTypes == TypeOK /\ IsrReset => TypeOK'
<1> SUFFICES ASSUME TypeOK, IsrReset PROVE TypeOK'
  OBVIOUS
<1>1. xfer' \in XferType
  BY DEF IsrReset, TypeOK, XferType
<1>2. hw' \in HwType
  BY DEF IsrReset, TypeOK, HwType, Status
<1>3. addr' \in AddrType
  BY DEF IsrReset, AddrType, SetDeviceAddress
<1> QED BY <1>1, <1>2, <1>3 DEF IsrReset, TypeOK, queue

(* ack_ctrl arms the status packet.                                         *)
LEMMA AckCtrlTypes ==
  ASSUME TypeOK, NEW h \in HwType, NEW n \in Nat, AckCtrl(h, n)
  PROVE  /\ ep' \in {"IDLE", "RESET", "DATA_TX", "DATA_RX", "STATUS_RX", "STATUS_TX"}
         /\ ack_mode' \in {"NONE", "SETUP", "DATA_OUT", "DATA_IN"}
         /\ hw' \in HwType /\ in_len' \in Nat
         /\ failed' \in {"none", "control_xfer", "ack_mode", "device_address"}
<1>1. xfer.setup \in AnyRequest
  BY DEF TypeOK, XferType
<1>2. Transmit(h, 0, 0, xfer.setup) \in HwType
  BY <1>1, RegistersAreTyped
<1> QED BY <1>2 DEF AckCtrl, TypeOK

LEMMA ThreadHandleTypes == TypeOK /\ ThreadHandle => TypeOK'
<1> SUFFICES ASSUME TypeOK, ThreadHandle PROVE TypeOK'
  OBVIOUS
<1> DEFINE r == xfer.setup
           Rest == /\ ep' \in {"IDLE", "RESET", "DATA_TX", "DATA_RX",
                               "STATUS_RX", "STATUS_TX"}
                   /\ ack_mode' \in {"NONE", "SETUP", "DATA_OUT", "DATA_IN"}
                   /\ hw' \in HwType /\ in_len' \in Nat
                   /\ failed' \in {"none", "control_xfer", "ack_mode", "device_address"}
                   /\ xfer' \in XferType /\ addr' \in AddrType
<1>1. r \in AnyRequest /\ r.addr \in Nat
  BY RequestTypes DEF TypeOK, XferType
<1>2. Stall(hw) \in HwType
  BY <1>1, RegistersAreTyped DEF TypeOK
<1>3. ASSUME Skip PROVE Rest
  BY <1>3 DEF Skip, TypeOK
<1>4. ASSUME Reply(r) PROVE Rest
  <2> DEFINE n == ReplyLen(r)
             x == [xfer EXCEPT !.zlp = NeedsZlp(n, r.len),
                     !.actual = 0, !.requested = n, !.inLen = n, !.pos = 0, !.data = r]
  <2>1. n \in Nat
    BY <1>1, ReplyLenIsNat
  <2>2. /\ AckCtrl(Transmit(hw, n, 0, r), n)
        /\ xfer' = x /\ UNCHANGED addr
    BY <1>4 DEF Reply
  <2>3. Transmit(hw, n, 0, r) \in HwType
    BY <1>1, <2>1, RegistersAreTyped DEF TypeOK
  <2>a. NeedsZlp(n, r.len) \in BOOLEAN
    BY DEF NeedsZlp
  <2> HIDE DEF n
  <2>4. x \in XferType
    BY <1>1, <2>1, <2>a DEF TypeOK, XferType
  <2> HIDE DEF x, r
  <2>5. addr' \in AddrType /\ xfer' \in XferType
    BY <2>2, <2>4 DEF TypeOK
  <2> QED BY <2>1, <2>2, <2>3, <2>5, AckCtrlTypes
<1>5. ASSUME Accept(r) PROVE Rest
  <2>1. AckCtrl(hw, in_len) /\ UNCHANGED <<xfer, addr>>
    BY <1>5 DEF Accept
  <2> QED BY <2>1, AckCtrlTypes DEF TypeOK
<1>6. ASSUME SetAddress(r) PROVE Rest
  <2>1. xfer' \in XferType /\ addr' \in AddrType
    <3>1. UNCHANGED xfer
      BY <1>6 DEF SetAddress
    <3>2. \/ UNCHANGED addr
          \/ addr' = [addr EXCEPT !.dev = r.addr]
          \/ addr' = [dev |-> 0, set |-> FALSE, daddr |-> 0]
      BY <1>6 DEF SetAddress, SetDeviceAddress
    <3>3. addr' \in AddrType
      <4> DEFINE a == r.addr
      <4>1. a \in Nat
        BY <1>1
      <4>2. \/ UNCHANGED addr
            \/ addr' = [addr EXCEPT !.dev = a]
            \/ addr' = [dev |-> 0, set |-> FALSE, daddr |-> 0]
        BY <3>2
      <4> HIDE DEF a, r
      <4>3. addr \in AddrType
        BY DEF TypeOK
      <4>4. CASE addr' = [addr EXCEPT !.dev = a]
        BY <4>1, <4>3, <4>4 DEF AddrType
      <4>5. CASE addr' = [dev |-> 0, set |-> FALSE, daddr |-> 0]
        BY <4>5 DEF AddrType
      <4> QED BY <4>2, <4>3, <4>4, <4>5
    <3> QED BY <3>1, <3>3 DEF TypeOK
  <2>2. AckCtrl(hw, in_len)
        \/ (failed' = "device_address" /\ UNCHANGED <<ep, ack_mode, in_len, hw>>)
    BY <1>6 DEF SetAddress
  <2>3. CASE AckCtrl(hw, in_len)
    BY <2>1, <2>3, AckCtrlTypes DEF TypeOK
  <2>4. CASE failed' = "device_address" /\ UNCHANGED <<ep, ack_mode, in_len, hw>>
    BY <2>1, <2>4 DEF TypeOK
  <2> QED BY <2>2, <2>3, <2>4
<1>7. ASSUME Refuse(r) PROVE Rest
  BY <1>2, <1>7 DEF Refuse, TypeOK
<1>8. ASSUME StallAndAck(r) PROVE Rest
  <2>1. AckCtrl(Stall(hw), in_len) /\ UNCHANGED <<xfer, addr>>
    BY <1>8 DEF StallAndAck
  <2> QED BY <1>2, <2>1, AckCtrlTypes DEF TypeOK
<1>9. Rest
  BY <1>3, <1>4, <1>5, <1>6, <1>7, <1>8 DEF ThreadHandle
<1> QED BY <1>9 DEF ThreadHandle, TypeOK

(* What the host and the bus do to the registers.                           *)
LEMMA HostTypes ==
  TypeOK /\ (Host \/ HostGiveUp \/ BusReset \/ HostBadSetup
             \/ \E r \in Requests : HostSetup(r)) => TypeOK'
<1> SUFFICES ASSUME TypeOK PROVE
      (Host \/ HostGiveUp \/ BusReset \/ HostBadSetup
       \/ \E r \in Requests : HostSetup(r)) => TypeOK'
  OBVIOUS
<1>1. ASSUME UNCHANGED <<device, queue>>, hw' \in HwType, host' \in HostType
      PROVE  TypeOK'
  BY <1>1 DEF TypeOK, device, queue
<1>2. ASSUME NEW r \in Requests, HostSetup(r) PROVE TypeOK'
  <2>1. r \in AnyRequest /\ Setup(r) \in Packets
    BY PacketTypes DEF AnyRequest
  <2>2. hw' \in HwType
    BY <1>2, <2>1 DEF HostSetup, TypeOK, HwType, Status
  <2>3. host' \in HostType
    BY <1>2, <2>1 DEF HostSetup, TypeOK, HostType
  <2> QED BY <1>1, <1>2, <2>2, <2>3 DEF HostSetup
<1>3. CASE HostBadSetup
  <2>1. hw' \in HwType
    BY <1>3, PacketTypes DEF HostBadSetup, TypeOK, HwType, Status
  <2> QED BY <1>1, <1>3, <2>1 DEF HostBadSetup, TypeOK
<1>4. CASE HostIn
  <2>1. hw' \in HwType
    BY <1>4 DEF HostIn, TypeOK, HwType, Status
  <2>2. hw.bd.len \in Nat /\ host.req.addr \in Nat /\ host.moved \in Nat
    BY RequestTypes DEF TypeOK, HwType, HostType
  <2>3. \/ \E m \in Nat, ph \in {"data", "status"} :
             host' = [host EXCEPT !.moved = m, !.phase = ph]
        \/ \E a \in Nat :
             host' = [host EXCEPT !.phase = "idle", !.outcome = "ok", !.addr = a]
    <3>1. CASE host.phase = "data"
      <4> DEFINE m == host.moved + hw.bd.len
                 ph == IF hw.bd.len < MPS \/ m >= host.req.len
                         THEN "status" ELSE "data"
      <4>1. host' = [host EXCEPT !.moved = m, !.phase = ph]
        BY <1>4, <3>1 DEF HostIn
      <4>2. m \in Nat /\ ph \in {"data", "status"}
        BY <2>2
      <4> HIDE DEF m, ph
      <4> QED BY <4>1, <4>2
    <3>2. CASE host.phase = "status"
      <4>1. PICK a : /\ a = (IF host.req.kind = "address" THEN host.req.addr ELSE host.addr)
                     /\ host' = [host EXCEPT !.phase = "idle", !.outcome = "ok", !.addr = a]
        BY <1>4, <3>2 DEF HostIn
      <4>2. a \in Nat
        BY <2>2, <4>1 DEF TypeOK, HostType
      <4> QED BY <4>1, <4>2
    <3> QED BY <1>4, <3>1, <3>2 DEF HostIn
  <2>4. host' \in HostType
    BY <2>3 DEF TypeOK, HostType
  <2> QED BY <1>1, <1>4, <2>1, <2>4 DEF HostIn
<1>5. CASE HostOutData
  <2>1. PICK n \in 1..MPS :
          /\ hw' = [hw EXCEPT !.pkt = Out(n), !.rx = "NAK"]
          /\ host' = [host EXCEPT !.moved = @ + n,
                        !.phase = IF host.moved + n >= host.req.len
                                    THEN "status" ELSE "data"]
    BY <1>5 DEF HostOutData
  <2>2. n \in Nat
    BY SizesAssumption
  <2>3. hw' \in HwType
    BY <2>1, <2>2, PacketTypes DEF TypeOK, HwType, Status
  <2>4. host.moved + n \in Nat
    BY <2>2 DEF TypeOK, HostType
  <2>5. PICK ph \in {"data", "status"} :
          host' = [host EXCEPT !.moved = host.moved + n, !.phase = ph]
    BY <2>1
  <2>6. host' \in HostType
    BY <2>4, <2>5 DEF TypeOK, HostType
  <2> QED BY <1>1, <1>5, <2>3, <2>6 DEF HostOutData
<1>6. CASE HostOutStatus
  <2>1. Out(0) \in Packets
    BY PacketTypes
  <2>2. hw' \in HwType
    BY <1>6, <2>1 DEF HostOutStatus, TypeOK, HwType, Status
  <2>3. host' \in HostType
    BY <1>6 DEF HostOutStatus, TypeOK, HostType
  <2> QED BY <1>1, <1>6, <2>2, <2>3 DEF HostOutStatus
<1>7. CASE HostSeesStall
  <2>1. host' \in HostType
    BY <1>7 DEF HostSeesStall, TypeOK, HostType
  <2> QED BY <1>1, <1>7, <2>1 DEF HostSeesStall, TypeOK
<1>8. CASE HostGiveUp
  <2>1. host' \in HostType
    BY <1>8 DEF HostGiveUp, TypeOK, HostType
  <2> QED BY <1>1, <1>8, <2>1 DEF HostGiveUp, TypeOK
<1>9. CASE BusReset
  <2>1. hw' \in HwType
    BY <1>9 DEF BusReset, TypeOK, HwType, Status
  <2>2. host' \in HostType
    BY <1>9 DEF BusReset, TypeOK, HostType
  <2> QED BY <1>1, <1>9, <2>1, <2>2 DEF BusReset
<1> QED BY <1>2, <1>3, <1>4, <1>5, <1>6, <1>7, <1>8, <1>9 DEF Host

LEMMA NextTypes == TypeOK /\ [Next]_vars => TypeOK'
<1> SUFFICES ASSUME TypeOK, [Next]_vars PROVE TypeOK'
  OBVIOUS
<1>1. CASE IsrSetup
  BY <1>1, IsrSetupTypes
<1>2. CASE IsrBadSetup \/ IsrStatusOut
  <2>1. hw' \in HwType
    BY <1>2, PacketTypes DEF IsrBadSetup, IsrStatusOut, TypeOK, HwType, Status
  <2>2. UNCHANGED <<device, queue, host>>
    BY <1>2 DEF IsrBadSetup, IsrStatusOut
  <2> QED BY <2>1, <2>2 DEF TypeOK, device, queue
<1>3. CASE IsrDataOut
  BY <1>3, IsrDataOutTypes
<1>4. CASE IsrTx
  BY <1>4, IsrTxTypes
<1>5. CASE IsrReset
  BY <1>5, IsrResetTypes
<1>6. CASE ThreadGet
  BY <1>6 DEF ThreadGet, TypeOK, device
<1>7. CASE ThreadHandle
  BY <1>7, ThreadHandleTypes
<1>8. CASE Host \/ HostGiveUp \/ BusReset \/ HostBadSetup
           \/ \E r \in Requests : HostSetup(r)
  BY <1>8, HostTypes
<1>9. CASE UNCHANGED vars
  BY <1>9 DEF vars, TypeOK
<1>10. CASE SerialTransmit
  <2>1. hw' \in HwType
    BY <1>10 DEF SerialTransmit, TypeOK, HwType
  <2> QED BY <1>10, <2>1 DEF SerialTransmit, TypeOK, device, queue
<1> QED BY <1>1, <1>2, <1>3, <1>4, <1>5, <1>6, <1>7, <1>8, <1>9, <1>10 DEF Next, Isr

(* Type correctness for every instance of the model.                        *)
THEOREM TypeCorrect == Spec => []TypeOK
BY InitTypes, NextTypes, PTL DEF Spec

-----------------------------------------------------------------------------
(***************************************************************************)
(* The mailbox.  Together with the types the two properties are inductive:  *)
(* Post fills an empty mailbox, adds its token and comes with a mode; the   *)
(* thread moves the token in ThreadGet and spends it with the request, and  *)
(* so never finds the mode missing.                                         *)
(***************************************************************************)
MailboxInv == MailboxHasOneToken /\ AckModeIsPosted /\ AckAssertHolds

LEMMA PostKeepsMailbox ==
  ASSUME TypeOK, MailboxInv, Post, ack_mode' # "NONE"
  PROVE  MailboxInv'
BY DEF TypeOK, MailboxInv, MailboxHasOneToken, AckModeIsPosted, AckAssertHolds, Post, queue

LEMMA QuietKeepsMailbox ==
  ASSUME MailboxInv, UNCHANGED queue, UNCHANGED ack_mode, UNCHANGED failed
  PROVE  MailboxInv'
BY DEF MailboxInv, MailboxHasOneToken, AckModeIsPosted, AckAssertHolds, queue

LEMMA NextMailbox == TypeOK /\ MailboxInv /\ [Next]_vars => MailboxInv'
<1> SUFFICES ASSUME TypeOK, MailboxInv, [Next]_vars PROVE MailboxInv'
  OBVIOUS
<1>1. CASE IsrSetup
  <2>1. \/ Post /\ ack_mode' \in {"DATA_IN", "SETUP"}
        \/ UNCHANGED queue /\ UNCHANGED ack_mode /\ UNCHANGED failed
    BY <1>1 DEF IsrSetup, OnSetup
  <2> QED BY <2>1, PostKeepsMailbox, QuietKeepsMailbox
<1>2. CASE IsrDataOut
  <2>1. \/ Post /\ ack_mode' = "DATA_OUT"
        \/ UNCHANGED queue /\ UNCHANGED ack_mode /\ UNCHANGED failed
    BY <1>2 DEF IsrDataOut, OnDataOut
  <2> QED BY <2>1, PostKeepsMailbox, QuietKeepsMailbox
<1>3. CASE IsrBadSetup \/ IsrStatusOut \/ IsrTx \/ IsrReset
  BY <1>3, QuietKeepsMailbox DEF IsrBadSetup, IsrStatusOut, IsrTx, IsrReset, device
<1>4. CASE ThreadGet
  BY <1>4 DEF ThreadGet, device, TypeOK, MailboxInv, MailboxHasOneToken,
       AckModeIsPosted, AckAssertHolds
<1>5. CASE ThreadHandle
  <2>1. ack_mode # "NONE"
    BY <1>5 DEF ThreadHandle, MailboxInv, MailboxHasOneToken, AckModeIsPosted
  <2>2. failed' # "ack_mode"
    <3>1. failed # "ack_mode"
      BY DEF MailboxInv, AckAssertHolds
    <3>2. CASE Skip \/ Refuse(xfer.setup)
      BY <3>1, <3>2 DEF Skip, Refuse
    <3>3. ASSUME NEW h, NEW n, AckCtrl(h, n) PROVE failed' # "ack_mode"
      BY <2>1, <3>1, <3>3 DEF AckCtrl
    <3>4. CASE Reply(xfer.setup)
      BY <3>3, <3>4 DEF Reply
    <3>5. CASE Accept(xfer.setup) \/ StallAndAck(xfer.setup)
      BY <3>3, <3>5 DEF Accept, StallAndAck
    <3>6. CASE SetAddress(xfer.setup)
      BY <3>3, <3>6 DEF SetAddress
    <3> QED BY <1>5, <3>2, <3>4, <3>5, <3>6 DEF ThreadHandle
  <2>3. control_xfer' = "null" /\ thread' = "wait" /\ UNCHANGED sema
    BY <1>5 DEF ThreadHandle
  <2>4. sema = 0
    BY <1>5 DEF ThreadHandle, MailboxInv, MailboxHasOneToken
  <2> QED BY <2>2, <2>3, <2>4 DEF MailboxInv, MailboxHasOneToken, AckModeIsPosted,
       AckAssertHolds
<1>6. CASE Host \/ HostGiveUp \/ BusReset \/ HostBadSetup
           \/ \E r \in Requests : HostSetup(r)
  BY <1>6, QuietKeepsMailbox DEF Host, HostIn, HostOutData, HostOutStatus,
       HostSeesStall, HostGiveUp, BusReset, HostBadSetup, HostSetup, device
<1>7. CASE SerialTransmit \/ UNCHANGED vars
  BY <1>7, QuietKeepsMailbox DEF SerialTransmit, device, vars, queue
<1> QED BY <1>1, <1>2, <1>3, <1>4, <1>5, <1>6, <1>7 DEF Next, Isr

LEMMA MailboxInvariant == Spec => [](TypeOK /\ MailboxInv)
<1>1. Init => MailboxInv
  BY DEF Init, MailboxInv, MailboxHasOneToken, AckModeIsPosted, AckAssertHolds
<1> QED BY <1>1, InitTypes, NextTypes, NextMailbox, PTL DEF Spec

(* The control thread is woken exactly once per posted request and never    *)
(* takes an empty mailbox, whatever the host does.                          *)
THEOREM MailboxTokenCorrect == Spec => []MailboxHasOneToken
BY MailboxInvariant, PTL DEF MailboxInv

(* ack_ctrl is never called without a mode, whatever the host does.         *)
THEOREM AckModeCorrect == Spec => []AckModeIsPosted
BY MailboxInvariant, PTL DEF MailboxInv

(* The assert(0) of ack_ctrl never fails, whatever the host does.           *)
THEOREM AckAssertCorrect == Spec => []AckAssertHolds
BY MailboxInvariant, PTL DEF MailboxInv
====
