-------------------------- MODULE UsbPatientProofs --------------------------
(***************************************************************************)
(* What the control pipe does for a host that waits for its answers, for    *)
(* every set of requests, every packet and buffer size: no assert fails,    *)
(* the request that is handled is the one the host waits on, every IN       *)
(* packet is the right one, the address follows SET_ADDRESS, and a refused  *)
(* request never ends in success.                                           *)
(***************************************************************************)
EXTENDS UsbControlProofs

-----------------------------------------------------------------------------
(* The inductive invariant: the stages of a request.                        *)

Asked == host.req
Length == ReplyLen(Asked)
Fresh == control_xfer = "null" /\ hw.pkt = NoPacket /\ ~hw.txDone

\* The interrupt for the SETUP is pending.
SetupSent ==
  /\ control_xfer = "null" /\ hw.pkt = Setup(Asked) /\ ~hw.txDone /\ hw.tx = "NAK"
  /\ host.phase = (IF Asked.len = 0 THEN "status" ELSE "data") /\ host.moved = 0
\* The control thread has the request, with all its data.
Posted ==
  /\ control_xfer = "xfer" /\ hw.pkt = NoPacket /\ ~hw.txDone /\ hw.tx = "NAK"
  /\ xfer.setup = Asked /\ xfer.valid
  /\ \/ /\ Asked.dir = "IN" /\ ack_mode = "DATA_IN"
        /\ ep = "DATA_TX" /\ host.phase = "data" /\ host.moved = 0
     \/ /\ Asked.dir = "OUT"
        /\ ack_mode = (IF Asked.len = 0 THEN "SETUP" ELSE "DATA_OUT")
        /\ host.phase = "status" /\ xfer.actual = host.moved

\* The packet armed, or just sent: a piece of the reply, or the empty one
\* after it.
Piece ==
  /\ hw.bd = [len |-> Smaller(MPS, Length - xfer.pos), pos |-> xfer.pos, data |-> Asked]
  /\ xfer.data = Asked /\ xfer.zlp = NeedsZlp(Length, Asked.len)
  /\ (xfer.pos % MPS) = 0 /\ (xfer.pos < Length \/ (xfer.pos = 0 /\ Length = 0))
  /\ Length - xfer.pos > MPS => xfer.inLen = Length - xfer.pos
  /\ Length - xfer.pos <= MPS => xfer.inLen <= MPS
  /\ Length > 0 => in_len > 0
Final ==
  /\ hw.bd = [len |-> 0, pos |-> Length, data |-> Asked]
  /\ xfer.inLen <= MPS /\ ~xfer.zlp /\ NeedsZlp(Length, Asked.len)
Armed == /\ hw.tx = "VALID" /\ ~hw.txDone
         /\ host.phase = "data" /\ host.moved = hw.bd.pos
Taken == /\ hw.tx = "NAK" /\ hw.txDone
         /\ host.moved = hw.bd.pos + hw.bd.len
         /\ host.phase = (IF hw.bd.len < MPS \/ host.moved >= Asked.len
                            THEN "status" ELSE "data")
Replying ==
  /\ control_xfer = "null" /\ hw.pkt = NoPacket
  /\ Asked.dir = "IN" /\ Asked.kind = "reply" /\ ep = "DATA_TX"
  /\ Piece \/ Final
  /\ Armed \/ Taken
Replied == Fresh /\ Asked.dir = "IN" /\ Asked.kind = "reply" /\ host.phase = "status"

\* Refused, or one of those that the device never answers.
Unanswered ==
  /\ Fresh /\ hw.tx # "VALID"
  /\ Asked.dir = "OUT" /\ host.phase = "data" => hw.rx # "VALID"
  /\ Asked.dir = "IN" => host.phase = "data"

\* The device takes the data of the request; a packet of it is pending.
Taking ==
  /\ control_xfer = "null" /\ ~hw.txDone /\ hw.tx = "NAK"
  /\ Asked.dir = "OUT" /\ ep = "DATA_RX" /\ out_buf
  /\ xfer.setup = Asked /\ xfer.valid /\ xfer.requested = Asked.len
Receiving ==
  /\ Taking /\ hw.pkt = NoPacket
  /\ host.phase = "data" /\ xfer.actual = host.moved /\ host.moved < Asked.len
Received ==
  /\ Taking /\ hw.pkt = Out(hw.pkt.len) /\ hw.pkt.len > 0
  /\ xfer.actual + hw.pkt.len = host.moved /\ xfer.actual < Asked.len
  /\ host.phase = (IF host.moved >= Asked.len THEN "status" ELSE "data")
  /\ host.moved < Asked.len => hw.pkt.len = MPS

\* The empty packet of the status stage is armed.
Acknowledged ==
  /\ Fresh /\ hw.tx = "VALID" /\ hw.bd.len = 0 /\ in_len = 0 /\ ep # "DATA_TX"
  /\ Asked.dir = "OUT" /\ Asked.kind # "refuse" /\ host.phase = "status"

Stages == \/ SetupSent \/ Posted \/ Replying \/ Replied \/ Unanswered
          \/ Receiving \/ Received \/ Acknowledged
StageInv == host.phase # "idle" => ~hw.reset /\ Stages

\* Between two requests; a late completion ends the data stage and no more.
IdleInv ==
  /\ host.phase = "idle" => control_xfer = "null" /\ hw.pkt \in {NoPacket, BadSetup, Out(0)}
  /\ host.phase = "idle" /\ ~hw.reset /\ hw.txDone /\ ep = "DATA_TX" =>
       xfer.inLen <= MPS /\ ~xfer.zlp
  /\ hw.reset => host.addr = 0 /\ hw.pkt = NoPacket

\* No address, the host's address, or the host's once the completion of the
\* status packet is served.
NoAddress ==
  /\ ~addr.set /\ addr.daddr = 0
  /\ hw.txDone => in_len > 0
  /\ addr.dev = IF host.phase # "idle" /\ Acknowledged /\ Asked.kind = "address"
                  THEN Asked.addr ELSE 0
HasAddress ==
  \/ addr.set /\ addr.daddr = host.addr
  \/ /\ ~addr.set /\ addr.dev = host.addr /\ hw.txDone /\ host.phase = "idle"
     /\ in_len = 0 /\ ep # "DATA_TX"
AddrInv ==
  /\ ~hw.reset /\ host.addr = 0 => NoAddress
  /\ host.addr # 0 => HasAddress
  /\ host.phase # "idle" /\ host.addr = 0 => Asked \in EarlyRequests
  /\ host.phase # "idle" /\ Asked.kind = "address" => host.addr = 0

PatientInv ==
  /\ StageInv /\ IdleInv /\ AddrInv /\ RefusedIsNotAcknowledged /\ failed = "none"
UsbInv == TypeOK /\ MailboxInv /\ PatientInv

-----------------------------------------------------------------------------
(* Lengths and packets.                                                     *)

LEMMA ModUnique ==
  ASSUME NEW m \in Nat \ {0}, NEW k \in Int, NEW j \in Int,
         NEW r \in 0 .. m - 1, NEW s \in 0 .. m - 1, m * k + r = m * j + s
  PROVE  r = s
<1>1. CASE k = j
  BY <1>1
<1>2. CASE k < j
  <2>1. m * (k + 1) <= m * j
    BY <1>2
  <2>2. m * (k + 1) = m * k + m
    OBVIOUS
  <2> QED BY <2>1, <2>2
<1>3. CASE j < k
  <2>1. m * (j + 1) <= m * k
    BY <1>3
  <2>2. m * (j + 1) = m * j + m
    OBVIOUS
  <2> QED BY <2>1, <2>2
<1> QED BY <1>1, <1>2, <1>3

LEMMA ModStep ==
  ASSUME NEW m \in Nat \ {0}, NEW a \in Nat
  PROVE  ((a + m) % m) = (a % m)
<1>1. /\ (a % m) \in 0 .. m - 1 /\ a \div m \in Int
      /\ a = m * (a \div m) + (a % m)
  OBVIOUS
<1>2. /\ ((a + m) % m) \in 0 .. m - 1 /\ (a + m) \div m \in Int
      /\ a + m = m * ((a + m) \div m) + ((a + m) % m)
  <2>1. a + m \in Int
    OBVIOUS
  <2> QED BY <2>1
<1> DEFINE k == a \div m
           r == a % m
           j == (a + m) \div m
           s == (a + m) % m
<1>3. /\ k \in Int /\ j \in Int /\ r \in 0 .. m - 1 /\ s \in 0 .. m - 1
      /\ a = m * k + r /\ a + m = m * j + s
  BY <1>1, <1>2
<1> HIDE DEF k, r, j, s
<1>4. m * (k + 1) = m * k + m
  BY <1>3
<1>5. m * (k + 1) + r = m * j + s
  BY <1>3, <1>4
<1>6. k + 1 \in Int
  BY <1>3
<1>7. r = s
  BY <1>3, <1>5, <1>6, ModUnique
<1> QED BY <1>7 DEF r, s

LEMMA ModBelow ==
  ASSUME NEW m \in Nat \ {0}, NEW a \in 0 .. m - 1
  PROVE  (a % m) = a
<1>1. a \in Int /\ m \in Int /\ m > 0 /\ 0 <= a /\ a < m
  OBVIOUS
<1>2. /\ (a % m) \in 0 .. m - 1 /\ a \div m \in Int
      /\ a = m * (a \div m) + (a % m)
  BY <1>1
<1> DEFINE k == a \div m
           r == a % m
<1>3. k \in Int /\ r \in 0 .. m - 1 /\ a = m * k + r /\ m * 0 + a = m * k + r /\ 0 \in Int
  BY <1>1, <1>2
<1> HIDE DEF k, r
<1>4. r = a
  BY <1>3, ModUnique
<1> QED BY <1>4 DEF r

(* The last piece of a reply is a full packet if and only if the reply is a *)
(* number of full packets.                                                  *)
LEMMA LastPiece ==
  ASSUME NEW m \in Nat \ {0}, NEW p \in Nat, NEW n \in Nat, (p % m) = 0,
         p < n, n - p <= m
  PROVE  (n % m) = 0 <=> n - p = m
<1> DEFINE k == p \div m
           j == n \div m
           s == n % m
<1>1. /\ k \in Int /\ j \in Int /\ s \in 0 .. m - 1 /\ 0 \in 0 .. m - 1
      /\ p = m * k + 0 /\ n = m * j + s
  <2>1. (p % m) \in 0 .. m - 1 /\ p \div m \in Int /\ p = m * (p \div m) + (p % m)
    OBVIOUS
  <2>2. (n % m) \in 0 .. m - 1 /\ n \div m \in Int /\ n = m * (n \div m) + (n % m)
    OBVIOUS
  <2> QED BY <2>1, <2>2
<1> HIDE DEF k, j, s
<1>2. CASE n - p = m
  <2>1. m * (k + 1) = m * k + m
    BY <1>1
  <2>2. m * (k + 1) + 0 = m * j + s /\ k + 1 \in Int
    BY <1>1, <1>2, <2>1
  <2>3. s = 0
    BY <1>1, <2>2, ModUnique
  <2> QED BY <1>2, <2>3 DEF s
<1>3. CASE n - p # m
  <2>1. n - p \in 0 .. m - 1 /\ n = m * k + (n - p)
    BY <1>1, <1>3
  <2> DEFINE q == n - p
  <2>2. q \in 0 .. m - 1 /\ m * k + q = m * j + s
    BY <1>1, <2>1
  <2> HIDE DEF q
  <2>3. q = s
    BY <1>1, <2>2, ModUnique
  <2>4. s # 0
    BY <2>3 DEF q
  <2> QED BY <1>3, <2>4 DEF s
<1> QED BY <1>2, <1>3

LEMMA NextPiece ==
  ASSUME NEW m \in Nat \ {0}, NEW p \in Nat, NEW l \in Nat, NEW k \in Nat,
         k = l - p, k > m
  PROVE  LET n == Smaller(k - m, m)
         IN  /\ n \in Nat /\ n > 0 /\ k - n \in Nat
             /\ n = Smaller(m, l - (p + m)) /\ Smaller(n, m) = n
             /\ l - (p + m) > m => k - n = l - (p + m)
             /\ l - (p + m) <= m => k - n <= m
             /\ p + m \in Nat /\ p + m < l
<1>1. l - (p + m) = k - m
  OBVIOUS
<1>2. CASE k - m < m
  BY <1>1, <1>2 DEF Smaller
<1>3. CASE k - m >= m
  BY <1>1, <1>3 DEF Smaller
<1> QED BY <1>2, <1>3

-----------------------------------------------------------------------------
(* Types, and the steps that arm the endpoint.                              *)

LEMMA Fields ==
  ASSUME TypeOK
  PROVE  /\ hw \in HwType /\ host \in HostType /\ xfer \in XferType /\ addr \in AddrType
         /\ MPS \in Nat \ {0} /\ in_len \in Nat /\ hw.bd.len \in Nat /\ hw.bd.pos \in Nat
         /\ host.moved \in Nat /\ host.addr \in Nat /\ addr.dev \in Nat /\ addr.daddr \in Nat
         /\ xfer.pos \in Nat /\ xfer.inLen \in Nat /\ xfer.actual \in Nat
         /\ xfer.requested \in Nat /\ hw.pkt.len \in Nat
         /\ addr.set \in BOOLEAN /\ hw.txDone \in BOOLEAN /\ hw.reset \in BOOLEAN
         /\ Asked \in AnyRequest /\ Asked.len \in Nat /\ Asked.dir \in {"IN", "OUT"}
         /\ Length \in Nat
<1>1. Asked \in AnyRequest
  BY DEF TypeOK, HostType, Asked
<1>2. Asked.len \in Nat /\ Asked.dir \in {"IN", "OUT"} /\ Length \in Nat
  BY <1>1, RequestTypes, ReplyLenIsNat DEF Length
<1> HIDE DEF Asked, Length
<1>3. hw \in HwType /\ hw.bd.len \in Nat /\ hw.bd.pos \in Nat /\ hw.pkt.len \in Nat
      /\ hw.txDone \in BOOLEAN /\ hw.reset \in BOOLEAN
  BY DEF TypeOK, HwType, Packets
<1>4. host \in HostType /\ host.moved \in Nat /\ host.addr \in Nat
  BY DEF TypeOK, HostType
<1>5. /\ xfer \in XferType /\ xfer.pos \in Nat /\ xfer.inLen \in Nat /\ xfer.actual \in Nat
      /\ xfer.requested \in Nat
  BY DEF TypeOK, XferType
<1>6. /\ addr \in AddrType /\ addr.dev \in Nat /\ addr.daddr \in Nat /\ addr.set \in BOOLEAN
  BY DEF TypeOK, AddrType
<1> QED BY <1>1, <1>2, <1>3, <1>4, <1>5, <1>6, SizesAssumption DEF TypeOK

LEMMA PacketsDiffer ==
  /\ NoPacket.tag = "none" /\ BadSetup.tag = "bad"
  /\ \A r : Setup(r).tag = "setup" /\ Setup(r).req = r
  /\ \A n : Out(n).tag = "out" /\ Out(n).len = n
BY DEF NoPacket, BadSetup, Setup, Out

(* The last byte of the reply is sent exactly when the host has enough.     *)
LEMMA LastIsLast ==
  ASSUME TypeOK, Piece \/ Final, Asked.kind = "reply"
  PROVE  /\ Final => hw.bd.len < MPS
         /\ Piece /\ xfer.inLen > MPS =>
              /\ Length - xfer.pos > MPS /\ hw.bd.len = MPS
              /\ xfer.pos + MPS < Asked.len
         /\ Piece /\ xfer.inLen <= MPS /\ xfer.zlp =>
              /\ Length = xfer.pos + MPS /\ hw.bd.len = MPS /\ Length < Asked.len
         /\ Piece /\ xfer.inLen <= MPS /\ ~xfer.zlp =>
              hw.bd.len < MPS \/ xfer.pos + hw.bd.len >= Asked.len
<1>1. /\ MPS \in Nat \ {0} /\ xfer.pos \in Nat /\ Length \in Nat /\ Asked.len \in Nat
      /\ xfer.inLen \in Nat
  BY Fields
<1>2. Length <= Asked.len
  <2>1. Asked.size \in Nat /\ Asked.len \in Nat
    BY Fields, RequestTypes
  <2> QED BY <2>1, SmallerIsNat DEF Length, ReplyLen
<1>3. Final => hw.bd.len < MPS
  BY <1>1 DEF Final
<1>4. ASSUME Piece
      PROVE  /\ hw.bd.len = Smaller(MPS, Length - xfer.pos)
             /\ xfer.zlp = NeedsZlp(Length, Asked.len) /\ (xfer.pos % MPS) = 0
             /\ xfer.pos < Length \/ (xfer.pos = 0 /\ Length = 0)
             /\ Length - xfer.pos > MPS => xfer.inLen = Length - xfer.pos
             /\ Length - xfer.pos <= MPS => xfer.inLen <= MPS
  BY <1>4 DEF Piece
<1>5. ASSUME Piece, xfer.inLen > MPS
      PROVE  /\ Length - xfer.pos > MPS /\ hw.bd.len = MPS
             /\ xfer.pos + MPS < Asked.len
  BY <1>1, <1>2, <1>4, <1>5 DEF Smaller
<1>6. ASSUME Piece, xfer.inLen <= MPS
      PROVE  Length - xfer.pos <= MPS /\ hw.bd.len = Length - xfer.pos
  <2>1. Length - xfer.pos <= MPS
    BY <1>1, <1>4, <1>6
  <2> QED BY <1>1, <1>4, <1>6, <2>1 DEF Smaller
<1>7. ASSUME Piece, xfer.inLen <= MPS, xfer.zlp
      PROVE  Length = xfer.pos + MPS /\ hw.bd.len = MPS /\ Length < Asked.len
  <2>1. Length # 0 /\ Length # Asked.len /\ (Length % MPS) = 0
    BY <1>4, <1>7 DEF NeedsZlp
  <2>2. xfer.pos < Length /\ Length - xfer.pos <= MPS
    BY <1>4, <1>6, <1>7, <2>1
  <2>3. Length - xfer.pos = MPS
    BY <1>1, <1>4, <1>7, <2>1, <2>2, LastPiece
  <2> QED BY <1>1, <1>2, <1>6, <1>7, <2>1, <2>3
<1>8. ASSUME Piece, xfer.inLen <= MPS, ~xfer.zlp
      PROVE  hw.bd.len < MPS \/ xfer.pos + hw.bd.len >= Asked.len
  <2>1. Length = 0 \/ Length = Asked.len \/ (Length % MPS) # 0
    BY <1>4, <1>8 DEF NeedsZlp
  <2>2. Length - xfer.pos <= MPS /\ hw.bd.len = Length - xfer.pos
    BY <1>6, <1>8
  <2>3. CASE Length = 0 \/ Length = Asked.len
    BY <1>1, <1>4, <1>8, <2>2, <2>3
  <2>4. CASE (Length % MPS) # 0 /\ Length # 0
    <3>1. xfer.pos < Length
      BY <1>4, <1>8, <2>4
    <3>2. Length - xfer.pos # MPS
      BY <1>1, <1>4, <1>8, <2>2, <2>4, <3>1, LastPiece
    <3> QED BY <1>1, <2>2, <3>2
  <2> QED BY <2>1, <2>3, <2>4
<1> QED BY <1>3, <1>5, <1>7, <1>8

(* A step in the middle of a request, or one that ends it, keeps the         *)
(* address.                                                                 *)
LEMMA AddressKept ==
  ASSUME UsbInv, host.phase # "idle", ~Acknowledged, UNCHANGED addr,
         host'.addr = host.addr, host'.req = host.req,
         host'.phase # "idle" => ~Acknowledged' \/ Asked.kind # "address",
         host.addr = 0 /\ hw'.txDone => in_len' > 0
  PROVE  AddrInv'
<1>1. ~hw.reset /\ AddrInv /\ Asked' = Asked
  BY DEF UsbInv, PatientInv, StageInv, Asked
<1>2. host.addr = 0 => ~addr.set /\ addr.daddr = 0 /\ addr.dev = 0
  BY <1>1 DEF AddrInv, NoAddress
<1>3. host.addr # 0 => addr.set /\ addr.daddr = host.addr
  BY <1>1 DEF AddrInv, HasAddress
<1>4. host'.addr = 0 => NoAddress'
  BY <1>1, <1>2 DEF NoAddress
<1>5. host'.addr # 0 => HasAddress'
  BY <1>3 DEF HasAddress
<1>6. (host.phase # "idle" /\ host.addr = 0 => Asked \in EarlyRequests)'
  BY <1>1 DEF AddrInv
<1>7. (host.phase # "idle" /\ Asked.kind = "address" => host.addr = 0)'
  BY <1>1 DEF AddrInv
<1> QED BY <1>4, <1>5, <1>6, <1>7 DEF AddrInv

(* At address 0 no reply ends in a zero-length packet.                      *)
LEMMA EarlyReply ==
  ASSUME Patient, UsbInv, host.phase # "idle", Replying, host.addr = 0
  PROVE  Length > 0 /\ ~NeedsZlp(Length, Asked.len) /\ in_len > 0
<1>1. Asked \in EarlyRequests /\ Asked.dir = "IN" /\ Asked.kind = "reply"
  BY DEF UsbInv, PatientInv, AddrInv, Replying
<1>2. Length > 0 /\ ~NeedsZlp(Length, Asked.len)
  BY <1>1 DEF Patient, Length
<1> QED BY <1>2 DEF Replying, Piece, Final

LEMMA ReceiveFields ==
  ASSUME NEW h \in HwType, NEW n \in Nat
  PROVE  LET t == Receive(h, n)
         IN  /\ t.tx = h.tx /\ t.pkt = h.pkt /\ t.txDone = h.txDone /\ t.reset = h.reset
             /\ t.bd = h.bd /\ t \in HwType
<1>1. Receive(h, n) \in HwType
  BY DEF Receive, HwType, Status
<1>2. LET t == Receive(h, n)
      IN  /\ t.tx = h.tx /\ t.pkt = h.pkt /\ t.txDone = h.txDone /\ t.reset = h.reset
          /\ t.bd = h.bd
  BY DEF Receive, HwType
<1> QED BY <1>1, <1>2

LEMMA StallFields ==
  ASSUME NEW h \in HwType
  PROVE  LET t == Stall(h)
         IN  /\ t.tx = h.tx /\ t.rx = "STALL"
             /\ t.pkt = h.pkt /\ t.txDone = h.txDone /\ t.reset = h.reset /\ t \in HwType
BY DEF Stall, HwType, Status

LEMMA TransmitKeeps ==
  ASSUME NEW h \in HwType, NEW n, NEW from, NEW what
  PROVE  LET t == Transmit(h, n, from, what)
         IN  /\ t.tx = "VALID"
             /\ t.pkt = h.pkt /\ t.txDone = h.txDone /\ t.reset = h.reset
<1> DEFINE b == [len |-> Smaller(n, MPS), pos |-> from, data |-> what]
           p == IF n = 0 THEN h.pma ELSE "control"
<1>1. Transmit(h, n, from, what) = [h EXCEPT !.tx = "VALID", !.pma = p, !.bd = b]
  BY DEF Transmit
<1> HIDE DEF b, p
<1> QED BY <1>1 DEF HwType

LEMMA TransmitArms ==
  ASSUME NEW h \in HwType, NEW n, NEW from, NEW what
  PROVE  Transmit(h, n, from, what).bd
           = [len |-> Smaller(n, MPS), pos |-> from, data |-> what]
<1> DEFINE b == [len |-> Smaller(n, MPS), pos |-> from, data |-> what]
           p == IF n = 0 THEN h.pma ELSE "control"
<1>1. Transmit(h, n, from, what) = [h EXCEPT !.tx = "VALID", !.pma = p, !.bd = b]
  BY DEF Transmit
<1> HIDE DEF b, p
<1>2. Transmit(h, n, from, what).bd = b
  BY <1>1 DEF HwType
<1> QED BY <1>2 DEF b

-----------------------------------------------------------------------------
(* The host.                                                                *)

LEMMA HostInStep ==
  ASSUME Patient, UsbInv, HostIn
  PROVE  PatientInv'
<1> USE DEF UsbInv, PatientInv
<1>1. /\ TypeOK /\ hw \in HwType /\ host \in HostType
      /\ Asked \in AnyRequest /\ Asked.len \in Nat /\ Asked.dir \in {"IN", "OUT"}
      /\ hw.bd.len \in Nat /\ hw.bd.pos \in Nat /\ host.moved \in Nat /\ MPS \in Nat
  BY Fields
<1>2. /\ hw' = [hw EXCEPT !.tx = "NAK", !.txDone = TRUE]
      /\ hw.pkt = NoPacket /\ ~hw.reset /\ hw.tx = "VALID" /\ ~hw.txDone
      /\ addr.daddr = host.addr /\ AwaitsIn
      /\ UNCHANGED <<device, queue>>
  BY DEF HostIn, Reachable
<1>3. /\ hw'.tx = "NAK" /\ hw'.txDone /\ hw'.pkt = NoPacket /\ ~hw'.reset /\ hw'.bd = hw.bd
  BY <1>1, <1>2 DEF HwType
<1>4. /\ UNCHANGED <<ep, ack_mode, xfer, in_len, out_buf, addr, failed, control_xfer>>
  BY <1>2 DEF device, queue
<1>5. host.phase # "idle" /\ Stages /\ StageInv /\ AddrInv /\ RefusedIsNotAcknowledged
  BY <1>2 DEF AwaitsIn, StageInv
<1>6. CASE host.phase = "data"
  <2>1. /\ Asked.dir = "IN" /\ Replying /\ Armed
    BY <1>1, <1>2, <1>5, <1>6, PacketsDiffer DEF AwaitsIn, Stages, SetupSent, Posted, Replied,
       Unanswered, Receiving, Received, Taking, Acknowledged, Replying, Armed, Taken, Asked
  <2> DEFINE m == host.moved + hw.bd.len
             phase == IF hw.bd.len < MPS \/ m >= host.req.len THEN "status" ELSE "data"
  <2>2. host' = [host EXCEPT !.moved = m, !.phase = phase]
    BY <1>6 DEF HostIn
  <2>3. m \in Nat /\ phase \in {"status", "data"}
    BY <1>1
  <2>4. /\ host'.moved = m /\ host'.phase = phase /\ host'.req = host.req
        /\ host'.addr = host.addr /\ host'.outcome = host.outcome
    <3> HIDE DEF m, phase
    <3> QED BY <1>1, <2>2, <2>3 DEF HostType
  <2>5. Replying'
    <3>1. Taken'
      BY <1>3, <2>1, <2>4 DEF Taken, Armed, Asked
    <3>2. Piece \/ Final
      BY <2>1 DEF Replying
    <3>3. Piece' \/ Final'
      BY <1>3, <1>4, <2>4, <3>2 DEF Piece, Final, Length, Asked
    <3> QED BY <1>2, <1>3, <1>4, <2>1, <2>4, <3>1, <3>3 DEF Replying, Asked
  <2>6. StageInv'
    BY <1>3, <2>5 DEF StageInv, Stages
  <2>7. IdleInv'
    BY <1>3, <2>3, <2>4 DEF IdleInv
  <2>8. AddrInv'
    <3>3. host.addr = 0 => in_len > 0
      BY <1>5, <2>1, EarlyReply
    <3>4. ~Acknowledged /\ ~Acknowledged'
      BY <1>3, <2>1 DEF Acknowledged, Fresh
    <3> QED BY <1>4, <1>5, <2>4, <3>3, <3>4, AddressKept
  <2> QED BY <1>4, <1>5, <2>4, <2>6, <2>7, <2>8 DEF RefusedIsNotAcknowledged
<1>7. CASE host.phase = "status"
  <2>1. Acknowledged
    BY <1>1, <1>2, <1>5, <1>7, PacketsDiffer DEF AwaitsIn, Stages, SetupSent, Posted, Replied,
       Unanswered, Receiving, Received, Taking, Acknowledged, Replying, Armed, Taken, Asked
  <2> DEFINE a == IF host.req.kind = "address" THEN host.req.addr ELSE host.addr
  <2>2. host' = [host EXCEPT !.phase = "idle", !.outcome = "ok", !.addr = a]
    BY <1>7 DEF HostIn
  <2>3. a \in Nat
    BY <1>1, RequestTypes, Fields DEF Asked
  <2>4. /\ host'.phase = "idle" /\ host'.addr = a /\ host'.req = host.req
    <3> HIDE DEF a
    <3> QED BY <1>1, <2>2, <2>3 DEF HostType
  <2>5. AddrInv'
    <3>1. host.addr = 0 => Asked \in EarlyRequests /\ NoAddress
      BY <1>2, <1>5 DEF AddrInv
    <3>2. host.addr = 0 => Asked.kind = "address" /\ Asked.addr # 0
      BY <2>1, <3>1 DEF Patient, Acknowledged
    <3>3. Asked.kind = "address" => host.addr = 0
      BY <1>5 DEF AddrInv
    <3>4. CASE host.addr = 0
      <4>1. ~addr.set /\ addr.dev = Asked.addr
        BY <1>5, <2>1, <3>1, <3>2, <3>4 DEF NoAddress
      <4> QED BY <1>3, <1>4, <2>1, <2>4, <3>1, <3>2, <3>4, <4>1
               DEF AddrInv, HasAddress, Acknowledged, NoAddress, Asked
    <3>5. CASE host.addr # 0
      BY <1>4, <1>5, <2>4, <3>3, <3>5 DEF AddrInv, HasAddress, Asked
    <3> QED BY <3>4, <3>5
  <2>6. RefusedIsNotAcknowledged'
    BY <2>1, <2>4 DEF RefusedIsNotAcknowledged, Acknowledged, Asked
  <2>7. StageInv' /\ IdleInv'
    BY <1>3, <1>4, <2>1, <2>4 DEF StageInv, IdleInv, Acknowledged, Fresh
  <2> QED BY <1>4, <2>5, <2>6, <2>7
<1> QED BY <1>2, <1>6, <1>7, <1>1 DEF AwaitsIn

LEMMA HostOutDataStep ==
  ASSUME Patient, UsbInv, HostOutData
  PROVE  PatientInv'
<1> USE DEF UsbInv, PatientInv
<1>1. /\ hw \in HwType /\ host \in HostType /\ MPS \in Nat \ {0}
      /\ Asked.len \in Nat /\ Asked.dir \in {"IN", "OUT"} /\ host.moved \in Nat
      /\ xfer.actual \in Nat
  BY Fields
<1>2. /\ host.phase = "data" /\ Asked.dir = "OUT" /\ hw.pkt = NoPacket /\ hw.rx = "VALID"
      /\ StageInv /\ Stages /\ AddrInv /\ RefusedIsNotAcknowledged /\ ~hw.reset
  BY <1>1 DEF HostOutData, AwaitsOut, Reachable, StageInv, Asked
<1>3. Receiving
  BY <1>2, PacketsDiffer DEF Stages, SetupSent, Posted, Replying, Replied, Unanswered,
     Received, Acknowledged
<1>4. PICK n \in 1..MPS :
        /\ n = Smaller(MPS, host.req.len - host.moved) \/ n = MPS
        /\ hw' = [hw EXCEPT !.pkt = Out(n), !.rx = "NAK"]
        /\ host' = [host EXCEPT !.moved = @ + n,
                      !.phase = IF host.moved + n >= host.req.len
                                  THEN "status" ELSE "data"]
        /\ UNCHANGED <<device, queue>>
  BY DEF HostOutData
<1>5. UNCHANGED <<ep, ack_mode, xfer, in_len, out_buf, addr, failed, control_xfer>>
  BY <1>4 DEF device, queue
<1> DEFINE m == host.moved + n
           phase == IF m >= host.req.len THEN "status" ELSE "data"
<1>6. n \in Nat /\ n > 0 /\ m \in Nat /\ phase \in {"status", "data"}
  BY <1>1
<1>7. /\ host'.moved = m /\ host'.phase = phase /\ host'.req = host.req
      /\ host'.addr = host.addr /\ host'.outcome = host.outcome
  <2>1. host' = [host EXCEPT !.moved = m, !.phase = phase]
    BY <1>4
  <2> HIDE DEF m, phase
  <2> QED BY <1>1, <1>6, <2>1 DEF HostType
<1>8. /\ hw'.pkt = Out(n) /\ hw'.tx = hw.tx /\ hw'.txDone = hw.txDone
      /\ hw'.reset = hw.reset
  BY <1>1, <1>4 DEF HwType
<1>9. m < Asked.len => n = MPS
  BY <1>1, <1>3, <1>4, <1>6 DEF Smaller, Asked, Receiving
<1>10. Received'
  <2>1. Taking'
    BY <1>3, <1>5, <1>7, <1>8 DEF Receiving, Taking, Asked
  <2>2. (hw.pkt = Out(hw.pkt.len) /\ hw.pkt.len > 0)' /\ hw'.pkt.len = n
    BY <1>6, <1>8, PacketsDiffer
  <2>3. xfer.actual + n = m /\ xfer.actual < Asked.len /\ Asked' = Asked
    BY <1>3, <1>7 DEF Receiving, Asked
  <2>4. phase = (IF m >= Asked.len THEN "status" ELSE "data")
    BY DEF Asked
  <2> HIDE DEF m, phase
  <2> QED BY <1>5, <1>7, <1>9, <2>1, <2>2, <2>3, <2>4 DEF Received
<1>11. AddrInv'
  <2>1. ~Acknowledged /\ ~Acknowledged' /\ ~hw'.txDone
    BY <1>3, <1>8, <1>10 DEF Receiving, Received, Taking, Acknowledged
  <2> QED BY <1>2, <1>5, <1>7, <2>1, AddressKept
<1>12. IdleInv'
  BY <1>2, <1>6, <1>7, <1>8 DEF IdleInv
<1>13. StageInv' /\ RefusedIsNotAcknowledged'
  BY <1>2, <1>7, <1>8, <1>10 DEF StageInv, Stages, RefusedIsNotAcknowledged
<1> QED BY <1>5, <1>11, <1>12, <1>13

(* The host is done with its request, or gives it up: nothing of it is left *)
(* to be done by the device.                                                *)
LEMMA RequestEnds ==
  ASSUME UsbInv, host.phase # "idle", control_xfer = "null", ~Acknowledged,
         hw.pkt = NoPacket, hw.txDone => host.phase = "status",
         UNCHANGED <<device, queue>>,
         host'.phase = "idle", host'.addr = host.addr, host'.req = host.req,
         host'.outcome = "ok" => Asked.kind # "refuse",
         hw'.pkt \in {NoPacket, Out(0)}, hw'.txDone = hw.txDone, hw'.reset = hw.reset
  PROVE  PatientInv'
<1> USE DEF UsbInv, PatientInv
<1>1. UNCHANGED <<ep, ack_mode, xfer, in_len, out_buf, addr, failed, control_xfer>>
  BY DEF device, queue
<1>2. StageInv /\ Stages /\ AddrInv /\ ~hw.reset
  BY DEF StageInv
<1>3. StageInv' /\ RefusedIsNotAcknowledged'
  BY DEF StageInv, RefusedIsNotAcknowledged, Asked
<1>4. AddrInv'
  <2>1. host.addr = 0 /\ hw'.txDone => in_len' > 0
    BY <1>1, <1>2 DEF AddrInv, NoAddress
  <2> QED BY <1>1, <2>1, AddressKept
<1>5. hw.txDone /\ ep = "DATA_TX" => xfer.inLen <= MPS /\ ~xfer.zlp
  <2> SUFFICES ASSUME hw.txDone, ep = "DATA_TX" PROVE xfer.inLen <= MPS /\ ~xfer.zlp
    OBVIOUS
  <2>1. Replying /\ Taken
    BY <1>2 DEF Stages, SetupSent, Posted, Replying, Armed, Replied, Unanswered, Receiving,
       Received, Taking, Acknowledged, Fresh
  <2>2. /\ Piece \/ Final
        /\ Asked.kind = "reply" /\ host.phase = "status"
        /\ hw.bd.len < MPS \/ host.moved >= Asked.len
        /\ host.moved = hw.bd.pos + hw.bd.len
    BY <2>1 DEF Replying, Taken
  <2>3. /\ MPS \in Nat /\ xfer.inLen \in Nat /\ Asked.len \in Nat /\ Length \in Nat
        /\ xfer.pos \in Nat
    BY Fields
  <2>4. CASE Final
    BY <2>4 DEF Final
  <2>5. CASE Piece
    <3>1. hw.bd.pos = xfer.pos
      BY <2>5 DEF Piece
    <3>2. xfer.inLen <= MPS
      BY <2>2, <2>3, <2>5, <3>1, LastIsLast
    <3>3. ~xfer.zlp
      BY <2>2, <2>3, <2>5, <3>1, <3>2, LastIsLast
    <3> QED BY <3>2, <3>3
  <2> QED BY <2>2, <2>4, <2>5
<1>6. IdleInv'
  BY <1>1, <1>2, <1>5 DEF IdleInv
<1> QED BY <1>1, <1>3, <1>4, <1>6

LEMMA HostOutStatusStep ==
  ASSUME UsbInv, HostOutStatus
  PROVE  PatientInv'
<1>1. /\ hw \in HwType /\ host \in HostType /\ Asked.dir \in {"IN", "OUT"}
  BY Fields DEF UsbInv
<1>2. /\ host.phase = "status" /\ Asked.dir = "IN" /\ hw.pkt = NoPacket /\ Stages
  BY <1>1 DEF HostOutStatus, AwaitsOut, Reachable, Asked, UsbInv, PatientInv, StageInv
<1>3. Replying \/ Replied
  BY <1>2, PacketsDiffer DEF Stages, SetupSent, Posted, Unanswered, Receiving, Received,
     Taking, Acknowledged
<1>4. control_xfer = "null" /\ ~Acknowledged /\ Asked.kind # "refuse"
  BY <1>2, <1>3 DEF Replying, Replied, Fresh, Acknowledged
<1>5. /\ host'.phase = "idle" /\ host'.addr = host.addr /\ host'.req = host.req
  BY <1>1 DEF HostOutStatus, HostType
<1>6. hw'.pkt = Out(0) /\ hw'.txDone = hw.txDone /\ hw'.reset = hw.reset
  BY <1>1 DEF HostOutStatus, HwType
<1> QED BY <1>2, <1>4, <1>5, <1>6, RequestEnds DEF HostOutStatus

LEMMA HostSeesStallStep ==
  ASSUME UsbInv, HostSeesStall
  PROVE  PatientInv'
<1>1. /\ hw \in HwType /\ host \in HostType /\ Asked.dir \in {"IN", "OUT"}
  BY Fields DEF UsbInv
<1>2. /\ host.phase # "idle" /\ hw.pkt = NoPacket /\ Stages
      /\ (AwaitsIn /\ hw.tx = "STALL") \/ (AwaitsOut /\ hw.rx = "STALL")
  BY DEF HostSeesStall, Reachable, UsbInv, PatientInv, StageInv
<1>3. control_xfer = "null"
  BY <1>1, <1>2, PacketsDiffer DEF Stages, SetupSent, Posted, Replying, Replied, Unanswered,
     Receiving, Received, Taking, Acknowledged, Fresh, AwaitsIn, AwaitsOut, Asked
<1>4. ~Acknowledged
  BY <1>2 DEF Acknowledged, AwaitsIn, AwaitsOut, Asked
<1>5. hw.txDone => host.phase = "status"
  BY <1>1, <1>2 DEF Stages, SetupSent, Posted, Replying, Taken, Armed, Replied, Unanswered,
     Receiving, Received, Taking, Acknowledged, Fresh, AwaitsIn, AwaitsOut, Asked, HostType
<1>6. /\ host'.phase = "idle" /\ host'.addr = host.addr /\ host'.req = host.req
      /\ host'.outcome = "stall"
  BY <1>1 DEF HostSeesStall, HostType
<1> QED BY <1>2, <1>3, <1>4, <1>5, <1>6, RequestEnds DEF HostSeesStall

LEMMA HostGiveUpStep ==
  ASSUME Patient, UsbInv, HostGiveUp
  PROVE  PatientInv'
<1>1. /\ hw \in HwType /\ host \in HostType
  BY Fields DEF UsbInv
<1>2. /\ host.phase # "idle" /\ Stages /\ NoAnswer
  BY DEF HostGiveUp, Patient, UsbInv, PatientInv, StageInv
<1>3. addr.daddr = host.addr
  BY <1>2 DEF UsbInv, PatientInv, StageInv, AddrInv, NoAddress, HasAddress
<1>4. ~Acknowledged
  BY <1>2, <1>3 DEF NoAnswer, AwaitsIn, Acknowledged, Asked
<1>5. /\ host'.phase = "idle" /\ host'.addr = host.addr /\ host'.req = host.req
      /\ host'.outcome = "timeout"
  BY <1>1 DEF HostGiveUp, HostType
<1> QED BY <1>2, <1>4, <1>5, RequestEnds DEF HostGiveUp, NoAnswer, Settled

LEMMA BusResetStep ==
  ASSUME Patient, UsbInv, BusReset
  PROVE  PatientInv'
<1>1. /\ hw \in HwType /\ host \in HostType
  BY Fields DEF UsbInv
<1>2. control_xfer = "null" /\ hw.pkt = NoPacket /\ failed = "none" /\ UNCHANGED <<device, queue>>
  BY DEF BusReset, Patient, Settled, UsbInv, PatientInv
<1>3. hw'.reset /\ hw'.pkt = NoPacket
  BY <1>1, <1>2 DEF BusReset, HwType
<1>4. /\ host'.phase = "idle" /\ host'.addr = 0 /\ host'.req = host.req
      /\ host'.outcome = (IF host.phase = "idle" THEN host.outcome ELSE "reset")
  BY <1>1 DEF BusReset, HostType
<1>5. RefusedIsNotAcknowledged'
  BY <1>4 DEF RefusedIsNotAcknowledged, UsbInv, PatientInv
<1> QED BY <1>2, <1>3, <1>4, <1>5
        DEF PatientInv, StageInv, IdleInv, AddrInv, device, queue

LEMMA HostBadSetupStep ==
  ASSUME UsbInv, HostBadSetup
  PROVE  PatientInv'
<1> USE DEF UsbInv, PatientInv
<1>1. hw \in HwType /\ host.phase = "idle" /\ ~hw.reset /\ ~hw.txDone
  BY Fields DEF HostBadSetup, Settled
<1>2. hw'.pkt = BadSetup /\ ~hw'.txDone /\ ~hw'.reset
  BY <1>1 DEF HostBadSetup, HwType
<1>3. UNCHANGED <<ep, ack_mode, xfer, in_len, out_buf, addr, failed, control_xfer, host>>
  BY DEF HostBadSetup, device, queue
<1>4. control_xfer = "null" /\ AddrInv /\ RefusedIsNotAcknowledged
  BY DEF HostBadSetup, Settled
<1>5. AddrInv'
  BY <1>1, <1>2, <1>3, <1>4 DEF AddrInv, NoAddress, HasAddress, Asked
<1> QED BY <1>1, <1>2, <1>3, <1>4, <1>5 DEF StageInv, IdleInv, RefusedIsNotAcknowledged

LEMMA HostSetupStep ==
  ASSUME Patient, UsbInv, NEW r \in Requests, HostSetup(r)
  PROVE  PatientInv'
<1> USE DEF UsbInv, PatientInv
<1>1. hw \in HwType /\ host \in HostType /\ r \in AnyRequest
  BY Fields DEF AnyRequest
<1>2. /\ host.phase = "idle" /\ ~hw.reset /\ ~hw.txDone /\ control_xfer = "null"
      /\ host.addr = 0 => r \in EarlyRequests
      /\ r.kind = "address" => host.addr = 0
      /\ AddrInv
  BY DEF HostSetup, Reachable, Settled, Patient
<1>3. hw'.pkt = Setup(r) /\ hw'.tx = "NAK" /\ ~hw'.txDone /\ ~hw'.reset
  BY <1>1, <1>2 DEF HostSetup, HwType
<1> DEFINE phase == IF r.len = 0 THEN "status" ELSE "data"
<1>4. /\ host'.phase = phase /\ host'.req = r /\ host'.moved = 0
      /\ host'.addr = host.addr /\ host'.outcome = "none" /\ phase # "idle"
  <2>1. host' = [host EXCEPT !.phase = phase, !.req = r, !.moved = 0, !.outcome = "none"]
    BY DEF HostSetup
  <2>2. phase \in {"status", "data"}
    OBVIOUS
  <2> HIDE DEF phase
  <2> QED BY <1>1, <2>1, <2>2 DEF HostType
<1>5. UNCHANGED <<ep, ack_mode, xfer, in_len, out_buf, addr, failed, control_xfer>>
  BY DEF HostSetup, device, queue
<1>6. SetupSent'
  BY <1>2, <1>3, <1>4, <1>5 DEF SetupSent, Asked
<1>7. AddrInv'
  <2>1. host.addr = 0 => ~addr.set /\ addr.daddr = 0 /\ addr.dev = 0
    BY <1>2 DEF AddrInv, NoAddress
  <2>2. host.addr # 0 => addr.set /\ addr.daddr = host.addr
    BY <1>2 DEF AddrInv, HasAddress
  <2>3. ~Acknowledged'
    BY <1>3 DEF Acknowledged
  <2> QED BY <1>2, <1>3, <1>4, <1>5, <2>1, <2>2, <2>3 DEF AddrInv, NoAddress, HasAddress, Asked
<1>8. StageInv' /\ IdleInv' /\ RefusedIsNotAcknowledged'
  BY <1>3, <1>4, <1>6 DEF StageInv, Stages, IdleInv, RefusedIsNotAcknowledged
<1> QED BY <1>5, <1>7, <1>8

-----------------------------------------------------------------------------
(* The interrupt handlers.                                                  *)

LEMMA IsrSetupStep ==
  ASSUME UsbInv, IsrSetup
  PROVE  PatientInv'
<1> USE DEF UsbInv, PatientInv
<1> DEFINE h == [hw EXCEPT !.pkt = NoPacket]
           x == [xfer EXCEPT !.setup = Asked, !.actual = 0, !.valid = TRUE]
<1>1. /\ hw \in HwType /\ xfer \in XferType /\ Asked \in AnyRequest
      /\ Asked.len \in Nat /\ BufferSize \in Nat
  BY Fields, SizesAssumption
<1>2. hw.pkt.tag = "setup" /\ host.phase # "idle" /\ Stages /\ ~hw.reset
  BY PacketsDiffer DEF IsrSetup, IdleInv, StageInv
<1>3. SetupSent
  BY <1>2, PacketsDiffer DEF Stages, Posted, Replying, Replied, Unanswered, Receiving,
     Received, Acknowledged, Fresh
<1>4. OnSetup(Asked) /\ UNCHANGED <<in_len, addr, host>>
  BY <1>3, PacketsDiffer DEF IsrSetup, SetupSent
<1>5. Asked.dir = "IN" => Asked.len > 0
  BY <1>1, RequestsAssumption DEF AnyRequest, NoRequest
<1>6. /\ h \in HwType /\ h.pkt = NoPacket /\ h.tx = "NAK" /\ ~h.txDone /\ ~h.reset
  BY <1>1, <1>2, <1>3, PacketTypes DEF HwType, SetupSent
<1>7. x.setup = Asked /\ x.actual = 0 /\ x.valid /\ x \in XferType
  BY <1>1 DEF XferType
<1>8. Post => control_xfer' = "xfer" /\ failed' = failed
  BY <1>3 DEF Post, SetupSent
<1>9. Asked' = Asked /\ host' = host
  BY <1>4 DEF Asked
<1>10. CASE Asked.dir = "IN"
  <2>1. ep' = "DATA_TX" /\ ack_mode' = "DATA_IN" /\ xfer' = x /\ hw' = h /\ Post
    BY <1>4, <1>10 DEF OnSetup
  <2> HIDE DEF h, x
  <2>2. Posted'
    BY <1>3, <1>5, <1>6, <1>7, <1>8, <1>9, <1>10, <2>1 DEF Posted, SetupSent
  <2>3. ~Acknowledged /\ ~Acknowledged' /\ ~hw'.txDone /\ ~hw'.reset
    BY <1>3, <1>6, <2>1 DEF Acknowledged, SetupSent
  <2>4. AddrInv'
    BY <1>2, <1>4, <2>3, AddressKept
  <2> QED BY <1>2, <1>8, <1>9, <2>1, <2>2, <2>3, <2>4
          DEF StageInv, Stages, IdleInv, RefusedIsNotAcknowledged
<1>11. CASE Asked.dir = "OUT" /\ Asked.len = 0
  <2>1. ack_mode' = "SETUP" /\ xfer' = x /\ hw' = h /\ Post
    BY <1>1, <1>4, <1>11 DEF OnSetup
  <2> HIDE DEF h, x
  <2>2. Posted'
    BY <1>3, <1>6, <1>7, <1>8, <1>9, <1>11, <2>1 DEF Posted, SetupSent
  <2>3. ~Acknowledged /\ ~Acknowledged' /\ ~hw'.txDone /\ ~hw'.reset
    BY <1>3, <1>6, <2>1 DEF Acknowledged, SetupSent
  <2>4. AddrInv'
    BY <1>2, <1>4, <2>3, AddressKept
  <2> QED BY <1>2, <1>8, <1>9, <2>1, <2>2, <2>3, <2>4
          DEF StageInv, Stages, IdleInv, RefusedIsNotAcknowledged
<1>12. CASE Asked.dir = "OUT" /\ Asked.len > BufferSize
  <2>1. hw' = Stall(h) /\ UNCHANGED <<queue, failed>>
    BY <1>1, <1>4, <1>12 DEF OnSetup
  <2> HIDE DEF h, x
  <2>2. hw'.rx = "STALL" /\ hw'.tx = "NAK" /\ ~hw'.txDone /\ ~hw'.reset /\ hw'.pkt = NoPacket
    BY <1>6, <2>1, StallFields
  <2>3. Unanswered'
    BY <1>3, <1>9, <1>12, <2>1, <2>2 DEF Unanswered, Fresh, SetupSent, queue
  <2>4. ~Acknowledged /\ ~Acknowledged'
    BY <1>3, <2>2 DEF Acknowledged, SetupSent
  <2>5. AddrInv'
    BY <1>2, <1>4, <2>2, <2>4, AddressKept
  <2> QED BY <1>2, <1>9, <2>1, <2>2, <2>3, <2>5
          DEF StageInv, Stages, IdleInv, RefusedIsNotAcknowledged
<1>13. CASE Asked.dir = "OUT" /\ Asked.len \in 1..BufferSize
  <2> DEFINE y == [x EXCEPT !.requested = Asked.len, !.pos = 0]
  <2>1. /\ ep' = "DATA_RX" /\ hw' = Receive(h, Asked.len) /\ out_buf' = TRUE
        /\ xfer' = y /\ UNCHANGED <<queue, failed>>
    BY <1>1, <1>4, <1>13 DEF OnSetup
  <2> HIDE DEF h, x
  <2>2. y.setup = Asked /\ y.actual = 0 /\ y.valid /\ y.requested = Asked.len
    BY <1>1, <1>7 DEF XferType
  <2> HIDE DEF y
  <2>3. hw'.tx = "NAK" /\ ~hw'.txDone /\ ~hw'.reset /\ hw'.pkt = NoPacket
    BY <1>1, <1>6, <2>1, ReceiveFields
  <2>4. Receiving'
    BY <1>1, <1>3, <1>9, <1>13, <2>1, <2>2, <2>3 DEF Receiving, Taking, SetupSent, queue
  <2>5. ~Acknowledged /\ ~Acknowledged'
    BY <1>3, <2>3 DEF Acknowledged, SetupSent
  <2>6. AddrInv'
    BY <1>2, <1>4, <2>3, <2>5, AddressKept
  <2> QED BY <1>2, <1>9, <2>1, <2>3, <2>4, <2>6
          DEF StageInv, Stages, IdleInv, RefusedIsNotAcknowledged
<1> QED BY <1>1, <1>10, <1>11, <1>12, <1>13, RequestTypes

(* Between two requests, a packet that starts none is dropped.              *)
LEMMA IsrDropStep ==
  ASSUME UsbInv, IsrBadSetup \/ IsrStatusOut
  PROVE  PatientInv'
<1> USE DEF UsbInv, PatientInv
<1>1. hw \in HwType
  BY Fields
<1>2. UNCHANGED <<ep, ack_mode, xfer, in_len, out_buf, addr, failed, control_xfer, host>>
  BY DEF IsrBadSetup, IsrStatusOut, device, queue
<1>3. hw'.pkt = NoPacket /\ hw'.txDone = hw.txDone /\ hw'.reset = hw.reset
  <2>1. CASE IsrBadSetup
    <3>1. hw' = [hw EXCEPT !.pkt = NoPacket, !.rx = "STALL", !.tx = "STALL"]
      BY <2>1 DEF IsrBadSetup
    <3> QED BY <1>1, <3>1 DEF HwType
  <2>2. CASE IsrStatusOut
    <3>1. hw' = [hw EXCEPT !.pkt = NoPacket, !.rx = "VALID"]
      BY <2>2 DEF IsrStatusOut
    <3> QED BY <1>1, <3>1 DEF HwType
  <2> QED BY <2>1, <2>2
<1>4. hw.pkt.tag = "bad" \/ (hw.pkt.tag = "out" /\ hw.pkt.len = 0)
  BY DEF IsrBadSetup, IsrStatusOut
<1>5. host.phase = "idle" /\ ~hw.reset
  BY <1>4, PacketsDiffer DEF StageInv, Stages, SetupSent, Posted, Replying, Replied,
     Unanswered, Receiving, Received, Acknowledged, Fresh, IdleInv
<1>6. AddrInv'
  BY <1>2, <1>3, <1>5 DEF AddrInv, NoAddress, HasAddress, Asked
<1> QED BY <1>2, <1>3, <1>5, <1>6 DEF StageInv, IdleInv, RefusedIsNotAcknowledged

LEMMA IsrDataOutStep ==
  ASSUME UsbInv, IsrDataOut
  PROVE  PatientInv'
<1> USE DEF UsbInv, PatientInv
<1> DEFINE n == hw.pkt.len
           h == [hw EXCEPT !.pkt = NoPacket]
           x == [xfer EXCEPT !.actual = @ + n, !.data = xfer.setup]
<1>1. /\ hw \in HwType /\ xfer \in XferType /\ n \in Nat /\ MPS \in Nat
      /\ xfer.actual \in Nat /\ xfer.requested \in Nat /\ xfer.setup \in AnyRequest
      /\ Asked.len \in Nat /\ host.moved \in Nat
  BY Fields DEF XferType
<1>2. hw.pkt.tag = "out" /\ n > 0 /\ UNCHANGED <<ep, in_len, out_buf, addr, host>>
  BY DEF IsrDataOut
<1>3. host.phase # "idle" /\ Stages /\ ~hw.reset
  BY <1>2, PacketsDiffer DEF IdleInv, StageInv
<1>4. Received
  BY <1>2, <1>3, PacketsDiffer DEF Stages, SetupSent, Posted, Replying, Replied, Unanswered,
     Receiving, Acknowledged, Fresh
<1>5. OnDataOut(n)
  BY <1>4 DEF IsrDataOut, Received, Taking
<1>6. h \in HwType /\ h.pkt = NoPacket /\ h.tx = "NAK" /\ ~h.txDone /\ ~h.reset
  BY <1>1, <1>3, <1>4, PacketTypes DEF HwType, Received, Taking
<1>7. /\ x \in XferType /\ x.setup = Asked /\ x.valid /\ x.requested = Asked.len
      /\ x.actual = host.moved
  <2>1. x = [xfer EXCEPT !.actual = xfer.actual + n, !.data = xfer.setup]
    OBVIOUS
  <2>2. xfer.actual + n = host.moved
    BY <1>4 DEF Received
  <2> HIDE DEF x, n
  <2> QED BY <1>1, <1>4, <2>1, <2>2 DEF XferType, Received, Taking
<1>8. Post => control_xfer' = "xfer" /\ failed' = failed
  BY <1>4 DEF Post, Received, Taking
<1>9. Asked' = Asked /\ host' = host
  BY <1>2 DEF Asked
<1>10. CASE x.actual <= x.requested /\ LastPacket(x, n)
  <2> DEFINE y == [x EXCEPT !.valid = TRUE]
  <2>1. xfer' = y /\ ack_mode' = "DATA_OUT" /\ hw' = h /\ Post
    BY <1>1, <1>5, <1>7, <1>10 DEF OnDataOut
  <2>2. host.moved >= Asked.len
    BY <1>1, <1>4, <1>7, <1>10 DEF LastPacket, Received
  <2> HIDE DEF h, x, n
  <2>3. y.setup = Asked /\ y.valid /\ y.actual = host.moved
    BY <1>7 DEF XferType
  <2> HIDE DEF y
  <2>4. /\ host.phase = "status" /\ Asked.dir = "OUT" /\ Asked.len # 0
    BY <1>1, <1>4, <2>2 DEF Received, Taking
  <2>5. Posted'
    BY <1>6, <1>8, <1>9, <2>1, <2>3, <2>4 DEF Posted
  <2>6. ~Acknowledged /\ ~Acknowledged' /\ ~hw'.txDone /\ ~hw'.reset
    BY <1>4, <1>6, <2>1 DEF Acknowledged, Received, Taking
  <2>7. AddrInv'
    BY <1>2, <1>3, <2>6, AddressKept
  <2> QED BY <1>3, <1>8, <1>9, <2>1, <2>5, <2>6, <2>7
          DEF StageInv, Stages, IdleInv, RefusedIsNotAcknowledged
<1>11. CASE x.actual <= x.requested /\ ~LastPacket(x, n)
  <2> DEFINE y == [x EXCEPT !.pos = @ + MPS]
  <2>1. xfer' = y /\ hw' = Receive(h, MPS) /\ UNCHANGED <<ack_mode, queue, failed>>
    BY <1>1, <1>5, <1>7, <1>11 DEF OnDataOut
  <2>2. host.moved < Asked.len
    BY <1>1, <1>7, <1>11 DEF LastPacket
  <2> HIDE DEF h, x, n
  <2>3. y.setup = Asked /\ y.valid /\ y.actual = host.moved /\ y.requested = Asked.len
    BY <1>7 DEF XferType
  <2> HIDE DEF y
  <2>4. hw'.tx = "NAK" /\ ~hw'.txDone /\ ~hw'.reset /\ hw'.pkt = NoPacket
    <3> DEFINE w == Receive(h, MPS)
    <3>1. w.tx = "NAK" /\ ~w.txDone /\ ~w.reset /\ w.pkt = NoPacket
      <4>1. MPS \in Nat
        BY <1>1
      <4> QED BY <1>6, <4>1, ReceiveFields
    <3>2. hw' = w
      BY <2>1
    <3> HIDE DEF w
    <3> QED BY <3>1, <3>2
  <2>5. host.phase = "data"
    BY <1>1, <1>4, <2>2 DEF Received
  <2>6. Receiving'
    BY <1>2, <1>4, <1>9, <2>1, <2>2, <2>3, <2>4, <2>5 DEF Receiving, Received, Taking, queue
  <2>7. ~Acknowledged /\ ~Acknowledged'
    BY <1>4, <2>4 DEF Acknowledged, Received, Taking
  <2>8. AddrInv'
    BY <1>2, <1>3, <2>4, <2>7, AddressKept
  <2> QED BY <1>3, <1>9, <2>1, <2>4, <2>6, <2>8
          DEF StageInv, Stages, IdleInv, RefusedIsNotAcknowledged
<1>12. CASE x.actual > x.requested
  <2>1. hw' = h /\ UNCHANGED <<ack_mode, queue, failed>>
    BY <1>1, <1>5, <1>7, <1>12 DEF OnDataOut
  <2>2. host.moved > Asked.len
    BY <1>7, <1>12
  <2> HIDE DEF h, x, n
  <2>3. host.phase = "status"
    BY <1>1, <1>4, <2>2 DEF Received
  <2>4. Unanswered'
    BY <1>4, <1>6, <1>9, <2>1, <2>3 DEF Unanswered, Fresh, Received, Taking, queue
  <2>5. ~Acknowledged /\ ~Acknowledged' /\ ~hw'.txDone /\ ~hw'.reset
    BY <1>4, <1>6, <2>1 DEF Acknowledged, Received, Taking
  <2>6. AddrInv'
    BY <1>2, <1>3, <2>5, AddressKept
  <2> QED BY <1>3, <1>9, <2>1, <2>4, <2>5, <2>6
          DEF StageInv, Stages, IdleInv, RefusedIsNotAcknowledged
<1> QED BY <1>1, <1>7, <1>10, <1>11, <1>12

LEMMA IsrResetStep ==
  ASSUME UsbInv, IsrReset
  PROVE  PatientInv'
<1> USE DEF UsbInv, PatientInv
<1>1. hw \in HwType /\ addr \in AddrType
  BY Fields
<1>2. hw.reset /\ hw.pkt = NoPacket /\ ~hw.txDone /\ host.phase = "idle" /\ host.addr = 0
  BY DEF IsrReset, StageInv, IdleInv
<1>3. ~hw'.reset /\ hw'.pkt = NoPacket /\ ~hw'.txDone
  BY <1>1, <1>2 DEF IsrReset, HwType
<1>4. ~addr'.set /\ addr'.daddr = 0 /\ addr'.dev = 0
  BY DEF IsrReset, SetDeviceAddress
<1>5. control_xfer = "null" /\ UNCHANGED <<control_xfer, host, failed>>
  BY <1>2 DEF IsrReset, IdleInv, queue
<1>6. AddrInv'
  BY <1>2, <1>3, <1>4, <1>5 DEF AddrInv, NoAddress, Asked
<1> QED BY <1>2, <1>3, <1>5, <1>6 DEF StageInv, IdleInv, RefusedIsNotAcknowledged

(* A completion in the middle of a reply: the next packet, the zero-length  *)
(* packet after the last, or the end.                                       *)
LEMMA IsrTxReplyStep ==
  ASSUME Patient, UsbInv, IsrTx, host.phase # "idle"
  PROVE  PatientInv'
<1> USE DEF UsbInv, PatientInv
<1> DEFINE g == [hw EXCEPT !.txDone = FALSE]
           h == Receive(g, 0)
<1>1. /\ hw \in HwType /\ xfer \in XferType /\ MPS \in Nat \ {0} /\ in_len \in Nat
      /\ xfer.inLen \in Nat /\ xfer.pos \in Nat /\ Length \in Nat /\ Asked.len \in Nat
      /\ xfer.data \in AnyRequest /\ host.moved \in Nat /\ Asked \in AnyRequest
  BY Fields DEF XferType
<1>2. /\ hw.txDone /\ hw.pkt = NoPacket /\ UNCHANGED <<ack_mode, queue, host, failed>>
      /\ OnDataIn([hw EXCEPT !.txDone = FALSE])
      /\ addr' = IF in_len' = 0 /\ ~addr.set
                   THEN [addr EXCEPT !.daddr = addr.dev, !.set = TRUE] ELSE addr
  BY DEF IsrTx
<1>3. Stages /\ ~hw.reset /\ StageInv
  BY DEF StageInv
<1>4. Replying /\ Taken
  BY <1>2, <1>3 DEF Stages, SetupSent, Posted, Replying, Armed, Replied, Unanswered,
     Receiving, Received, Taking, Acknowledged, Fresh
<1>5. /\ Piece \/ Final
      /\ Asked.kind = "reply" /\ Asked.dir = "IN" /\ ep = "DATA_TX" /\ control_xfer = "null"
      /\ host.moved = hw.bd.pos + hw.bd.len
      /\ host.phase = (IF hw.bd.len < MPS \/ host.moved >= Asked.len
                         THEN "status" ELSE "data")
  BY <1>4 DEF Replying, Taken
<1>6. Asked' = Asked /\ host' = host /\ Length' = Length
  BY <1>2 DEF Asked, Length
<1>7. ~Acknowledged /\ Asked.kind # "address"
  BY <1>2, <1>5 DEF Acknowledged, Fresh
<1>8. /\ h.pkt = NoPacket /\ ~h.txDone /\ ~h.reset /\ h \in HwType
  <2>1. g \in HwType /\ g.pkt = NoPacket /\ ~g.txDone /\ ~g.reset
    BY <1>1, <1>2, <1>3 DEF HwType
  <2> HIDE DEF g
  <2> QED BY <2>1, ReceiveFields
<1>9. ASSUME ~hw'.txDone, ~hw'.reset, (Replying \/ Replied)',
             host.addr = 0 => in_len' # 0
      PROVE  PatientInv'
  <2>1. host.addr # 0 => addr.set
    BY <1>3 DEF AddrInv, HasAddress
  <2>2. UNCHANGED addr
    BY <1>2, <1>9, <2>1
  <2>3. AddrInv'
    BY <1>2, <1>6, <1>7, <1>9, <2>2, AddressKept
  <2> QED BY <1>2, <1>6, <1>9, <2>3 DEF StageInv, Stages, IdleInv, RefusedIsNotAcknowledged
<1>10. CASE xfer.inLen > MPS
  <2> DEFINE n == Smaller(xfer.inLen - MPS, MPS)
             x == [xfer EXCEPT !.pos = @ + MPS, !.inLen = @ - n]
  <2>1. /\ xfer' = x /\ in_len' = n /\ UNCHANGED ep
        /\ hw' = Transmit(h, n, x.pos, x.data)
    BY <1>1, <1>2, <1>5, <1>10 DEF OnDataIn
  <2>2. Piece
    BY <1>1, <1>5, <1>10 DEF Final
  <2>3. /\ Length - xfer.pos > MPS /\ hw.bd.len = MPS /\ xfer.pos + MPS < Asked.len
    BY <1>5, <1>10, <2>2, LastIsLast
  <2>4. /\ hw.bd.pos = xfer.pos /\ xfer.inLen = Length - xfer.pos /\ xfer.data = Asked
        /\ xfer.zlp = NeedsZlp(Length, Asked.len) /\ (xfer.pos % MPS) = 0
    BY <2>2, <2>3 DEF Piece
  <2>5. /\ n \in Nat /\ n > 0 /\ xfer.inLen - n \in Nat
        /\ n = Smaller(MPS, Length - (xfer.pos + MPS)) /\ Smaller(n, MPS) = n
        /\ Length - (xfer.pos + MPS) > MPS => xfer.inLen - n = Length - (xfer.pos + MPS)
        /\ Length - (xfer.pos + MPS) <= MPS => xfer.inLen - n <= MPS
        /\ xfer.pos + MPS \in Nat /\ xfer.pos + MPS < Length
    <3> DEFINE k == xfer.inLen
               p == xfer.pos
               l == Length
    <3>1. k \in Nat /\ p \in Nat /\ l \in Nat /\ MPS \in Nat \ {0} /\ k = l - p /\ k > MPS
      BY <1>1, <1>10, <2>4
    <3> QED BY <3>1, NextPiece
  <2>6. ((xfer.pos + MPS) % MPS) = 0
    BY <1>1, <2>4, ModStep
  <2> HIDE DEF n, h
  <2>7. /\ x.pos = xfer.pos + MPS /\ x.inLen = xfer.inLen - n /\ x.data = Asked
        /\ x.zlp = xfer.zlp
    BY <1>1, <2>4, <2>5 DEF XferType
  <2> HIDE DEF x
  <2>8. /\ hw'.tx = "VALID" /\ ~hw'.txDone /\ ~hw'.reset /\ hw'.pkt = NoPacket
        /\ hw'.bd = [len |-> n, pos |-> xfer.pos + MPS, data |-> Asked]
    BY <1>1, <1>8, <2>1, <2>5, <2>7, TransmitKeeps, TransmitArms
  <2>9. Piece'
    <3>1. /\ hw'.bd = [len |-> Smaller(MPS, Length - xfer'.pos), pos |-> xfer'.pos,
                       data |-> Asked]
          /\ xfer'.data = Asked /\ xfer'.zlp = NeedsZlp(Length, Asked.len)
          /\ (xfer'.pos % MPS) = 0 /\ xfer'.pos < Length
      BY <2>1, <2>4, <2>5, <2>6, <2>7, <2>8
    <3>2. /\ Length - xfer'.pos > MPS => xfer'.inLen = Length - xfer'.pos
          /\ Length - xfer'.pos <= MPS => xfer'.inLen <= MPS
          /\ Length > 0 => in_len' > 0
      BY <2>1, <2>5, <2>7
    <3> QED BY <1>6, <3>1, <3>2 DEF Piece
  <2>10. host.phase = "data" /\ host.moved = xfer.pos + MPS
    BY <1>1, <1>5, <2>3, <2>4
  <2>11. Armed'
    BY <1>6, <2>8, <2>10 DEF Armed
  <2>12. Replying'
    BY <1>2, <1>5, <1>6, <2>1, <2>8, <2>9, <2>11 DEF Replying, queue
  <2> QED BY <1>9, <2>1, <2>5, <2>8, <2>12
<1>11. CASE xfer.inLen <= MPS /\ xfer.zlp
  <2> DEFINE x == [xfer EXCEPT !.zlp = FALSE]
             end == xfer.pos + MPS
  <2>1. /\ xfer' = x /\ in_len' = 0 /\ UNCHANGED ep
        /\ hw' = Transmit(h, 0, end, xfer.data)
    BY <1>1, <1>2, <1>5, <1>11 DEF OnDataIn
  <2>2. Piece
    BY <1>5, <1>11 DEF Final
  <2>3. /\ Length = xfer.pos + MPS /\ hw.bd.len = MPS /\ Length < Asked.len
    BY <1>5, <1>11, <2>2, LastIsLast
  <2>4. /\ hw.bd.pos = xfer.pos /\ xfer.data = Asked /\ NeedsZlp(Length, Asked.len)
    BY <1>11, <2>2 DEF Piece
  <2>5. host.addr # 0
    BY <1>4, <2>4, EarlyReply
  <2>6. end \in Nat /\ end = Length /\ Smaller(0, MPS) = 0
    BY <1>1, <2>3 DEF Smaller
  <2>7. ~x.zlp /\ x.inLen = xfer.inLen
    BY <1>1 DEF XferType
  <2> HIDE DEF x, h, end
  <2>8. /\ hw'.tx = "VALID" /\ ~hw'.txDone /\ ~hw'.reset /\ hw'.pkt = NoPacket
        /\ hw'.bd = [len |-> 0, pos |-> Length, data |-> Asked]
    BY <1>1, <1>8, <2>1, <2>4, <2>6, TransmitKeeps, TransmitArms
  <2>9. Final'
    BY <1>6, <1>11, <2>1, <2>4, <2>7, <2>8 DEF Final
  <2>10. host.phase = "data" /\ host.moved = Length
    BY <1>1, <1>5, <2>3, <2>4
  <2>11. Armed'
    BY <1>6, <2>8, <2>10 DEF Armed
  <2>12. Replying'
    BY <1>2, <1>5, <1>6, <2>1, <2>8, <2>9, <2>11 DEF Replying, queue
  <2> QED BY <1>9, <2>5, <2>8, <2>12
<1>12. CASE xfer.inLen <= MPS /\ ~xfer.zlp
  <2>1. hw' = h /\ UNCHANGED in_len
    BY <1>1, <1>2, <1>5, <1>12 DEF OnDataIn
  <2>2. host.phase = "status"
    <3>1. CASE Final
      BY <1>5, <3>1, LastIsLast
    <3>2. CASE Piece
      <4>1. hw.bd.pos = xfer.pos
        BY <3>2 DEF Piece
      <4> QED BY <1>5, <1>12, <3>2, <4>1, LastIsLast
    <3> QED BY <1>5, <3>1, <3>2
  <2> HIDE DEF h
  <2>3. ~hw'.txDone /\ ~hw'.reset /\ hw'.pkt = NoPacket
    BY <1>8, <2>1
  <2>4. Replied'
    BY <1>2, <1>5, <1>6, <2>2, <2>3 DEF Replied, Fresh, queue
  <2>5. host.addr = 0 => in_len # 0
    BY <1>1, <1>4, EarlyReply
  <2> QED BY <1>9, <2>1, <2>3, <2>4, <2>5
<1> QED BY <1>1, <1>10, <1>11, <1>12

(* What every completion does to the registers.                             *)
LEMMA IsrTxRegisters ==
  ASSUME TypeOK, IsrTx
  PROVE  hw'.pkt = NoPacket /\ ~hw'.txDone /\ hw'.reset = hw.reset
<1> DEFINE g == [hw EXCEPT !.txDone = FALSE]
<1>1. hw \in HwType
  BY Fields
<1>2. hw.pkt = NoPacket /\ OnDataIn(g)
  BY DEF IsrTx
<1>3. g \in HwType /\ g.pkt = NoPacket /\ ~g.txDone /\ g.reset = hw.reset
  BY <1>1, <1>2 DEF HwType
<1> DEFINE w == Receive(g, 0)
<1>4. hw' = g \/ hw' = w \/ \E n, from, what : hw' = Transmit(w, n, from, what)
  BY <1>2 DEF OnDataIn
<1> HIDE DEF g
<1>5. w \in HwType /\ w.pkt = NoPacket /\ ~w.txDone /\ w.reset = hw.reset
  BY <1>3, ReceiveFields
<1> HIDE DEF w
<1> QED BY <1>3, <1>4, <1>5, TransmitKeeps

(* A completion that comes after the host is done: of the last packet of a  *)
(* reply, or of the status packet, after which the new address is used.     *)
LEMMA IsrTxLateStep ==
  ASSUME UsbInv, IsrTx, host.phase = "idle"
  PROVE  PatientInv'
<1> USE DEF UsbInv, PatientInv
<1> DEFINE g == [hw EXCEPT !.txDone = FALSE]
<1>1. /\ hw \in HwType /\ addr \in AddrType /\ MPS \in Nat /\ in_len \in Nat
      /\ xfer.inLen \in Nat
  BY Fields
<1>2. /\ hw.txDone /\ hw.pkt = NoPacket /\ UNCHANGED <<ack_mode, queue, host, failed>>
      /\ OnDataIn(g)
      /\ addr' = IF in_len' = 0 /\ ~addr.set
                   THEN [addr EXCEPT !.daddr = addr.dev, !.set = TRUE] ELSE addr
  BY DEF IsrTx
<1>4. control_xfer = "null" /\ (hw.reset => host.addr = 0) /\ UNCHANGED control_xfer
  BY <1>2 DEF IdleInv, queue
<1>5. /\ hw'.pkt = NoPacket /\ ~hw'.txDone /\ hw'.reset = hw.reset
  BY IsrTxRegisters
<1>6. AddrInv'
  <2>1. CASE hw.reset
    BY <1>2, <1>4, <1>5, <2>1 DEF AddrInv
  <2>2. CASE ~hw.reset
    <3>1. in_len' = in_len
      BY <1>1, <1>2, <2>2 DEF OnDataIn, IdleInv
    <3>2. CASE host.addr = 0
      <4>1. addr' = addr
        BY <1>1, <1>2, <2>2, <3>1, <3>2 DEF AddrInv, NoAddress
      <4> QED BY <1>2, <1>5, <2>2, <3>2, <4>1 DEF AddrInv, NoAddress
    <3>3. CASE host.addr # 0
      <4>1. addr'.set /\ addr'.daddr = host.addr
        BY <1>1, <1>2, <3>1, <3>3 DEF AddrInv, HasAddress, AddrType
      <4> QED BY <1>2, <3>3, <4>1 DEF AddrInv, HasAddress
    <3> QED BY <3>2, <3>3
  <2> QED BY <2>1, <2>2
<1> QED BY <1>2, <1>4, <1>5, <1>6 DEF StageInv, IdleInv, RefusedIsNotAcknowledged, Asked

-----------------------------------------------------------------------------
(* The control thread.                                                      *)

(* ack_ctrl finds the mode of the request: nothing more to send after an IN *)
(* request, the empty packet of the status stage after an OUT one.          *)
LEMMA AckCtrlAnswers ==
  ASSUME UsbInv, Posted, NEW h \in HwType, NEW n \in Nat, AckCtrl(h, n),
         h.pkt = NoPacket, ~h.txDone, ~h.reset
  PROVE  /\ failed' = failed
         /\ Asked.dir = "IN" => hw' = h /\ in_len' = n /\ UNCHANGED ep
         /\ Asked.dir = "OUT" =>
              /\ hw'.tx = "VALID" /\ hw'.bd.len = 0 /\ hw'.pkt = NoPacket
              /\ ~hw'.txDone /\ ~hw'.reset /\ in_len' = 0 /\ ep' # "DATA_TX"
<1>1. CASE Asked.dir = "IN"
  <2>1. ack_mode = "DATA_IN"
    BY <1>1 DEF Posted
  <2> QED BY <1>1, <2>1 DEF AckCtrl
<1>2. CASE Asked.dir = "OUT"
  <2>1. ack_mode \in {"SETUP", "DATA_OUT"}
    BY <1>2 DEF Posted
  <2>2. /\ hw' = Transmit(h, 0, 0, xfer.setup) /\ in_len' = 0 /\ failed' = failed
        /\ ep' # "DATA_TX"
    BY <2>1 DEF AckCtrl
  <2>3. hw'.tx = "VALID" /\ hw'.pkt = NoPacket /\ ~hw'.txDone /\ ~hw'.reset
    BY <2>2, TransmitKeeps
  <2>4. hw'.bd = [len |-> Smaller(0, MPS), pos |-> 0, data |-> xfer.setup]
    BY <2>2, TransmitArms
  <2>5. MPS \in Nat
    BY SizesAssumption
  <2> QED BY <1>2, <2>2, <2>3, <2>4, <2>5 DEF Smaller
<1> QED BY <1>1, <1>2, Fields DEF UsbInv

LEMMA ThreadHandleStep ==
  ASSUME Patient, UsbInv, ThreadHandle
  PROVE  PatientInv'
<1> USE DEF UsbInv, PatientInv
<1>1. /\ hw \in HwType /\ xfer \in XferType /\ addr \in AddrType /\ in_len \in Nat
      /\ Asked \in AnyRequest /\ Asked.dir \in {"IN", "OUT"} /\ Asked.len \in Nat
      /\ Length \in Nat /\ MPS \in Nat \ {0}
  BY Fields
<1>2. /\ control_xfer = "xfer" /\ ~hw.txDone /\ control_xfer' = "null"
      /\ UNCHANGED <<sema, out_buf, host>>
  BY DEF ThreadHandle, MailboxInv, MailboxHasOneToken
<1>3. host.phase # "idle" /\ Stages /\ ~hw.reset
  BY <1>2 DEF IdleInv, StageInv
<1>4. Posted
  BY <1>2, <1>3 DEF Stages, SetupSent, Replying, Replied, Unanswered, Receiving, Received,
     Taking, Acknowledged, Fresh
<1>5. /\ xfer.setup = Asked /\ xfer.valid /\ hw.pkt = NoPacket /\ hw.tx = "NAK"
      /\ Asked.dir = "IN" => ep = "DATA_TX" /\ host.phase = "data" /\ host.moved = 0
      /\ Asked.dir = "OUT" => host.phase = "status"
  BY <1>1, <1>4 DEF Posted
<1>6. \/ Reply(Asked) \/ Accept(Asked) \/ SetAddress(Asked) \/ Refuse(Asked)
      \/ StallAndAck(Asked)
  BY <1>5 DEF ThreadHandle, Skip
<1>7. /\ Asked.kind = "reply" => Asked.dir = "IN"
      /\ Asked.kind = "address" => Asked.dir = "OUT"
  BY <1>1, RequestsAssumption DEF AnyRequest, NoRequest
<1>8. Asked' = Asked /\ Length' = Length
  BY <1>2 DEF Asked, Length
<1>9. ~Acknowledged
  BY <1>5 DEF Acknowledged
<1>10. ASSUME failed' = failed, ~hw'.txDone, ~hw'.reset,
              (Replying \/ Unanswered \/ Acknowledged)', AddrInv'
       PROVE  PatientInv'
  BY <1>2, <1>3, <1>8, <1>10 DEF StageInv, Stages, IdleInv, RefusedIsNotAcknowledged
<1>11. ASSUME failed' = failed, ~hw'.txDone, ~hw'.reset, UNCHANGED addr,
              (Replying \/ Unanswered \/ Acknowledged)',
              Acknowledged' => Asked.kind # "address"
       PROVE  PatientInv'
  <2>1. AddrInv'
    BY <1>2, <1>3, <1>9, <1>11, AddressKept
  <2> QED BY <1>10, <1>11, <2>1
<1>12. ASSUME hw'.tx = "NAK", hw'.pkt = NoPacket, ~hw'.txDone
       PROVE  Unanswered'
  BY <1>2, <1>5, <1>8, <1>12 DEF Unanswered, Fresh
<1>13. ASSUME Asked.dir = "OUT", Asked.kind # "refuse", hw'.tx = "VALID", hw'.bd.len = 0,
              hw'.pkt = NoPacket, ~hw'.txDone, in_len' = 0, ep' # "DATA_TX"
       PROVE  Acknowledged'
  BY <1>2, <1>5, <1>8, <1>13 DEF Acknowledged, Fresh
<1>14. ASSUME NEW h \in HwType, AckCtrl(h, in_len), h.tx = "NAK",
              h.pkt = NoPacket, ~h.txDone, ~h.reset,
              UNCHANGED addr, Asked.kind \in {"accept", "unset", "stall_ack"}
       PROVE  PatientInv'
  <2>1. CASE Asked.dir = "IN"
    <3>1. failed' = failed /\ hw' = h
      BY <1>1, <1>4, <1>14, <2>1, AckCtrlAnswers
    <3>2. Unanswered'
      BY <1>12, <1>14, <3>1
    <3> QED BY <1>11, <1>14, <3>1, <3>2
  <2>2. CASE Asked.dir = "OUT"
    <3>1. /\ failed' = failed /\ hw'.tx = "VALID" /\ hw'.bd.len = 0 /\ hw'.pkt = NoPacket
          /\ ~hw'.txDone /\ ~hw'.reset /\ in_len' = 0 /\ ep' # "DATA_TX"
      BY <1>1, <1>4, <1>14, <2>2, AckCtrlAnswers
    <3>2. Acknowledged'
      BY <1>13, <1>14, <2>2, <3>1
    <3> QED BY <1>11, <1>14, <3>1, <3>2
  <2> QED BY <1>1, <2>1, <2>2
<1>15. Stall(hw) \in HwType /\ Stall(hw).tx = "NAK" /\ Stall(hw).pkt = NoPacket
       /\ ~Stall(hw).txDone /\ ~Stall(hw).reset
  BY <1>1, <1>2, <1>3, <1>5, StallFields
<1>16. CASE Reply(Asked)
  <2> DEFINE x == [xfer EXCEPT !.zlp = NeedsZlp(Length, Asked.len), !.actual = 0,
                     !.requested = Length, !.inLen = Length, !.pos = 0, !.data = Asked]
             h == Transmit(hw, Length, 0, Asked)
  <2>1. /\ Asked.kind = "reply" /\ Asked.dir = "IN" /\ xfer' = x /\ UNCHANGED addr
        /\ AckCtrl(h, Length)
    BY <1>7, <1>16 DEF Reply, Length
  <2>2. NeedsZlp(Length, Asked.len) \in BOOLEAN
    BY DEF NeedsZlp
  <2>3. /\ x.zlp = NeedsZlp(Length, Asked.len) /\ x.inLen = Length /\ x.pos = 0
        /\ x.data = Asked
    BY <1>1, <2>2 DEF XferType
  <2>4. h \in HwType
    BY <1>1, RegistersAreTyped
  <2>5. h.tx = "VALID" /\ h.pkt = NoPacket /\ ~h.txDone /\ ~h.reset
    BY <1>1, <1>2, <1>3, <1>5, TransmitKeeps
  <2>6. h.bd = [len |-> Smaller(Length, MPS), pos |-> 0, data |-> Asked]
    BY <1>1, TransmitArms
  <2> HIDE DEF x, h
  <2>7. failed' = failed /\ hw' = h /\ in_len' = Length /\ UNCHANGED ep
    BY <1>1, <1>4, <2>1, <2>4, <2>5, AckCtrlAnswers
  <2>8. Smaller(Length, MPS) = Smaller(MPS, Length - 0) /\ (0 % MPS) = 0
    <3>1. (0 % MPS) = 0
      BY <1>1, ModBelow
    <3> QED BY <1>1, <3>1 DEF Smaller
  <2>9. Piece'
    <3>1. /\ hw'.bd = [len |-> Smaller(MPS, Length - xfer'.pos), pos |-> xfer'.pos,
                        data |-> Asked]
          /\ xfer'.data = Asked /\ xfer'.zlp = NeedsZlp(Length, Asked.len)
          /\ (xfer'.pos % MPS) = 0
      BY <2>1, <2>3, <2>6, <2>7, <2>8
    <3>2. /\ xfer'.pos < Length \/ (xfer'.pos = 0 /\ Length = 0)
          /\ Length - xfer'.pos > MPS => xfer'.inLen = Length - xfer'.pos
          /\ Length - xfer'.pos <= MPS => xfer'.inLen <= MPS
          /\ Length > 0 => in_len' > 0
      BY <1>1, <2>1, <2>3, <2>7
    <3> QED BY <1>8, <3>1, <3>2 DEF Piece
  <2>10. Armed'
    BY <1>2, <1>5, <2>1, <2>5, <2>6, <2>7 DEF Armed
  <2>11. Replying'
    BY <1>2, <1>5, <1>8, <2>1, <2>5, <2>7, <2>9, <2>10 DEF Replying
  <2> QED BY <1>11, <2>1, <2>5, <2>7, <2>11
<1>17. CASE Accept(Asked)
  BY <1>1, <1>2, <1>3, <1>5, <1>14, <1>17 DEF Accept
<1>18. CASE StallAndAck(Asked)
  BY <1>14, <1>15, <1>18 DEF StallAndAck
<1>19. CASE Refuse(Asked)
  <2>1. hw' = Stall(hw) /\ UNCHANGED <<addr, failed>>
    BY <1>19 DEF Refuse
  <2>2. Unanswered' /\ hw'.tx = "NAK"
    BY <1>12, <1>15, <2>1
  <2>3. ~Acknowledged'
    BY <2>2 DEF Acknowledged
  <2> QED BY <1>11, <1>15, <2>1, <2>2, <2>3
<1>20. CASE SetAddress(Asked)
  <2>1. Asked.kind = "address" /\ Asked.dir = "OUT"
    BY <1>7, <1>20 DEF SetAddress
  <2>2. host.addr = 0 /\ NoAddress /\ Asked \in EarlyRequests
    BY <1>3, <2>1 DEF AddrInv
  <2>3. addr.dev = 0 /\ ~addr.set /\ addr.daddr = 0 /\ Asked.addr # 0
    BY <1>9, <2>1, <2>2 DEF NoAddress, Patient
  <2> DEFINE a == Asked.addr
  <2>4. addr' = [addr EXCEPT !.dev = a] /\ AckCtrl(hw, in_len)
    BY <1>20, <2>3 DEF SetAddress, SetDeviceAddress
  <2>5. a \in Nat
    BY <1>1, RequestTypes
  <2> HIDE DEF a
  <2>6. addr'.dev = a /\ ~addr'.set /\ addr'.daddr = 0
    BY <1>1, <2>3, <2>4, <2>5 DEF AddrType
  <2>7. /\ failed' = failed /\ hw'.tx = "VALID" /\ hw'.bd.len = 0 /\ hw'.pkt = NoPacket
        /\ ~hw'.txDone /\ ~hw'.reset /\ in_len' = 0 /\ ep' # "DATA_TX"
    BY <1>1, <1>2, <1>3, <1>4, <1>5, <2>1, <2>4, AckCtrlAnswers
  <2>8. Acknowledged'
    BY <1>13, <2>1, <2>7
  <2>9. AddrInv'
    BY <1>2, <1>3, <1>8, <2>1, <2>2, <2>6, <2>7, <2>8 DEF AddrInv, NoAddress, a
  <2> QED BY <1>10, <2>7, <2>8, <2>9
<1> QED BY <1>6, <1>16, <1>17, <1>18, <1>19, <1>20

-----------------------------------------------------------------------------
(* The invariant, and what follows from it.                                 *)

LEMMA QuietStep ==
  ASSUME UsbInv, UNCHANGED <<device, control_xfer, hw, host>>
  PROVE  PatientInv'
BY DEF UsbInv, PatientInv, device, StageInv, Stages, SetupSent, Posted, Replying, Piece,
   Final, Armed, Taken, Replied, Unanswered, Receiving, Received, Taking, Acknowledged,
   Fresh, IdleInv, AddrInv, NoAddress, HasAddress, RefusedIsNotAcknowledged, Asked, Length

(* The serial port writes to the packet memory and to no register.          *)
LEMMA SerialTransmitStep ==
  ASSUME UsbInv, SerialTransmit
  PROVE  PatientInv'
<1>1. /\ UNCHANGED <<device, queue, host>>
      /\ hw'.tx = hw.tx /\ hw'.rx = hw.rx /\ hw'.pkt = hw.pkt /\ hw'.txDone = hw.txDone
      /\ hw'.reset = hw.reset /\ hw'.bd = hw.bd /\ hw'.kind = hw.kind
  BY Fields DEF UsbInv, SerialTransmit, HwType
<1> QED
  BY <1>1 DEF UsbInv, PatientInv, device, queue, StageInv, Stages, SetupSent, Posted, Replying,
     Piece, Final, Armed, Taken, Replied, Unanswered, Receiving, Received, Taking,
     Acknowledged, Fresh, IdleInv, AddrInv, NoAddress, HasAddress,
     RefusedIsNotAcknowledged, Asked, Length

LEMMA InitPatient == Init => PatientInv
BY DEF Init, PatientInv, StageInv, IdleInv, AddrInv, NoAddress, RefusedIsNotAcknowledged

LEMMA NextPatient ==
  ASSUME Patient, UsbInv, [Next]_vars
  PROVE  PatientInv'
<1>1. CASE Isr
  BY <1>1, IsrSetupStep, IsrDropStep, IsrDataOutStep, IsrTxReplyStep, IsrTxLateStep,
     IsrResetStep DEF Isr
<1>2. CASE ThreadGet
  BY <1>2, QuietStep DEF ThreadGet
<1>3. CASE ThreadHandle
  BY <1>3, ThreadHandleStep
<1>4. CASE Host
  BY <1>4, HostInStep, HostOutDataStep, HostOutStatusStep, HostSeesStallStep DEF Host
<1>5. CASE HostGiveUp \/ BusReset \/ HostBadSetup
  BY <1>5, HostGiveUpStep, BusResetStep, HostBadSetupStep
<1>6. CASE \E r \in Requests : HostSetup(r)
  BY <1>6, HostSetupStep
<1>7. CASE UNCHANGED vars
  BY <1>7, QuietStep DEF vars, device
<1>8. CASE SerialTransmit
  BY <1>8, SerialTransmitStep
<1> QED BY <1>1, <1>2, <1>3, <1>4, <1>5, <1>6, <1>7, <1>8 DEF Next

LEMMA UsbInvariant ==
  ASSUME Patient
  PROVE  Spec => []UsbInv
<1>1. Init => UsbInv
  BY InitTypes, InitPatient
     DEF Init, UsbInv, MailboxInv, MailboxHasOneToken, AckModeIsPosted, AckAssertHolds
<1>2. UsbInv /\ [Next]_vars => UsbInv'
  BY NextTypes, NextMailbox, NextPatient DEF UsbInv
<1> QED BY <1>1, <1>2, PTL DEF Spec

(* No assert() of the control path fails under a patient host.              *)
THEOREM AssertsHold ==
  ASSUME Patient
  PROVE  Spec => []NoAssertFails
<1>1. UsbInv => NoAssertFails
  BY DEF UsbInv, PatientInv, NoAssertFails
<1> QED BY <1>1, UsbInvariant, PTL

(* The request in the mailbox is the one a patient host waits on, with all  *)
(* its data.                                                                *)
THEOREM RequestStaysIntact ==
  ASSUME Patient
  PROVE  Spec => []RequestIsIntact
<1>1. UsbInv => RequestIsIntact
  <2> SUFFICES ASSUME UsbInv, control_xfer = "xfer", host.phase # "idle"
               PROVE  Posted
    BY DEF RequestIsIntact, Posted, Asked
  <2> QED BY DEF UsbInv, PatientInv, StageInv, Stages, SetupSent, Replying, Replied,
             Unanswered, Receiving, Received, Taking, Acknowledged, Fresh
<1> QED BY <1>1, UsbInvariant, PTL

\* Only the serial port writes bytes of its own to the packet memory.
PacketMemoryInv == hw.pma = "control" \/ "serial" \in Allowed

LEMMA RegistersKeepMemory ==
  ASSUME NEW h \in HwType, NEW n, NEW from, NEW what
  PROVE  /\ Transmit(h, n, from, what).pma \in {h.pma, "control"}
         /\ Receive(h, n).pma = h.pma /\ Stall(h).pma = h.pma
         /\ [h EXCEPT !.pkt = NoPacket].pma = h.pma
         /\ [h EXCEPT !.txDone = FALSE].pma = h.pma
<1> DEFINE b == [len |-> Smaller(n, MPS), pos |-> from, data |-> what]
           p == IF n = 0 THEN h.pma ELSE "control"
<1>1. Transmit(h, n, from, what) = [h EXCEPT !.tx = "VALID", !.pma = p, !.bd = b]
  BY DEF Transmit
<1>2. p \in {h.pma, "control"}
  OBVIOUS
<1> HIDE DEF b, p
<1>3. Transmit(h, n, from, what).pma = p
  BY <1>1 DEF HwType
<1>4. Receive(h, n).pma = h.pma /\ Stall(h).pma = h.pma
  BY DEF Receive, Stall, HwType
<1>5. [h EXCEPT !.pkt = NoPacket].pma = h.pma /\ [h EXCEPT !.txDone = FALSE].pma = h.pma
  BY DEF HwType
<1> QED BY <1>2, <1>3, <1>4, <1>5

LEMMA PacketMemoryStep ==
  ASSUME TypeOK, PacketMemoryInv, [Next]_vars
  PROVE  PacketMemoryInv'
<1> USE DEF PacketMemoryInv
<1>1. hw \in HwType
  BY DEF TypeOK
<1> DEFINE h == [hw EXCEPT !.pkt = NoPacket]
           t == [hw EXCEPT !.txDone = FALSE]
<1>2. /\ h \in HwType /\ h.pma = hw.pma
      /\ t \in HwType /\ t.pma = hw.pma
      /\ Receive(t, 0) \in HwType /\ Receive(t, 0).pma = hw.pma
      /\ Stall(hw) \in HwType /\ Stall(hw).pma = hw.pma
  <2>1. h \in HwType /\ h.pma = hw.pma /\ t \in HwType /\ t.pma = hw.pma
    BY <1>1, PacketTypes DEF HwType
  <2> HIDE DEF h, t
  <2> QED BY <1>1, <2>1, ReceiveFields, StallFields, RegistersKeepMemory
<1>3. CASE IsrSetup
  <2>1. hw' = h \/ hw' = Stall(h) \/ \E n : hw' = Receive(h, n)
    BY <1>3 DEF IsrSetup, OnSetup
  <2> HIDE DEF h
  <2> QED BY <1>2, <2>1, RegistersKeepMemory
<1>4. CASE IsrDataOut
  <2>1. hw' = h \/ \E n : hw' = Receive(h, n)
    BY <1>4 DEF IsrDataOut, OnDataOut
  <2> HIDE DEF h
  <2> QED BY <1>2, <2>1, RegistersKeepMemory
<1>5. CASE IsrTx
  <2>1. hw' = t \/ hw' = Receive(t, 0)
          \/ \E n, from, what : hw' = Transmit(Receive(t, 0), n, from, what)
    BY <1>5 DEF IsrTx, OnDataIn
  <2> HIDE DEF t
  <2>2. \A n, from, what : Transmit(Receive(t, 0), n, from, what).pma \in {hw.pma, "control"}
    BY <1>2, RegistersKeepMemory
  <2> QED BY <1>2, <2>1, <2>2
<1>6. CASE ThreadHandle
  <2>1. ASSUME NEW g \in HwType, g.pma \in {hw.pma, "control"}, NEW n, AckCtrl(g, n)
        PROVE  hw'.pma \in {hw.pma, "control"}
    BY <2>1, RegistersKeepMemory DEF AckCtrl
  <2> DEFINE r == xfer.setup
  <2>2. CASE Reply(r)
    <3> DEFINE m == ReplyLen(r)
               g == Transmit(hw, m, 0, r)
    <3>1. AckCtrl(g, m)
      BY <2>2 DEF Reply
    <3>2. g \in HwType
      <4>1. r \in AnyRequest
        BY DEF TypeOK, XferType
      <4>2. m \in Nat
        BY <4>1, ReplyLenIsNat
      <4> HIDE DEF m, r
      <4> QED BY <1>1, <4>1, <4>2, RegistersAreTyped
    <3>3. g.pma \in {hw.pma, "control"}
      BY <1>1, RegistersKeepMemory
    <3> HIDE DEF g, m, r
    <3> QED BY <2>1, <3>1, <3>2, <3>3
  <2>3. CASE Accept(r)
    BY <1>1, <2>1, <2>3 DEF Accept
  <2>4. CASE StallAndAck(r)
    BY <1>2, <2>1, <2>4 DEF StallAndAck
  <2>5. CASE SetAddress(r)
    <3>1. UNCHANGED hw \/ AckCtrl(hw, in_len)
      BY <2>5 DEF SetAddress
    <3> QED BY <1>1, <2>1, <3>1
  <2>6. CASE Skip \/ Refuse(r)
    BY <1>2, <2>6 DEF Skip, Refuse
  <2> QED BY <1>6, <2>2, <2>3, <2>4, <2>5, <2>6 DEF ThreadHandle
<1>7. CASE \/ IsrBadSetup \/ IsrStatusOut \/ IsrReset \/ HostBadSetup \/ BusReset
           \/ HostIn \/ HostOutData \/ HostOutStatus
  <2>1. hw'.pma = hw.pma
    BY <1>1, <1>7 DEF IsrBadSetup, IsrStatusOut, IsrReset, HostBadSetup, BusReset, HostIn,
       HostOutData, HostOutStatus, HwType
  <2> QED BY <2>1
<1>8. CASE \E r \in Requests : HostSetup(r)
  <2>1. hw'.pma = hw.pma
    BY <1>1, <1>8 DEF HostSetup, HwType
  <2> QED BY <2>1
<1>9. CASE ThreadGet \/ HostSeesStall \/ HostGiveUp \/ UNCHANGED vars
  BY <1>9 DEF ThreadGet, HostSeesStall, HostGiveUp, vars
<1>10. CASE SerialTransmit
  BY <1>10 DEF SerialTransmit
<1> QED BY <1>3, <1>4, <1>5, <1>6, <1>7, <1>8, <1>9, <1>10 DEF Next, Isr, Host

(* Whatever IN packet a patient host is handed was armed as the next piece  *)
(* of the reply to its request, or as the empty packet of the status stage; *)
(* the bytes in its memory are of a control reply too, unless the serial    *)
(* port is in use and may have written its own there.                       *)
THEOREM InPacketStaysRight ==
  ASSUME Patient
  PROVE  Spec => []InPacketIsRight
<1>1. UsbInv /\ PacketMemoryInv => InPacketIsRight
  <2> SUFFICES ASSUME UsbInv, hw.tx = "VALID", AwaitsIn
               PROVE  IF host.phase = "data"
                      THEN hw.bd = [len |-> Smaller(MPS, Length - host.moved),
                                    pos |-> host.moved, data |-> Asked]
                      ELSE hw.bd.len = 0
    BY DEF InPacketIsRight, PacketMemoryInv, Length, Asked
  <2>1. host.phase # "idle" /\ Stages /\ Asked.dir \in {"IN", "OUT"}
        /\ Length \in Nat /\ MPS \in Nat
    BY Fields DEF AwaitsIn, UsbInv, PatientInv, StageInv
  <2>2. (Replying /\ Armed) \/ Acknowledged
    BY <2>1 DEF AwaitsIn, Asked, Stages, SetupSent, Posted, Replying, Taken, Replied,
       Unanswered, Receiving, Received, Taking
  <2>3. CASE Acknowledged
    BY <2>3 DEF Acknowledged
  <2>4. CASE Replying /\ Armed
    <3>1. host.phase = "data" /\ host.moved = hw.bd.pos /\ (Piece \/ Final)
      BY <2>4 DEF Replying, Armed
    <3>2. CASE Piece
      BY <3>1, <3>2 DEF Piece
    <3>3. CASE Final
      <4>1. Smaller(MPS, Length - Length) = 0
        BY <2>1 DEF Smaller
      <4> QED BY <3>1, <3>3, <4>1 DEF Final
    <3> QED BY <3>1, <3>2, <3>3
  <2> QED BY <2>2, <2>3, <2>4
<1>2. Init => PacketMemoryInv
  BY DEF Init, PacketMemoryInv
<1>3. UsbInv /\ PacketMemoryInv /\ [Next]_vars => PacketMemoryInv'
  BY PacketMemoryStep DEF UsbInv
<1> QED BY <1>1, <1>2, <1>3, UsbInvariant, PTL DEF Spec

(* Between two requests a patient host and the device use the same address. *)
THEOREM AddressesStayEqual ==
  ASSUME Patient
  PROVE  Spec => []AddressesAgree
<1>1. UsbInv => AddressesAgree
  BY DEF UsbInv, PatientInv, AddrInv, NoAddress, HasAddress, AddressesAgree
<1> QED BY <1>1, UsbInvariant, PTL

(* A request the device refuses never ends in success.                      *)
THEOREM RefusedStaysUnacknowledged ==
  ASSUME Patient
  PROVE  Spec => []RefusedIsNotAcknowledged
<1>1. UsbInv => RefusedIsNotAcknowledged
  BY DEF UsbInv, PatientInv
<1> QED BY <1>1, UsbInvariant, PTL

(* The bus address changes only to the one a patient host already uses, or  *)
(* in a bus reset.                                                          *)
THEOREM AddressFollowsStatus ==
  ASSUME Patient
  PROVE  Spec => AddressChangesAfterStatus
<1>1. UsbInv /\ UsbInv' /\ [Next]_vars
        => [addr'.daddr # addr.daddr => hw.reset \/ addr'.daddr = host.addr]_vars
  <2> SUFFICES ASSUME UsbInv, UsbInv', Next, addr'.daddr # addr.daddr, ~hw.reset
               PROVE  addr'.daddr = host.addr
    BY DEF vars
  <2>1. CASE IsrTx
    <3>1. host' = host /\ ~hw'.reset /\ ~hw'.txDone
      BY <2>1, IsrTxRegisters DEF IsrTx, UsbInv
    <3> QED BY <3>1 DEF UsbInv, PatientInv, AddrInv, NoAddress, HasAddress
  <2>2. CASE ThreadHandle
    <3>1. host' = host /\ host.phase # "idle"
      BY <2>2 DEF ThreadHandle, UsbInv, PatientInv, MailboxInv, MailboxHasOneToken, IdleInv
    <3>2. ~hw'.reset
      BY <3>1 DEF UsbInv, PatientInv, StageInv
    <3> QED BY <3>1, <3>2 DEF UsbInv, PatientInv, AddrInv, NoAddress, HasAddress
  <2>3. CASE IsrReset
    BY <2>3 DEF IsrReset
  <2>4. CASE UNCHANGED addr
    BY <2>4
  <2> QED BY <2>1, <2>2, <2>3, <2>4 DEF Next, Isr, Host, IsrSetup, IsrBadSetup, IsrStatusOut,
       IsrDataOut, ThreadGet, SerialTransmit, HostIn, HostOutData, HostOutStatus, HostSeesStall,
       HostGiveUp, BusReset, HostBadSetup, HostSetup, device
<1> QED BY <1>1, UsbInvariant, PTL DEF Spec, AddressChangesAfterStatus
=============================================================================
