--------------------------- MODULE CdcAcmTxProofs ---------------------------
(***************************************************************************)
(* Theorems about the sending side of the serial port, for every size of   *)
(* the ring and of the queue, any number of characters and of resets, and  *)
(* resets between any two steps: its type, that nothing is lost, that a     *)
(* character comes once in a configuration, and that it implements          *)
(* SerialStream. All of it holds with and without replies of endpoint 0 in  *)
(* the packet memory, and says which bytes these may take the place of.     *)
(***************************************************************************)
EXTENDS CdcAcmTx, SequenceTheorems, TLAPS

-----------------------------------------------------------------------------
(* The inductive invariant.                                                *)

Count == (end - start) % RingSize
Kept == IF pend = 0 THEN 0 ELSE 1
\* The characters below are out of the firmware's hands.
Done == sent - (Len(seg) + Count + Kept + Len(tx_queue))
\* The characters under way are consecutive, in every place that holds some.
StreamInv ==
  /\ Done \in Nat
  /\ \A i \in 1 .. Len(seg) : seg[i] = Done + i
  /\ \A i \in 1 .. Count : buffer[Plus(start, i - 1)] = Done + Len(seg) + i
  /\ pend # 0 => pend = Done + Len(seg) + Count + 1
  /\ \A i \in 1 .. Len(tx_queue) : tx_queue[i] = Done + Len(seg) + Count + Kept + i
  /\ \A c \in 1 .. Done : Sent(c)

\* The thread holds a segment from get_seg() to the return of write(), and a
\* character of its own only while it makes room for it.
PlaceInv ==
  /\ pc \in {"start", "idle", "flush"} <=> seg = << >>
  /\ pc \in {"start", "idle"} => pend = 0
  /\ pc \in {"activated", "request", "transmit", "wait", "written"} => mine >= 1
  /\ mine <= gen

DeviceInv ==
  /\ state = "CONFIGURED" <=> activated = "set"
  /\ state = "CONFIGURED" => gen >= 1
  /\ gen <= teardowns + (IF state = "CONFIGURED" THEN 1 ELSE 0)

\* The packet in the memory is the segment; if control replies are written
\* there, its first k bytes may be of these.
Carries ==
  /\ Len(pma) = Len(seg)
  /\ \E k \in 0 .. Len(seg) :
       /\ k = 0 \/ "reply" \in Allowed
       /\ \A i \in 1 .. Len(seg) : pma[i] = IF i <= k THEN -seg[i] ELSE seg[i]

\* A transfer is pending only while the thread is at it, and a token is for the
\* thread, or comes from a packet of a thread that waits at a dead endpoint.
TransferInv ==
  /\ \A g \in Gens : status[g] = "PENDING" => g = mine /\ pc \in {"transmit", "wait"}
  /\ \A g \in Gens : semaphore[g] = 1 =>
       \/ g = mine /\ pc \in {"transmit", "wait"} /\ status[g] # "PENDING"
       \/ mine < g /\ g <= gen /\ pc = "wait" /\ status[mine] = "PENDING"
  /\ state = "CONFIGURED" /\ pc = "transmit" => status[mine] = "PENDING"
  /\ state = "CONFIGURED" /\ stat_tx = "VALID" =>
       /\ pc = "wait" /\ Carries /\ status[mine] = "PENDING" /\ semaphore[gen] = 0

\* A transfer that ends with success has brought its segment to the host.
SuccessInv ==
  /\ \A g \in Gens : semaphore[g] = 1 /\ completion_code[g] = "success" =>
       pc = "wait" /\ \A i \in 1 .. Len(seg) : Sent(seg[i])
  /\ pc = "written" => \A i \in 1 .. Len(seg) : Sent(seg[i])

TxInv == TypeOK /\ StreamInv /\ PlaceInv /\ DeviceInv /\ TransferInv /\ SuccessInv

\* What the host has not received in this configuration; whether it has taken
\* the segment in it.
NewHere(c) == \A i \in (begun + 1) .. Len(received) : Place(received[i]) # c
TakenNow == pc = "written" \/ semaphore[gen] = 1
OnceInv ==
  /\ OncePerConfiguration
  /\ state = "CONFIGURED" =>
       \A c \in Chars : c > Done + (IF TakenNow THEN Len(seg) ELSE 0) => NewHere(c)
  /\ \A g \in Gens : state = "CONFIGURED" /\ g = gen /\ semaphore[g] = 1 =>
       completion_code[g] = "success"

-----------------------------------------------------------------------------
(* The ring, without modulo.                                               *)

(* A non-negative number below twice the size of the ring wraps once.      *)
LEMMA ModWraps ==
  ASSUME NEW m \in Nat, m > 0, NEW a \in Int, 0 <= a + m, a < m + m
  PROVE  (a % m) = IF a < 0 THEN a + m ELSE IF a < m THEN a ELSE a - m
<1>1. (a % m) \in 0 .. m - 1 /\ a \div m \in Int /\ a = m * (a \div m) + (a % m)
  OBVIOUS
<1> DEFINE q == a \div m
           r == a % m
<1>2. q \in Int /\ r \in Int /\ 0 <= r /\ r < m /\ a = m * q + r
  BY <1>1
<1> HIDE DEF q, r
<1>3. q >= 2 => m * q >= m + m
  BY <1>2
<1>4. q <= -2 => m * q <= -(m + m)
  BY <1>2
<1>5. q \in {-1, 0, 1}
  BY <1>2, <1>3, <1>4
<1>6. r = IF a < 0 THEN a + m ELSE IF a < m THEN a ELSE a - m
  BY <1>2, <1>5
<1> QED
  BY <1>6 DEF r

(* A place of the ring goes on to the next, and from the last to the first. *)
LEMMA PlusIs ==
  \A p \in Slots : \A x \in 0 .. RingSize :
    Plus(p, x) = IF p + x < RingSize THEN p + x ELSE p + x - RingSize
BY SizesAssumption, ModWraps DEF Plus, Slots

(* How far one place of the ring is behind another.                         *)
LEMMA DistanceIs ==
  \A a, b \in Slots : ((b - a) % RingSize) = IF b >= a THEN b - a ELSE b - a + RingSize
BY SizesAssumption, ModWraps DEF Slots

(* What the ring holds.                                                     *)
LEMMA CountIs ==
  ASSUME start \in Slots, end \in Slots
  PROVE  Count = IF end >= start THEN end - start ELSE end - start + RingSize
BY SizesAssumption, ModWraps DEF Count, Slots

-----------------------------------------------------------------------------
(* The beginning.                                                          *)

LEMMA InitHolds == Init => TxInv
<1> SUFFICES ASSUME Init PROVE TxInv
  OBVIOUS
<1> USE SizesAssumption, BoundsAssumption
<1>1. TypeOK
  BY DEF Init, TypeOK, Slots, Gens, Chars, ring, thread, device, transfer, hardware
<1>2. Count = 0
  BY <1>1, CountIs DEF Init, TypeOK
<1>3. StreamInv
  BY <1>2 DEF Init, StreamInv, Done, Kept
<1>4. PlaceInv /\ DeviceInv /\ TransferInv /\ SuccessInv
  BY DEF Init, PlaceInv, DeviceInv, TransferInv, SuccessInv, Gens
<1> QED
  BY <1>1, <1>3, <1>4 DEF TxInv

-----------------------------------------------------------------------------
(* The characters under way.                                               *)

(* What the host has received, it keeps.                                    *)
LEMMA ReceivedGrows ==
  ASSUME TypeOK, NEW s \in Seq(Bytes), received' = received \o s
  PROVE  /\ received' \in Seq(Bytes) /\ Len(received') = Len(received) + Len(s)
         /\ \A c : Sent(c) => Sent(c)'
         /\ \A i \in 1 .. Len(s) :
              \A c : Place(s[i]) = c /\ (s[i] = c \/ "reply" \in Allowed) => Sent(c)'
<1>1. received \in Seq(Bytes)
  BY DEF TypeOK
<1>2. /\ received' \in Seq(Bytes)
      /\ Len(received') = Len(received) + Len(s)
      /\ \A i \in 1 .. Len(received) + Len(s) :
           received'[i] = IF i <= Len(received) THEN received[i] ELSE s[i - Len(received)]
  BY <1>1, ConcatProperties
<1>3. /\ Len(received) \in Nat /\ Len(s) \in Nat
      /\ DOMAIN received = 1 .. Len(received)
      /\ DOMAIN received' = 1 .. Len(received) + Len(s)
  BY <1>1, <1>2, LenProperties
<1>4. ASSUME NEW c, Sent(c) PROVE Sent(c)'
  <2>1. PICK i \in 1 .. Len(received) :
          Place(received[i]) = c /\ (received[i] = c \/ "reply" \in Allowed)
    BY <1>3, <1>4 DEF Sent
  <2>2. i \in DOMAIN received' /\ received'[i] = received[i]
    BY <1>2, <1>3, <2>1
  <2> QED
    BY <2>1, <2>2 DEF Sent, Place
<1>5. ASSUME NEW i \in 1 .. Len(s), NEW c,
             Place(s[i]) = c, s[i] = c \/ "reply" \in Allowed
      PROVE  Sent(c)'
  <2>1. Len(received) + i \in DOMAIN received' /\ received'[Len(received) + i] = s[i]
    BY <1>2, <1>3
  <2> QED
    BY <1>5, <2>1 DEF Sent, Place
<1> QED
  BY <1>2, <1>4, <1>5

(* What a packet that carries the segment holds, byte by byte.              *)
LEMMA CarriedIs ==
  ASSUME TypeOK, Carries
  PROVE  /\ pma \in Seq(Bytes) /\ Len(pma) = Len(seg) /\ Len(seg) \in Nat
         /\ \A i \in 1 .. Len(seg) :
              /\ Place(pma[i]) = seg[i]
              /\ pma[i] = seg[i] \/ "reply" \in Allowed
<1>1. pma \in Seq(Bytes) /\ Len(seg) \in Nat /\ \A i \in 1 .. Len(seg) : seg[i] \in Chars
  BY DEF TypeOK
<1>2. PICK k \in 0 .. Len(seg) :
        /\ k = 0 \/ "reply" \in Allowed
        /\ \A i \in 1 .. Len(seg) : pma[i] = IF i <= k THEN -seg[i] ELSE seg[i]
  BY DEF Carries
<1>3. \A x \in Chars : Place(x) = x /\ Place(-x) = x
  BY BoundsAssumption DEF Chars, Place
<1> QED
  BY <1>1, <1>2, <1>3 DEF Carries

(* A control reply takes the place of the first bytes, and of no other.     *)
LEMMA ReplyCarried ==
  ASSUME TypeOK, ControlReply
  PROVE  pma' \in Seq(Bytes) /\ (Carries => Carries')
<1>1. PICK k \in 1 .. Len(pma) :
        pma' = [i \in DOMAIN pma |-> IF i <= k THEN -Place(pma[i]) ELSE pma[i]]
  BY DEF ControlReply
<1>2. /\ pma \in Seq(Bytes) /\ Len(pma) \in Nat /\ DOMAIN pma = 1 .. Len(pma)
      /\ seg' = seg /\ "reply" \in Allowed
  BY LenProperties DEF TypeOK, ControlReply, thread
<1>3. \A b \in Bytes : -Place(b) \in Bytes
  BY BoundsAssumption DEF Bytes, Chars, Place
<1> DEFINE e(i) == IF i <= k THEN -Place(pma[i]) ELSE pma[i]
<1>4. pma' = [i \in 1 .. Len(pma) |-> e(i)]
  BY <1>1, <1>2
<1>5. \A i \in 1 .. Len(pma) : e(i) \in Bytes
  BY <1>2, <1>3
<1>6. \A i \in 1 .. Len(pma) : e(i) = IF i <= k THEN -Place(pma[i]) ELSE pma[i]
  OBVIOUS
<1> HIDE DEF e
<1>7. pma' \in Seq(Bytes) /\ Len(pma') = Len(pma)
  BY <1>2, <1>4, <1>5, IsASeq
<1>8. ASSUME Carries PROVE Carries'
  <2>1. /\ Len(pma) = Len(seg) /\ Len(seg) \in Nat
        /\ \A i \in 1 .. Len(seg) : Place(pma[i]) = seg[i]
    BY <1>8, CarriedIs
  <2>2. PICK l \in 0 .. Len(seg) :
          \A i \in 1 .. Len(seg) : pma[i] = IF i <= l THEN -seg[i] ELSE seg[i]
    BY <1>8 DEF Carries
  <2> DEFINE m == IF l < k THEN k ELSE l
  <2>3. m \in 0 .. Len(seg)
    BY <2>1
  <2>4. ASSUME NEW i \in 1 .. Len(seg)
        PROVE  pma'[i] = IF i <= m THEN -seg[i] ELSE seg[i]
    <3>1. pma'[i] = IF i <= k THEN -seg[i] ELSE pma[i]
      BY <1>4, <1>6, <2>1
    <3> QED
      BY <2>1, <2>2, <3>1
  <2> HIDE DEF m
  <2> QED
    BY <1>2, <1>7, <2>1, <2>3, <2>4 DEF Carries
<1> QED
  BY <1>7, <1>8

(* An element goes in at the end of the ring.                               *)
LEMMA PushAppends ==
  ASSUME TypeOK, NEW c \in Chars, ~Full, Push(c)
  PROVE  /\ buffer' \in [Slots -> 0 .. NChars] /\ start' = start /\ end' \in Slots
         /\ Count \in Nat /\ Count' = Count + 1
         /\ \A i \in 1 .. Count : buffer'[Plus(start, i - 1)] = buffer[Plus(start, i - 1)]
         /\ buffer'[Plus(start, Count)] = c
<1> USE SizesAssumption, BoundsAssumption
<1>1. /\ start \in Slots /\ end \in Slots /\ buffer \in [Slots -> 0 .. NChars]
      /\ c \in 0 .. NChars
  BY DEF TypeOK, Chars
<1>2. /\ start' = start
      /\ buffer' = [buffer EXCEPT ![end] = c]
      /\ end' = IF end + 1 < RingSize THEN end + 1 ELSE end + 1 - RingSize
      /\ end' # start
  BY <1>1, PlusIs DEF Push, Full, Slots
<1>3. end' \in Slots 
  BY <1>1, <1>2 DEF Slots
<1>4. buffer' \in [Slots -> 0 .. NChars]
  BY <1>1, <1>2
<1>5. Count = IF end >= start THEN end - start ELSE end - start + RingSize
  BY <1>1, CountIs
<1>6. Count' = IF end' >= start THEN end' - start ELSE end' - start + RingSize
  <2>1. Count' = (end' - start) % RingSize
    BY <1>2 DEF Count
  <2>2. \A e \in Slots : ((e - start) % RingSize)
           = IF e >= start THEN e - start ELSE e - start + RingSize
    BY <1>1, DistanceIs
  <2> QED
    BY <1>3, <2>1, <2>2
<1>7. Count \in Nat /\ Count' = Count + 1
  BY <1>1, <1>2, <1>5, <1>6 DEF Slots
<1>8. Count < RingSize
  BY <1>1, <1>5 DEF Slots
<1>9. Plus(start, Count) = end
  BY <1>1, <1>5, <1>7, <1>8, PlusIs DEF Slots
<1>10. ASSUME NEW i \in 1 .. Count
       PROVE  Plus(start, i - 1) \in Slots /\ Plus(start, i - 1) # end
  <2>1. i - 1 \in 0 .. RingSize /\ i - 1 < Count
    BY <1>7, <1>8
  <2>2. Plus(start, i - 1) = IF start + (i - 1) < RingSize THEN start + (i - 1)
                             ELSE start + (i - 1) - RingSize
    BY <1>1, <2>1, PlusIs
  <2> QED
    BY <1>1, <1>5, <1>7, <1>8, <2>1, <2>2 DEF Slots
<1> QED
  BY <1>1, <1>2, <1>3, <1>4, <1>7, <1>9, <1>10

LEMMA PutCStream ==
  ASSUME TypeOK, StreamInv, PutC
  PROVE  StreamInv' /\ Done' = Done
<1> USE SizesAssumption, BoundsAssumption
<1>1. /\ tx_queue \in Seq(Chars) /\ sent \in Nat /\ seg \in Seq(Chars)
      /\ Len(tx_queue) \in Nat /\ Len(seg) \in Nat /\ Count \in Nat /\ Kept \in Nat
  BY CountIs DEF TypeOK, Slots, Kept
<1>2. /\ sent' = sent + 1 /\ tx_queue' = Append(tx_queue, sent + 1)
      /\ UNCHANGED <<buffer, start, end, pend, seg, received>>
  BY DEF PutC, ring, thread
<1>3. /\ Len(tx_queue') = Len(tx_queue) + 1
      /\ \A i \in 1 .. Len(tx_queue) : tx_queue'[i] = tx_queue[i]
      /\ tx_queue'[Len(tx_queue) + 1] = sent + 1
  BY <1>1, <1>2
<1>4. Count' = Count /\ Kept' = Kept
  BY <1>2 DEF Count, Kept
<1>5. Done' = Done /\ Done \in Nat
  BY <1>1, <1>2, <1>3, <1>4 DEF Done, StreamInv
<1>6. \A i \in 1 .. Len(tx_queue') : tx_queue'[i] = Done + Len(seg) + Count + Kept + i
  <2>1. ASSUME NEW i \in 1 .. Len(tx_queue) + 1
        PROVE  tx_queue'[i] = Done + Len(seg) + Count + Kept + i
    <3>1. CASE i = Len(tx_queue) + 1
      <4>1. sent = Done + (Len(seg) + Count + Kept + Len(tx_queue))
        BY <1>1, <1>5 DEF Done
      <4>2. tx_queue'[i] = sent + 1
        BY <1>3, <3>1
      <4> QED
        BY <1>1, <1>5, <3>1, <4>1, <4>2
    <3>2. CASE i # Len(tx_queue) + 1
      <4>1. i \in 1 .. Len(tx_queue)
        BY <1>1, <3>2
      <4> QED
        BY <1>3, <4>1 DEF StreamInv
    <3> QED
      BY <3>1, <3>2
  <2> QED
    BY <1>3, <2>1
<1> QED
  BY <1>1, <1>2, <1>4, <1>5, <1>6 DEF StreamInv, Sent

LEMMA ReceiveStream ==
  ASSUME TypeOK, StreamInv, PlaceInv, Receive
  PROVE  StreamInv' /\ Done' = Done
<1> USE SizesAssumption, BoundsAssumption
<1>1. /\ tx_queue \in Seq(Chars) /\ sent \in Nat /\ seg \in Seq(Chars)
      /\ Len(tx_queue) \in Nat /\ Len(seg) \in Nat /\ Count \in Nat /\ Kept = 0 /\ pend = 0
      /\ start \in Slots
  BY CountIs DEF TypeOK, Slots, Kept, PlaceInv, Receive
<1>2. /\ tx_queue # << >> /\ tx_queue' = Tail(tx_queue)
      /\ UNCHANGED <<sent, seg, received>>
  BY DEF Receive
<1>3. /\ Head(tx_queue) \in Chars /\ Head(tx_queue) = tx_queue[1]
      /\ Len(tx_queue) >= 1
      /\ Len(tx_queue') = Len(tx_queue) - 1
      /\ \A i \in 1 .. Len(tx_queue) - 1 : tx_queue'[i] = tx_queue[i + 1]
  BY <1>1, <1>2, HeadTailProperties, EmptySeq
<1>4. CASE Full
  <2>1. pend' = Head(tx_queue) /\ UNCHANGED <<buffer, start, end>>
    BY <1>4 DEF Receive, ring
  <2>2. Count' = Count /\ Kept' = 1
    BY <1>3, <2>1 DEF Count, Kept, Chars
  <2>3. Done' = Done
    BY <1>1, <1>2, <1>3, <2>2 DEF Done
  <2>4. pend' = Done + Len(seg) + Count + 1
    BY <1>1, <1>3, <2>1 DEF StreamInv
  <2>5. \A i \in 1 .. Len(tx_queue') : tx_queue'[i] = Done + Len(seg) + Count + 1 + i
    BY <1>1, <1>3 DEF StreamInv
  <2> QED
    BY <1>1, <1>2, <2>1, <2>2, <2>3, <2>4, <2>5 DEF StreamInv, Sent
<1>5. CASE ~Full
  <2>1. Push(Head(tx_queue)) /\ UNCHANGED pend
    BY <1>5 DEF Receive
  <2>2. /\ start' = start /\ Count' = Count + 1 /\ Kept' = 0
        /\ \A i \in 1 .. Count : buffer'[Plus(start, i - 1)] = buffer[Plus(start, i - 1)]
        /\ buffer'[Plus(start, Count)] = Head(tx_queue)
    BY <1>1, <1>3, <1>5, <2>1, PushAppends DEF Kept
  <2>3. Done' = Done /\ Done \in Nat
    BY <1>1, <1>2, <1>3, <2>2 DEF Done, StreamInv
  <2>4. \A i \in 1 .. Count + 1 : buffer'[Plus(start, i - 1)] = Done + Len(seg) + i
    <3>1. buffer'[Plus(start, Count)] = Done + Len(seg) + (Count + 1)
      BY <1>1, <1>3, <2>2, <2>3 DEF StreamInv
    <3>2. ASSUME NEW i \in 1 .. Count + 1, i # Count + 1
          PROVE  buffer'[Plus(start, i - 1)] = Done + Len(seg) + i
      <4>1. i \in 1 .. Count
        BY <1>1, <3>2
      <4> QED
        BY <2>2, <4>1 DEF StreamInv
    <3>3. (Count + 1) - 1 = Count
      BY <1>1
    <3> QED
      BY <3>1, <3>2, <3>3
  <2>5. \A i \in 1 .. Len(tx_queue') : tx_queue'[i] = Done + Len(seg) + Count + 1 + i
    BY <1>1, <1>3 DEF StreamInv
  <2>6. \A i \in 1 .. Count' : buffer'[Plus(start, i - 1)'] = Done' + Len(seg') + i
    BY <1>2, <2>2, <2>3, <2>4 DEF Plus
  <2>7. pend' = 0
    BY <1>1, <2>1
  <2>8. \A i \in 1 .. Len(tx_queue') :
          tx_queue'[i] = Done' + Len(seg') + Count' + Kept' + i
    BY <1>1, <1>2, <2>2, <2>3, <2>5
  <2>9. \A i \in 1 .. Len(seg') : seg'[i] = Done' + i
    BY <1>2, <2>3 DEF StreamInv
  <2>10. \A c \in 1 .. Done' : Sent(c)'
    BY <1>2, <2>3 DEF StreamInv, Sent
  <2> QED
    BY <2>3, <2>6, <2>7, <2>8, <2>9, <2>10 DEF StreamInv
<1> QED
  BY <1>4, <1>5

(* get_seg() takes the head of the ring, up to the end of the array.        *)
LEMMA SegmentIs ==
  ASSUME TypeOK, StreamInv, seg = << >>, GetSeg
  PROVE  /\ SegLen \in 1 .. RingSize - 1 /\ start' \in Slots
         /\ Count \in Nat /\ Count' \in Nat /\ Count = SegLen + Count'
         /\ seg' \in Seq(Chars) /\ Len(seg') = SegLen
         /\ \A i \in 1 .. SegLen : seg'[i] = Done + i
         /\ \A i \in 1 .. Count' : buffer[Plus(start', i - 1)] = Done + SegLen + i
<1> USE SizesAssumption
<1> DEFINE left == Count'
<1>1. /\ start \in Slots /\ end \in Slots /\ start # end /\ end' = end
      /\ start \in Int /\ 0 <= start /\ start < RingSize
      /\ end \in Int /\ 0 <= end /\ end < RingSize
      /\ start' = Plus(start, SegLen) /\ seg' = Segment
      /\ sent \in 0 .. NChars /\ NChars \in Nat /\ Len(tx_queue) \in Nat
      /\ RingSize \in Int
  BY BoundsAssumption DEF TypeOK, GetSeg, Empty, Slots
<1>2. SegLen = IF start > end THEN RingSize - start ELSE end - start
  BY <1>1 DEF SegLen
<1>3. SegLen \in 1 .. RingSize /\ SegLen \in Nat
  BY <1>1, <1>2
<1>4. start' = IF start > end THEN 0 ELSE end
  BY <1>1, <1>2, <1>3, PlusIs
<1>5. start' \in Slots
  BY <1>1, <1>4 DEF Slots
<1>6. Count = IF end >= start THEN end - start ELSE end - start + RingSize
  BY <1>1, CountIs
<1>7. left = IF end >= start' THEN end - start' ELSE end - start' + RingSize
  BY <1>1, <1>5, DistanceIs DEF Count
<1> HIDE DEF left
<1>8. Count \in Nat /\ left \in Nat /\ Count = SegLen + left /\ Count < RingSize
  BY <1>1, <1>2, <1>4, <1>6, <1>7
<1>9. SegLen \in 1 .. RingSize - 1
  BY <1>1, <1>3, <1>8
<1>10. Done \in Nat /\ Done + Count <= NChars
  <2> DEFINE queued == Len(tx_queue)
  <2>1. Done = sent - (Count + Kept + queued) /\ Len(seg) = 0
    BY <1>1, <1>8 DEF Done, Kept
  <2>2. Done \in Nat /\ Kept \in Nat /\ queued \in Nat
    BY <1>1 DEF StreamInv, Kept
  <2> HIDE DEF queued
  <2>3. Done = sent - (Count + Kept + queued)
    BY <2>1
  <2>4. sent \in Nat /\ NChars \in Nat /\ sent <= NChars
    BY <1>1
  <2>5. Count \in Nat
    BY <1>8
  <2>6. Done + Count + Kept + queued = sent
    BY <2>2, <2>3, <2>4, <2>5
  <2> QED
    BY <2>2, <2>4, <2>5, <2>6
<1>11. \A i \in 1 .. Count : buffer[Plus(start, i - 1)] = Done + i
  BY <1>8, <1>10 DEF StreamInv
<1>12. \A i \in 1 .. SegLen : buffer[start + i - 1] = Done + i /\ Done + i \in Chars
  <2>1. ASSUME NEW i \in 1 .. SegLen
        PROVE  buffer[start + i - 1] = Done + i /\ Done + i \in Chars
    <3>1. i \in 1 .. Count /\ i - 1 \in 0 .. RingSize /\ start + (i - 1) < RingSize
      BY <1>1, <1>2, <1>3, <1>8
    <3>2. Plus(start, i - 1) = start + i - 1
      BY <1>1, <3>1, PlusIs
    <3>3. Done + i \in Chars
      BY <1>1, <1>8, <1>10, <3>1 DEF Chars
    <3> QED
      BY <1>11, <3>1, <3>2, <3>3
  <2> QED
    BY <2>1
<1>13. /\ seg' \in Seq(Chars) /\ Len(seg') = SegLen
       /\ \A i \in 1 .. SegLen : seg'[i] = Done + i
  <2> DEFINE e(i) == buffer[start + i - 1]
  <2>1. seg' = [i \in 1 .. SegLen |-> e(i)]
    BY <1>1 DEF Segment
  <2>2. \A i \in 1 .. SegLen : e(i) \in Chars /\ e(i) = Done + i
    BY <1>12
  <2> HIDE DEF e
  <2>3. seg' \in Seq(Chars)
    BY <1>3, <2>1, <2>2, IsASeq
  <2>4. Len(seg') = SegLen /\ \A i \in 1 .. SegLen : seg'[i] = e(i)
    BY <1>3, <2>1
  <2> QED
    BY <2>2, <2>3, <2>4
<1>14. ASSUME NEW i \in 1 .. left
       PROVE  buffer[Plus(start', i - 1)] = Done + SegLen + i
  <2>1. /\ SegLen + i \in 1 .. Count /\ i - 1 \in 0 .. RingSize
        /\ (SegLen + i) - 1 \in 0 .. RingSize
    BY <1>3, <1>8
  <2>2. Plus(start', i - 1) = Plus(start, (SegLen + i) - 1)
    <3>1. Plus(start', i - 1) = IF start' + (i - 1) < RingSize THEN start' + (i - 1)
                                ELSE start' + (i - 1) - RingSize
      BY <1>5, <2>1, PlusIs
    <3>2. Plus(start, (SegLen + i) - 1)
            = IF start + ((SegLen + i) - 1) < RingSize THEN start + ((SegLen + i) - 1)
              ELSE start + ((SegLen + i) - 1) - RingSize
      BY <1>1, <2>1, PlusIs
    <3>3. start' + (i - 1) < RingSize
      BY <1>1, <1>4, <1>7, <1>8
    <3>4. start + ((SegLen + i) - 1) >= RingSize
      BY <1>1, <1>2, <1>4, <1>7, <1>8
    <3> QED
      BY <1>1, <1>2, <1>3, <1>4, <1>7, <3>1, <3>2, <3>3, <3>4
  <2>3. buffer[Plus(start, (SegLen + i) - 1)] = Done + (SegLen + i)
    BY <1>11, <2>1, Zenon
  <2> QED
    BY <1>3, <1>10, <2>2, <2>3
<1> QED
  BY <1>5, <1>8, <1>9, <1>13, <1>14 DEF left

LEMMA GetSegStream ==
  ASSUME TypeOK, StreamInv, PlaceInv, GetSeg
  PROVE  StreamInv' /\ Done' = Done
<1>1. seg = << >> /\ Len(seg) = 0
  BY DEF PlaceInv, GetSeg
<1>2. /\ SegLen \in Nat /\ start' \in Slots
      /\ Count \in Nat /\ Count' \in Nat /\ Count = SegLen + Count'
      /\ seg' \in Seq(Chars) /\ Len(seg') = SegLen
      /\ \A i \in 1 .. SegLen : seg'[i] = Done + i
      /\ \A i \in 1 .. Count' : buffer[Plus(start', i - 1)] = Done + SegLen + i
  BY <1>1, SegmentIs, SizesAssumption
<1>3. UNCHANGED <<sent, tx_queue, buffer, pend, received>>
  BY DEF GetSeg
<1>4. Kept' = Kept /\ Kept \in Nat
  BY <1>3 DEF Kept
<1>5. sent \in Nat /\ Len(tx_queue) \in Nat
  BY DEF TypeOK
<1>6. Done' = Done /\ Done \in Nat
  BY <1>1, <1>2, <1>3, <1>4, <1>5 DEF Done, StreamInv
<1>7. \A i \in 1 .. Count' : buffer'[Plus(start, i - 1)'] = Done' + Len(seg') + i
  BY <1>2, <1>3, <1>6 DEF Plus
<1>8. pend' # 0 => pend' = Done' + Len(seg') + Count' + 1
  BY <1>1, <1>2, <1>3, <1>6 DEF StreamInv
<1>9. \A i \in 1 .. Len(tx_queue') : tx_queue'[i] = Done' + Len(seg') + Count' + Kept' + i
  BY <1>1, <1>2, <1>3, <1>4, <1>6 DEF StreamInv
<1>10. \A c \in 1 .. Done' : Sent(c)'
  BY <1>3, <1>6 DEF StreamInv, Sent
<1> QED
  BY <1>2, <1>6, <1>7, <1>8, <1>9, <1>10 DEF StreamInv

LEMMA FlushedStream ==
  ASSUME TypeOK, StreamInv, PlaceInv, Flushed
  PROVE  StreamInv' /\ Done' = Done
<1>1. /\ Len(seg) = 0 /\ start = end /\ start \in Slots /\ end \in Slots
      /\ UNCHANGED <<sent, tx_queue, seg, received>> /\ pend' = 0 /\ Kept' = 0
      /\ pend \in 0 .. NChars /\ sent \in Nat /\ Len(tx_queue) \in Nat
  BY DEF TypeOK, PlaceInv, Flushed, Empty, Kept
<1>2. Count = 0
  BY <1>1, CountIs, SizesAssumption DEF Slots
<1>3. CASE pend = 0
  <2>1. UNCHANGED <<buffer, start, end, pend>>
    BY <1>1, <1>3 DEF Flushed, ring
  <2> QED
    BY <1>1, <2>1 DEF StreamInv, Done, Count, Kept, Sent, Plus
<1>4. CASE pend # 0
  <2>1. pend \in Chars /\ Kept = 1
    BY <1>1, <1>4, BoundsAssumption DEF Chars, Kept
  <2>2. ~Full
    BY <1>1, PlusIs, SizesAssumption DEF Full, Slots
  <2>3. Push(pend)
    BY <1>4 DEF Flushed
  <2>4. /\ start' = start /\ Count' = 1 /\ buffer'[Plus(start, 0)] = pend
    BY <1>2, <2>1, <2>2, <2>3, PushAppends
  <2>5. Done' = Done /\ Done \in Nat /\ pend = Done + 1
    BY <1>1, <1>2, <1>4, <2>1, <2>4 DEF Done, StreamInv
  <2>6. buffer'[Plus(start, 0)'] = Done' + Len(seg') + 1
    BY <1>1, <2>4, <2>5 DEF Plus
  <2>7. \A i \in 1 .. Count' : buffer'[Plus(start, i - 1)'] = Done' + Len(seg') + i
    <3>1. ASSUME NEW i \in 1 .. Count'
          PROVE  i = 1 /\ i - 1 = 0
      BY <2>4
    <3> QED
      BY <2>6, <3>1
  <2>8. \A i \in 1 .. Len(tx_queue') : tx_queue'[i] = Done' + Len(seg') + Count' + Kept' + i
    BY <1>1, <1>2, <2>1, <2>4, <2>5 DEF StreamInv
  <2>9. \A c \in 1 .. Done' : Sent(c)'
    BY <1>1, <2>5 DEF StreamInv, Sent
  <2> QED
    BY <1>1, <2>5, <2>7, <2>8, <2>9 DEF StreamInv
<1> QED
  BY <1>3, <1>4

(* A segment leaves the firmware when all of it has been received.          *)
LEMMA WrittenStream ==
  ASSUME TypeOK, StreamInv, SuccessInv, Written
  PROVE  StreamInv' /\ Done' = IF seg' = << >> THEN Done + Len(seg) ELSE Done
<1>1. UNCHANGED <<sent, tx_queue, buffer, start, end, pend, received>>
  BY DEF Written, ring
<1>2. /\ sent \in Nat /\ Len(tx_queue) \in Nat /\ Len(seg) \in Nat
      /\ Count \in Nat /\ Kept \in Nat /\ Done \in Nat
  <2>1. start \in Slots /\ end \in Slots /\ sent \in Nat
        /\ Len(tx_queue) \in Nat /\ Len(seg) \in Nat
    BY DEF TypeOK
  <2>2. Count \in Nat
    BY <2>1, CountIs, SizesAssumption DEF Slots
  <2> QED
    BY <2>1, <2>2 DEF Kept, StreamInv
<1>3. Count' = Count /\ Kept' = Kept
  BY <1>1 DEF Count, Kept
<1>4. CASE seg' = seg
  BY <1>1, <1>4 DEF StreamInv, Done, Count, Kept, Sent, Plus
<1>5. CASE seg' = << >>
  <2>1. Len(seg') = 0
    BY <1>5
  <2>2. Done' = Done + Len(seg) /\ Done' \in Nat
    BY <1>1, <1>2, <1>3, <2>1 DEF Done
  <2>3. \A i \in 1 .. Count' : buffer'[Plus(start, i - 1)'] = Done' + Len(seg') + i
    BY <1>1, <1>2, <1>3, <2>1, <2>2 DEF StreamInv, Plus
  <2>4. pend' # 0 => pend' = Done' + Len(seg') + Count' + 1
    BY <1>1, <1>2, <1>3, <2>1, <2>2 DEF StreamInv
  <2>5. \A i \in 1 .. Len(tx_queue') : tx_queue'[i] = Done' + Len(seg') + Count' + Kept' + i
    BY <1>1, <1>2, <1>3, <2>1, <2>2 DEF StreamInv
  <2>6. ASSUME NEW c \in 1 .. Done' PROVE Sent(c)'
    <3>1. CASE c <= Done
      BY <1>1, <1>2, <3>1 DEF StreamInv, Sent
    <3>2. CASE c > Done
      <4>1. c - Done \in 1 .. Len(seg) /\ Done + (c - Done) = c
        BY <1>2, <2>2, <3>2
      <4>2. seg[c - Done] = c
        BY <4>1 DEF StreamInv
      <4>3. Sent(c)
        BY <4>1, <4>2 DEF SuccessInv, Written
      <4> QED
        BY <1>1, <4>3 DEF Sent
    <3> QED
      BY <1>2, <2>2, <3>1, <3>2
  <2> QED
    BY <2>1, <2>2, <2>3, <2>4, <2>5, <2>6 DEF StreamInv
<1> QED
  BY <1>4, <1>5 DEF Written

LEMMA PacketSentStream ==
  ASSUME TypeOK, StreamInv, PacketSent
  PROVE  StreamInv' /\ Done' = Done
<1>1. UNCHANGED <<sent, tx_queue, buffer, start, end, pend, seg>>
  BY DEF PacketSent, ring, thread
<1>2. pma \in Seq(Bytes) /\ received' = received \o pma
  BY DEF TypeOK, PacketSent
<1>3. \A c : Sent(c) => Sent(c)'
  BY <1>2, ReceivedGrows
<1>4. Done' = Done /\ Count' = Count /\ Kept' = Kept
  BY <1>1 DEF Done, Count, Kept
<1>5. \A i : Plus(start, i)' = Plus(start, i)
  BY <1>1 DEF Plus
<1> QED
  BY <1>1, <1>3, <1>4, <1>5 DEF StreamInv

LEMMA StreamUnchanged ==
  ASSUME StreamInv, UNCHANGED <<sent, tx_queue, ring, pend, seg, received>>
  PROVE  StreamInv' /\ Done' = Done
<1>1. UNCHANGED <<sent, tx_queue, buffer, start, end, pend, seg, received>>
  BY DEF ring
<1> QED
  BY <1>1 DEF StreamInv, Done, Count, Kept, Sent, Plus

LEMMA StreamStep ==
  ASSUME TxInv, [Next]_vars
  PROVE  StreamInv' /\ (Written \/ Done' = Done)
<1>1. CASE PutC
  BY <1>1, PutCStream DEF TxInv
<1>2. CASE Receive
  BY <1>2, ReceiveStream DEF TxInv
<1>3. CASE GetSeg
  BY <1>3, GetSegStream DEF TxInv
<1>4. CASE Flushed
  BY <1>4, FlushedStream DEF TxInv
<1>5. CASE Written
  BY <1>5, WrittenStream DEF TxInv
<1>6. CASE PacketSent
  BY <1>6, PacketSentStream DEF TxInv
<1>7. CASE UNCHANGED <<sent, tx_queue, ring, pend, seg, received>>
  BY <1>7, StreamUnchanged DEF TxInv
<1>8. TxStart \/ ReceiveTimeout \/ Retry \/ WriteBegin \/ WaitActivated \/ SetPending
        \/ LlTransmit \/ Woken \/ ControlReply \/ BusReset \/ Unconfigure \/ Configure
        \/ UNCHANGED vars
      => UNCHANGED <<sent, tx_queue, ring, pend, seg, received>>
  BY DEF TxStart, ReceiveTimeout, Retry, WriteBegin, WaitActivated, SetPending, LlTransmit,
         Woken, ControlReply, BusReset, Unconfigure, Teardown, Configure, thread, vars
<1> QED
  BY <1>1, <1>2, <1>3, <1>4, <1>5, <1>6, <1>7, <1>8 DEF Next, TxThread

-----------------------------------------------------------------------------
(* The thread, the device and the transfer.                                *)

LEMMA PlaceStep ==
  ASSUME TxInv, [Next]_vars
  PROVE  PlaceInv'
<1> USE DEF PlaceInv
<1>1. /\ PlaceInv /\ mine \in Nat /\ gen \in Nat /\ (state = "CONFIGURED" => gen >= 1)
      /\ seg = << >> \/ seg # << >>
  BY DEF TxInv, TypeOK, DeviceInv
<1>2. CASE PutC
  BY <1>1, <1>2 DEF PutC, thread, device
<1>3. CASE TxStart \/ ReceiveTimeout \/ Retry \/ WaitActivated \/ SetPending \/ LlTransmit
  BY <1>1, <1>3 DEF TxStart, ReceiveTimeout, Retry, WaitActivated, SetPending, LlTransmit, device
<1>4. CASE Receive
  BY <1>1, <1>4 DEF Receive, device
<1>5. CASE GetSeg
  <2>1. Len(seg') >= 1
    BY <1>5, SegmentIs DEF TxInv, GetSeg
  <2>2. seg' # << >>
    BY <2>1
  <2> QED
    BY <1>1, <1>5, <2>2 DEF GetSeg, device
<1>6. CASE Flushed
  BY <1>1, <1>6 DEF Flushed, device
<1>7. CASE WriteBegin
  BY <1>1, <1>7 DEF WriteBegin, device
<1>8. CASE Woken \/ Written
  BY <1>1, <1>8 DEF Woken, Written, device
<1>9. CASE PacketSent \/ ControlReply \/ BusReset \/ Unconfigure \/ UNCHANGED vars
  BY <1>1, <1>9 DEF PacketSent, ControlReply, BusReset, Unconfigure, Teardown, thread, device, vars
<1>10. CASE Configure
  BY <1>1, <1>10 DEF Configure, thread
<1> QED
  BY <1>2, <1>3, <1>4, <1>5, <1>6, <1>7, <1>8, <1>9, <1>10 DEF Next, TxThread

LEMMA DeviceStep ==
  ASSUME TxInv, [Next]_vars
  PROVE  DeviceInv' /\ gen' \in 0 .. MaxTeardowns + 1 /\ teardowns' \in 0 .. MaxTeardowns
<1> USE DEF DeviceInv
<1>1. /\ DeviceInv /\ gen \in Nat /\ gen <= MaxTeardowns + 1
      /\ teardowns \in Nat /\ teardowns <= MaxTeardowns /\ MaxTeardowns \in Nat
      /\ state \in {"ATTACHED", "CONFIGURED"} /\ activated \in {"set", "clear"}
  BY BoundsAssumption DEF TxInv, TypeOK
<1>2. CASE UNCHANGED <<device, teardowns>>
  BY <1>1, <1>2 DEF device
<1>3. CASE Teardown
  <2>1. CASE state = "CONFIGURED"
    BY <1>1, <1>3, <2>1 DEF Teardown, Deactivate
  <2>2. CASE state # "CONFIGURED"
    BY <1>1, <1>3, <2>2 DEF Teardown
  <2> QED
    BY <2>1, <2>2
<1>4. CASE Configure
  BY <1>1, <1>4 DEF Configure
<1>5. PutC \/ TxStart \/ Receive \/ ReceiveTimeout \/ GetSeg \/ Flushed \/ Retry
        \/ WriteBegin \/ WaitActivated \/ SetPending \/ LlTransmit \/ Woken \/ Written
        \/ PacketSent \/ ControlReply \/ UNCHANGED vars
      => UNCHANGED <<device, teardowns>>
  BY DEF PutC, TxStart, Receive, ReceiveTimeout, GetSeg, Flushed, Retry, WriteBegin,
         WaitActivated, SetPending, LlTransmit, Woken, Written, PacketSent, ControlReply, vars
<1> QED
  BY <1>2, <1>3, <1>4, <1>5 DEF Next, TxThread, BusReset, Unconfigure

(* The types of what a transfer is made of.                                 *)
TransferType ==
  /\ status \in [Gens -> {"IDLE", "PENDING", "COMPLETED", "ABORTED"}]
  /\ completion_code \in [Gens -> {"none", "success", "bus_reset"}]
  /\ semaphore \in [Gens -> {0, 1}]
  /\ mine \in 0 .. MaxTeardowns + 1 /\ gen \in 0 .. MaxTeardowns + 1
  /\ MaxTeardowns \in Nat
  /\ Gens = 1 .. MaxTeardowns + 1

LEMMA TransferTypes == TypeOK => TransferType
BY BoundsAssumption DEF TypeOK, Gens, TransferType

(* An interrupt that tears the configuration down ends the transfer that is *)
(* pending, and no other.                                                   *)
LEMMA TeardownTransfer ==
  ASSUME TxInv, Teardown
  PROVE  TransferInv' /\ semaphore' \in [Gens -> {0, 1}]
         /\ status' \in [Gens -> {"IDLE", "PENDING", "COMPLETED", "ABORTED"}]
<1> USE DEF TransferType
<1>1. /\ UNCHANGED <<gen, pma>> /\ UNCHANGED <<pc, seg, mine>> /\ state' = "ATTACHED"
  BY DEF Teardown, thread
<1>2. /\ TransferInv /\ TransferType /\ mine <= gen /\ gen \in Int /\ mine \in Int
      /\ state = "CONFIGURED" => gen \in Gens
  BY TransferTypes DEF TxInv, TypeOK, PlaceInv, DeviceInv, Gens
<1>3. CASE UNCHANGED <<status, semaphore>>
  BY <1>1, <1>2, <1>3 DEF TransferInv
<1>4. CASE /\ state = "CONFIGURED" /\ status[gen] = "PENDING"
           /\ status' = [status EXCEPT ![gen] = "ABORTED"]
           /\ semaphore' = [semaphore EXCEPT ![gen] = @ + 1]
  <2>1. gen = mine /\ pc \in {"transmit", "wait"} /\ gen \in Gens
    BY <1>2, <1>4 DEF TransferInv
  <2>2. \A g \in Gens : semaphore[g] = 0
    BY <1>2, <1>4, <2>1 DEF TransferInv
  <2>3. \A g \in Gens : semaphore'[g] = IF g = gen THEN 1 ELSE 0
    BY <1>2, <1>4, <2>1, <2>2
  <2>4. \A g \in Gens : status'[g] = IF g = gen THEN "ABORTED" ELSE status[g]
    BY <1>2, <1>4, <2>1
  <2>5. semaphore' \in [Gens -> {0, 1}]
    BY <1>2, <1>4, <2>1, <2>2
  <2>6. status' \in [Gens -> {"IDLE", "PENDING", "COMPLETED", "ABORTED"}]
    BY <1>2, <1>4, <2>1
  <2>7. TransferInv'
    BY <1>1, <1>2, <2>1, <2>3, <2>4 DEF TransferInv
  <2> QED
    BY <2>5, <2>6, <2>7
<1> QED
  BY <1>2, <1>3, <1>4 DEF Teardown, Deactivate, transfer

LEMMA PacketSentTransfer ==
  ASSUME TxInv, PacketSent
  PROVE  TransferInv' /\ semaphore' \in [Gens -> {0, 1}]
         /\ pc = "wait" /\ Carries /\ gen \in Gens
<1> USE DEF TransferType
<1>1. /\ UNCHANGED <<gen, state, pc, seg, mine>> /\ stat_tx' = "NAK"
      /\ state = "CONFIGURED" /\ stat_tx = "VALID"
      /\ status' = [status EXCEPT ![gen] = "COMPLETED"]
      /\ semaphore' = [semaphore EXCEPT ![gen] = @ + 1]
  BY DEF PacketSent, thread, device
<1>2. /\ TransferInv /\ TransferType /\ mine <= gen /\ gen \in Int /\ mine \in Int
      /\ gen \in Gens /\ mine \in Gens
  <2>1. /\ TransferInv /\ TransferType /\ mine <= gen /\ gen \in Int /\ mine \in Int
        /\ gen \in Gens
    BY <1>1, TransferTypes DEF TxInv, TypeOK, PlaceInv, DeviceInv, Gens
  <2>2. pc = "wait"
    BY <1>1, <2>1 DEF TransferInv
  <2>3. mine >= 1
    BY <2>2 DEF TxInv, PlaceInv
  <2> QED
    BY <2>1, <2>3 DEF Gens
<1>3. pc = "wait" /\ Carries /\ status[mine] = "PENDING" /\ semaphore[gen] = 0
  BY <1>1, <1>2 DEF TransferInv
<1>4. \A g \in Gens : semaphore'[g] = IF g = gen THEN 1 ELSE semaphore[g]
  BY <1>1, <1>2, <1>3
<1>5. \A g \in Gens : status'[g] = IF g = gen THEN "COMPLETED" ELSE status[g]
  BY <1>1, <1>2
<1>6. semaphore' \in [Gens -> {0, 1}]
  BY <1>1, <1>2, <1>3
<1>7. TransferInv'
  <2>1. ASSUME NEW g \in Gens, status'[g] = "PENDING"
        PROVE  g = mine' /\ pc' \in {"transmit", "wait"}
    BY <1>1, <1>2, <1>3, <1>5, <2>1 DEF TransferInv
  <2>2. ASSUME NEW g \in Gens, semaphore'[g] = 1
        PROVE  \/ g = mine' /\ pc' \in {"transmit", "wait"} /\ status'[g] # "PENDING"
               \/ mine' < g /\ g <= gen' /\ pc' = "wait" /\ status'[mine'] = "PENDING"
    <3>1. CASE gen = mine
      <4>1. g = gen
        BY <1>2, <1>3, <1>4, <2>2, <3>1 DEF TransferInv
      <4> QED
        BY <1>1, <1>3, <1>5, <3>1, <4>1
    <3>2. CASE gen # mine
      <4>1. g # mine
        BY <1>2, <1>3, <1>4, <2>2, <3>2 DEF TransferInv
      <4>2. mine < g /\ g <= gen
        BY <1>2, <1>3, <1>4, <2>2, <3>2, <4>1 DEF TransferInv
      <4> QED
        BY <1>1, <1>2, <1>3, <1>5, <3>2, <4>2
    <3> QED
      BY <3>1, <3>2
  <2> QED
    BY <1>1, <1>3, <2>1, <2>2 DEF TransferInv
<1> QED
  BY <1>2, <1>3, <1>6, <1>7

LEMMA WokenTransfer ==
  ASSUME TxInv, Woken
  PROVE  TransferInv' /\ semaphore' \in [Gens -> {0, 1}]
         /\ mine \in Gens /\ semaphore[mine] = 1
<1> USE DEF TransferType
<1>1. /\ UNCHANGED <<gen, state, seg, mine, status, stat_tx, pma>>
      /\ pc = "wait" /\ pc' \in {"written", "sleep"} /\ semaphore[mine] > 0
      /\ semaphore' = [semaphore EXCEPT ![mine] = @ - 1]
  BY DEF Woken, device, hardware
<1>2. /\ TransferInv /\ TransferType /\ mine \in Gens
  BY <1>1, TransferTypes DEF TxInv, PlaceInv, Gens
<1>3. semaphore[mine] = 1
  <2>1. semaphore[mine] \in {0, 1}
    BY <1>2
  <2> QED
    BY <1>1, <2>1
<1>4. \A g \in Gens : status[g] # "PENDING"
  BY <1>2, <1>3 DEF TransferInv
<1>5. \A g \in Gens : semaphore[g] = 1 => g = mine
  BY <1>2, <1>4 DEF TransferInv
<1>6. \A g \in Gens : semaphore'[g] = 0
  <2>1. ASSUME NEW g \in Gens PROVE semaphore'[g] = 0
    <3>1. semaphore[g] \in {0, 1}
      BY <1>2
    <3> QED
      BY <1>1, <1>2, <1>3, <1>5, <3>1
  <2> QED
    BY <2>1
<1>7. semaphore' \in [Gens -> {0, 1}]
  BY <1>1, <1>2, <1>3
<1>8. TransferInv'
  BY <1>1, <1>2, <1>4, <1>6 DEF TransferInv
<1> QED
  BY <1>2, <1>3, <1>7, <1>8

LEMMA TransferStep ==
  ASSUME TxInv, [Next]_vars
  PROVE  TransferInv' /\ semaphore' \in [Gens -> {0, 1}]
<1> USE DEF TransferType
<1>1. TransferInv /\ TransferType
  BY TransferTypes DEF TxInv
<1>2. CASE \/ PutC \/ TxStart \/ Receive \/ ReceiveTimeout \/ Flushed
           \/ WaitActivated \/ GetSeg \/ Retry \/ UNCHANGED vars
  <2>1. /\ UNCHANGED <<gen, state, mine, status, semaphore, stat_tx, pma>>
        /\ \/ pc' = pc /\ UNCHANGED <<pma, seg>>
           \/ {pc, pc'} \cap {"transmit", "wait"} = {}
    BY <1>2 DEF PutC, TxStart, Receive, ReceiveTimeout, Flushed, WaitActivated, GetSeg, Retry,
         device, hardware, transfer, thread, vars
  <2>2. UNCHANGED <<pma, seg>> => Carries' = Carries
    BY DEF Carries
  <2> QED
    BY <1>1, <2>1, <2>2 DEF TransferInv
<1>3. CASE WriteBegin
  <2>1. /\ UNCHANGED <<gen, state, seg, status, semaphore, stat_tx, pma>>
        /\ pc = "write" /\ pc' \in {"activated", "sleep"}
    BY <1>3 DEF WriteBegin, device, hardware, transfer
  <2> QED
    BY <1>1, <2>1 DEF TransferInv
<1>4. CASE SetPending
  <2>1. /\ UNCHANGED <<gen, state, seg, mine, semaphore, stat_tx, pma>>
        /\ pc = "request" /\ pc' = "transmit"
        /\ status' = [status EXCEPT ![mine] = "PENDING"]
    BY <1>4 DEF SetPending, device, hardware, transfer
  <2>2. mine \in Gens
    BY <1>1, <2>1 DEF TxInv, PlaceInv, Gens
  <2>3. \A g \in Gens : status'[g] = IF g = mine THEN "PENDING" ELSE status[g]
    BY <1>1, <2>1, <2>2
  <2> QED
    BY <1>1, <2>1, <2>2, <2>3 DEF TransferInv
<1>5. CASE LlTransmit
  <2>1. /\ UNCHANGED <<gen, state, seg, mine, status, semaphore>>
        /\ pc = "transmit" /\ pc' = "wait" /\ stat_tx' = "VALID" /\ pma' = seg
    BY <1>5 DEF LlTransmit, device, hardware, transfer
  <2>2. state = "CONFIGURED" => status[mine] = "PENDING"
    BY <1>1, <2>1 DEF TransferInv
  <2>3. state = "CONFIGURED" => gen \in Gens
    BY <1>1 DEF TxInv, DeviceInv, Gens
  <2>4. state = "CONFIGURED" => semaphore[gen] # 1
    BY <1>1, <2>1, <2>2, <2>3 DEF TransferInv
  <2>5. state = "CONFIGURED" => semaphore[gen] = 0
    BY <1>1, <2>3, <2>4
  <2>6. Carries'
    <3>1. Len(seg) \in Nat
      BY DEF TxInv, TypeOK
    <3> QED
      BY <2>1, <3>1 DEF Carries
  <2> QED
    BY <1>1, <2>1, <2>2, <2>5, <2>6 DEF TransferInv
<1>6. CASE Woken
  BY <1>6, WokenTransfer
<1>7. CASE Written
  <2>1. /\ UNCHANGED <<gen, state, mine, status, semaphore, stat_tx, pma>>
        /\ pc = "written" /\ pc' \in {"flush", "sleep"}
    BY <1>7 DEF Written, device, hardware, transfer
  <2> QED
    BY <1>1, <2>1 DEF TransferInv
<1>8. CASE PacketSent
  BY <1>8, PacketSentTransfer
<1>9. CASE BusReset \/ Unconfigure
  BY <1>9, TeardownTransfer DEF BusReset, Unconfigure
<1>10. CASE Configure
  <2>1. /\ UNCHANGED <<pc, seg, mine, status, semaphore, pma>> /\ stat_tx' = "NAK"
        /\ gen' = gen + 1 /\ pc # "transmit"
    BY <1>10 DEF Configure, thread, transfer, Blocked
  <2> QED
    BY <1>1, <2>1 DEF TransferInv
<1>11. CASE ControlReply
  <2>1. UNCHANGED <<gen, state, pc, seg, mine, status, semaphore, stat_tx>>
    BY <1>11 DEF ControlReply, device, transfer, thread
  <2>2. Carries => Carries'
    BY <1>11, ReplyCarried DEF TxInv
  <2> QED
    BY <1>1, <2>1, <2>2 DEF TransferInv
<1> QED
  BY <1>2, <1>3, <1>4, <1>5, <1>6, <1>7, <1>8, <1>9, <1>10, <1>11 DEF Next, TxThread

LEMMA SuccessStep ==
  ASSUME TxInv, [Next]_vars
  PROVE  SuccessInv' /\ completion_code' \in [Gens -> {"none", "success", "bus_reset"}]
<1> USE DEF TransferType
<1>1. SuccessInv /\ TransferInv /\ TransferType
  BY TransferTypes DEF TxInv
<1>2. CASE UNCHANGED <<completion_code, semaphore, received>> /\ pc # "wait" /\ pc' # "written"
  <2>1. \A g \in Gens : ~(semaphore[g] = 1 /\ completion_code[g] = "success")
    BY <1>1, <1>2 DEF SuccessInv
  <2> QED
    BY <1>1, <1>2, <2>1 DEF SuccessInv
<1>3. CASE UNCHANGED <<completion_code, semaphore, received, pc, seg>>
  BY <1>1, <1>3 DEF SuccessInv, Sent
<1>4. CASE Woken
  <2>1. /\ UNCHANGED <<completion_code, received, seg>>
        /\ pc' = IF completion_code[mine] = "success" THEN "written" ELSE "sleep"
        /\ semaphore' = [semaphore EXCEPT ![mine] = @ - 1]
    BY <1>4 DEF Woken
  <2>2. mine \in Gens /\ semaphore[mine] = 1 /\ TransferInv'
    BY <1>4, WokenTransfer
  <2>3. \A g \in Gens : semaphore'[g] # 1
    <3>1. pc' \notin {"transmit", "wait"}
      BY <2>1
    <3> QED
      BY <2>2, <3>1 DEF TransferInv
  <2>4. pc' = "written" => \A i \in 1 .. Len(seg) : Sent(seg[i])
    BY <1>1, <2>1, <2>2 DEF SuccessInv
  <2> QED
    BY <1>1, <2>1, <2>3, <2>4 DEF SuccessInv, Sent
<1>5. CASE PacketSent
  <2>1. /\ pc = "wait" /\ Carries /\ gen \in Gens
    BY <1>5, PacketSentTransfer
  <2>2. /\ UNCHANGED <<pc, seg>> /\ received' = received \o pma
        /\ completion_code' = [completion_code EXCEPT ![gen] = "success"]
    BY <1>5, <2>1 DEF PacketSent, thread
  <2>3. /\ pma \in Seq(Bytes) /\ Len(pma) = Len(seg)
        /\ \A i \in 1 .. Len(seg) :
             Place(pma[i]) = seg[i] /\ (pma[i] = seg[i] \/ "reply" \in Allowed)
    BY <2>1, CarriedIs DEF TxInv
  <2>4. \A i \in 1 .. Len(seg) : Sent(seg[i])'
    BY <2>2, <2>3, ReceivedGrows DEF TxInv
  <2>5. \A i \in 1 .. Len(seg') : Sent(seg[i])'
    BY <2>2, <2>4
  <2> QED
    BY <1>1, <2>1, <2>2, <2>5 DEF SuccessInv
<1>6. CASE Teardown
  <2>1. UNCHANGED <<received, pc, seg, gen>>
    BY <1>6 DEF Teardown, thread
  <2>2. CASE UNCHANGED transfer
    BY <1>3, <2>1, <2>2 DEF transfer
  <2>3. CASE state = "CONFIGURED" /\ Deactivate
    <3>1. gen \in Gens
      BY <1>1, <2>3 DEF TxInv, DeviceInv
    <3>2. completion_code' = [completion_code EXCEPT ![gen] = "bus_reset"]
      BY <2>3 DEF Deactivate
    <3>3. \A g \in Gens : completion_code'[g] = "success" =>
            g # gen /\ completion_code[g] = "success" /\ semaphore'[g] = semaphore[g]
      BY <1>1, <2>3, <3>1, <3>2 DEF Deactivate
    <3> QED
      BY <1>1, <2>1, <3>1, <3>2, <3>3 DEF SuccessInv, Sent
  <2> QED
    BY <1>6, <2>2, <2>3 DEF Teardown
<1>7. CASE Written
  BY <1>2, <1>7 DEF Written, transfer
<1>8. TxStart \/ Receive \/ ReceiveTimeout \/ GetSeg \/ Flushed \/ Retry
        \/ WriteBegin \/ WaitActivated \/ SetPending \/ LlTransmit
      => UNCHANGED <<completion_code, semaphore, received>> /\ pc # "wait" /\ pc' # "written"
  BY DEF TxStart, Receive, ReceiveTimeout, GetSeg, Flushed, Retry, WriteBegin,
         WaitActivated, SetPending, LlTransmit, transfer
<1>9. PutC \/ Configure \/ ControlReply \/ UNCHANGED vars
      => UNCHANGED <<completion_code, semaphore, received, pc, seg>>
  BY DEF PutC, Configure, ControlReply, transfer, thread, vars
<1> QED
  BY <1>2, <1>3, <1>4, <1>5, <1>6, <1>7, <1>8, <1>9 DEF Next, TxThread, BusReset, Unconfigure

-----------------------------------------------------------------------------
(* The types.                                                              *)

LEMMA RingStep ==
  ASSUME TxInv, [Next]_vars
  PROVE  /\ buffer' \in [Slots -> 0 .. NChars] /\ start' \in Slots /\ end' \in Slots
         /\ tx_queue' \in Seq(Chars) /\ Len(tx_queue') <= QueueLen
         /\ sent' \in 0 .. NChars /\ pend' \in 0 .. NChars
<1>1. /\ buffer \in [Slots -> 0 .. NChars] /\ start \in Slots /\ end \in Slots
      /\ tx_queue \in Seq(Chars) /\ Len(tx_queue) <= QueueLen /\ Len(tx_queue) \in Nat
      /\ sent \in 0 .. NChars /\ pend \in 0 .. NChars
      /\ NChars \in Nat /\ QueueLen \in Nat
  BY SizesAssumption, BoundsAssumption DEF TxInv, TypeOK
<1>2. CASE PutC
  <2>1. /\ sent < NChars /\ sent' = sent + 1 /\ Len(tx_queue) < QueueLen
        /\ tx_queue' = Append(tx_queue, sent + 1)
        /\ UNCHANGED <<buffer, start, end, pend>>
    BY <1>2 DEF PutC, ring, thread
  <2>2. sent' \in 0 .. NChars /\ sent + 1 \in Chars
    BY <1>1, <2>1 DEF Chars
  <2>3. tx_queue' \in Seq(Chars) /\ Len(tx_queue') = Len(tx_queue) + 1
    BY <1>1, <2>1, <2>2
  <2>4. Len(tx_queue') <= QueueLen
    BY <1>1, <2>1, <2>3
  <2> QED
    BY <1>1, <2>1, <2>2, <2>3, <2>4
<1>3. CASE Receive
  <2>1. /\ sent' = sent /\ tx_queue' = Tail(tx_queue) /\ tx_queue # << >>
    BY <1>3 DEF Receive
  <2>2. /\ Head(tx_queue) \in Chars /\ tx_queue' \in Seq(Chars)
        /\ Len(tx_queue') = Len(tx_queue) - 1
    BY <1>1, <2>1, HeadTailProperties
  <2>3. Len(tx_queue') <= QueueLen
    BY <1>1, <2>2
  <2>4. CASE Full
    BY <1>1, <1>3, <2>1, <2>2, <2>3, <2>4 DEF Receive, ring, Chars
  <2>5. CASE ~Full
    BY <1>1, <1>3, <2>1, <2>2, <2>3, <2>5, PushAppends DEF Receive, TxInv
  <2> QED
    BY <2>4, <2>5
<1>4. CASE GetSeg
  <2>1. start' \in Slots
    BY <1>4, SegmentIs DEF TxInv, PlaceInv, GetSeg
  <2> QED
    BY <1>1, <1>4, <2>1 DEF GetSeg
<1>5. CASE Flushed
  <2>1. UNCHANGED <<sent, tx_queue>> /\ pend' = 0
    BY <1>5 DEF Flushed
  <2>2. CASE pend = 0
    BY <1>1, <1>5, <2>1, <2>2 DEF Flushed, ring
  <2>3. CASE pend # 0
    <3>1. pend \in Chars
      BY <1>1, <2>3 DEF Chars
    <3>2. ~Full
      <4>1. start = end /\ end \in Slots
        BY <1>1, <1>5 DEF Flushed, Empty
      <4> QED
        BY <4>1, PlusIs, SizesAssumption DEF Full, Slots
    <3> QED
      BY <1>1, <1>5, <2>1, <2>3, <3>1, <3>2, PushAppends DEF Flushed, TxInv
  <2> QED
    BY <2>2, <2>3
<1>6. TxStart \/ ReceiveTimeout \/ Retry \/ WriteBegin \/ WaitActivated \/ SetPending
        \/ LlTransmit \/ Woken \/ Written \/ PacketSent \/ ControlReply \/ BusReset
        \/ Unconfigure \/ Configure \/ UNCHANGED vars
      => UNCHANGED <<sent, tx_queue, buffer, start, end, pend>>
  BY DEF TxStart, ReceiveTimeout, Retry, WriteBegin, WaitActivated, SetPending, LlTransmit,
         Woken, Written, PacketSent, ControlReply, BusReset, Unconfigure, Teardown, Configure,
         thread, ring, vars
<1> QED
  BY <1>1, <1>2, <1>3, <1>4, <1>5, <1>6 DEF Next, TxThread

LEMMA ThreadStep ==
  ASSUME TxInv, [Next]_vars
  PROVE  /\ wait' \in {"forever", "tick"}
         /\ pc' \in {"start", "idle", "flush", "write", "activated", "request", "transmit",
                     "wait", "written", "sleep"}
         /\ seg' \in Seq(Chars) /\ Len(seg') < RingSize
         /\ mine' \in 0 .. MaxTeardowns + 1
<1>1. /\ wait \in {"forever", "tick"}
      /\ pc \in {"start", "idle", "flush", "write", "activated", "request", "transmit",
                 "wait", "written", "sleep"}
      /\ seg \in Seq(Chars) /\ Len(seg) < RingSize
      /\ mine \in 0 .. MaxTeardowns + 1 /\ gen \in 0 .. MaxTeardowns + 1
  BY DEF TxInv, TypeOK
<1>2. CASE GetSeg
  <2>1. seg' \in Seq(Chars) /\ Len(seg') < RingSize
    <3>1. SegLen \in 1 .. RingSize - 1 /\ seg' \in Seq(Chars) /\ Len(seg') = SegLen
      BY <1>2, SegmentIs DEF TxInv, PlaceInv, GetSeg
    <3> QED
      BY <3>1, SizesAssumption
  <2> QED
    BY <1>1, <1>2, <2>1 DEF GetSeg
<1>3. CASE Written
  <2>1. << >> \in Seq(Chars) /\ Len(<< >>) < RingSize
    BY SizesAssumption
  <2> QED
    BY <1>1, <1>3, <2>1 DEF Written
<1>4. CASE \/ TxStart \/ Receive \/ ReceiveTimeout \/ Flushed \/ Retry \/ WriteBegin
           \/ WaitActivated \/ SetPending \/ LlTransmit \/ Woken
  <2>1. seg' = seg
    BY <1>4 DEF TxStart, Receive, ReceiveTimeout, Flushed, Retry, WriteBegin,
                WaitActivated, SetPending, LlTransmit, Woken
  <2>2. /\ wait' \in {wait, "forever", "tick"} /\ mine' \in {mine, gen}
        /\ pc' \in {pc, "idle", "flush", "write", "activated", "request", "transmit",
                    "wait", "written", "sleep"}
    BY <1>4 DEF TxStart, Receive, ReceiveTimeout, Flushed, Retry, WriteBegin,
                WaitActivated, SetPending, LlTransmit, Woken
  <2> QED
    BY <1>1, <2>1, <2>2
<1>5. PutC \/ PacketSent \/ ControlReply \/ BusReset \/ Unconfigure \/ Configure
        \/ UNCHANGED vars
      => UNCHANGED <<wait, pc, seg, mine>>
  BY DEF PutC, PacketSent, ControlReply, BusReset, Unconfigure, Teardown, Configure, thread,
         vars
<1> QED
  BY <1>1, <1>2, <1>3, <1>4, <1>5 DEF Next, TxThread

LEMMA HostStep ==
  ASSUME TxInv, [Next]_vars
  PROVE  /\ state' \in {"ATTACHED", "CONFIGURED"} /\ activated' \in {"set", "clear"}
         /\ status' \in [Gens -> {"IDLE", "PENDING", "COMPLETED", "ABORTED"}]
         /\ stat_tx' \in {"DIS", "NAK", "VALID"} /\ pma' \in Seq(Bytes)
         /\ received' \in Seq(Bytes) /\ begun' \in 0 .. Len(received')
<1> USE DEF TransferType
<1>1. /\ state \in {"ATTACHED", "CONFIGURED"} /\ activated \in {"set", "clear"}
      /\ status \in [Gens -> {"IDLE", "PENDING", "COMPLETED", "ABORTED"}]
      /\ stat_tx \in {"DIS", "NAK", "VALID"} /\ pma \in Seq(Bytes) /\ seg \in Seq(Bytes)
      /\ received \in Seq(Bytes) /\ begun \in 0 .. Len(received) /\ Len(received) \in Nat
  <2>1. Chars \subseteq Bytes
    BY DEF Bytes
  <2> QED
    BY <2>1, SeqMonotonic DEF TxInv, TypeOK
<1>2. CASE SetPending
  <2>1. status' \in [Gens -> {"IDLE", "PENDING", "COMPLETED", "ABORTED"}]
    BY <1>1, <1>2 DEF SetPending
  <2> QED
    BY <1>1, <1>2, <2>1 DEF SetPending, device, hardware
<1>3. CASE LlTransmit
  BY <1>1, <1>3 DEF LlTransmit, device, transfer
<1>4. CASE PacketSent
  <2>1. status' \in [Gens -> {"IDLE", "PENDING", "COMPLETED", "ABORTED"}]
    BY <1>1, <1>4 DEF PacketSent
  <2>2. received' \in Seq(Bytes) /\ Len(received') = Len(received) + Len(pma)
    BY <1>1, <1>4, ReceivedGrows DEF PacketSent, TxInv
  <2>3. Len(pma) \in Nat /\ begun' = begun
    BY <1>1, <1>4 DEF PacketSent, device
  <2>4. begun' \in 0 .. Len(received')
    BY <1>1, <2>2, <2>3
  <2> QED
    BY <1>1, <1>4, <2>1, <2>2, <2>4 DEF PacketSent, device
<1>5. CASE Teardown
  <2>1. status' \in [Gens -> {"IDLE", "PENDING", "COMPLETED", "ABORTED"}]
    BY <1>5, TeardownTransfer
  <2> QED
    BY <1>1, <1>5, <2>1 DEF Teardown, Deactivate
<1>6. CASE Configure
  BY <1>1, <1>6 DEF Configure, transfer
<1>7. \/ PutC \/ TxStart \/ Receive \/ ReceiveTimeout \/ GetSeg \/ Flushed \/ Retry
      \/ WriteBegin \/ WaitActivated \/ Woken \/ Written \/ UNCHANGED vars
      => UNCHANGED <<state, activated, status, stat_tx, pma, received, begun>>
  BY DEF PutC, TxStart, Receive, ReceiveTimeout, GetSeg, Flushed, Retry, WriteBegin,
         WaitActivated, Woken, Written, device, transfer, hardware, vars
<1>8. CASE ControlReply
  <2>1. pma' \in Seq(Bytes)
    BY <1>8, ReplyCarried DEF TxInv
  <2> QED
    BY <1>1, <1>8, <2>1 DEF ControlReply, device, transfer
<1> QED
  BY <1>1, <1>2, <1>3, <1>4, <1>5, <1>6, <1>7, <1>8 DEF Next, TxThread, BusReset, Unconfigure

-----------------------------------------------------------------------------
(* The invariant, and what follows from it.                                *)

LEMMA TxInvHolds == Spec => []TxInv
<1>1. TxInv /\ [Next]_vars => TxInv'
  <2> SUFFICES ASSUME TxInv, [Next]_vars PROVE TxInv'
    OBVIOUS
  <2>1. TypeOK'
    BY RingStep, ThreadStep, HostStep, DeviceStep, TransferStep, SuccessStep DEF TypeOK
  <2> QED
    BY <2>1, StreamStep, PlaceStep, DeviceStep, TransferStep, SuccessStep DEF TxInv
<1> QED
  BY InitHolds, <1>1, PTL DEF Spec

(* Every variable has its type: no token is left on a semaphore beside that *)
(* of the last transfer, in any interleaving of the thread with resets.     *)
THEOREM SerialTypeCorrect == Spec => []TypeOK
<1>1. TxInv => TypeOK
  BY DEF TxInv
<1> QED
  BY <1>1, TxInvHolds, PTL

(* What is on its way, element by element.                                  *)
LEMMA OnItsWayIs ==
  ASSUME TxInv
  PROVE  /\ Len(OnItsWay) = Len(seg) + Count + Kept + Len(tx_queue)
         /\ OnItsWay \in Seq(0 .. NChars)
         /\ \A i \in DOMAIN OnItsWay : OnItsWay[i] = Done + i
<1> DEFINE T == 0 .. NChars
           K == IF pend = 0 THEN << >> ELSE <<pend>>
           s2 == seg \o RingContents
           s3 == s2 \o K
           s4 == s3 \o tx_queue
<1>1. /\ seg \in Seq(T) /\ tx_queue \in Seq(T) /\ start \in Slots /\ end \in Slots
      /\ buffer \in [Slots -> T] /\ pend \in T
  <2>1. Chars \subseteq T
    BY DEF Chars
  <2> QED
    BY <2>1, SeqMonotonic DEF TxInv, TypeOK
<1>2. Count \in Nat /\ Count <= RingSize
  BY <1>1, CountIs, SizesAssumption DEF Slots
<1>3. Len(seg) \in Nat /\ Len(tx_queue) \in Nat /\ Done \in Nat /\ Kept \in Nat
  BY <1>1 DEF TxInv, StreamInv, Kept
<1>4. /\ RingContents \in Seq(T) /\ Len(RingContents) = Count
      /\ \A i \in 1 .. Count : RingContents[i] = Done + Len(seg) + i
  <2> DEFINE e(i) == buffer[Plus(start, i - 1)]
  <2>1. RingContents = [i \in 1 .. Count |-> e(i)]
    BY DEF RingContents, Count
  <2>2. \A i \in 1 .. Count : e(i) \in T /\ e(i) = Done + Len(seg) + i
    <3>1. ASSUME NEW i \in 1 .. Count PROVE e(i) \in T /\ e(i) = Done + Len(seg) + i
      <4>1. i - 1 \in 0 .. RingSize
        BY <1>2, SizesAssumption
      <4>2. Plus(start, i - 1) \in Slots
        <5>1. Plus(start, i - 1) = IF start + (i - 1) < RingSize THEN start + (i - 1)
                                   ELSE start + (i - 1) - RingSize
          BY <1>1, <4>1, PlusIs
        <5> QED
          BY <1>1, <1>2, <4>1, <5>1, SizesAssumption DEF Slots
      <4> QED
        BY <1>1, <4>2 DEF TxInv, StreamInv
    <3> QED
      BY <3>1
  <2> HIDE DEF e
  <2>3. RingContents \in Seq(T)
    BY <1>2, <2>1, <2>2, IsASeq
  <2>4. Len(RingContents) = Count /\ \A i \in 1 .. Count : RingContents[i] = e(i)
    BY <1>2, <2>1
  <2> QED
    BY <2>2, <2>3, <2>4
<1>5. /\ K \in Seq(T) /\ Len(K) = Kept
      /\ \A i \in 1 .. Kept : K[i] = Done + Len(seg) + Count + i
  <2>1. CASE pend = 0
    <3>1. K = << >> /\ Kept = 0
      BY <2>1 DEF Kept
    <3> HIDE DEF K
    <3> QED
      BY <3>1
  <2>2. CASE pend # 0
    <3>1. K = <<pend>> /\ Kept = 1 /\ pend = Done + Len(seg) + Count + 1
      BY <2>2 DEF Kept, TxInv, StreamInv
    <3> HIDE DEF K
    <3>2. K \in Seq(T) /\ Len(K) = 1 /\ K[1] = pend
      BY <1>1, <3>1
    <3>3. \A i \in 1 .. Kept : i = 1
      BY <3>1
    <3> QED
      BY <3>1, <3>2, <3>3
  <2> QED
    BY <2>1, <2>2
<1> HIDE DEF T, K, s2, s3, s4
<1>6. /\ s2 \in Seq(T) /\ Len(s2) = Len(seg) + Count
      /\ \A i \in 1 .. Len(seg) + Count : s2[i] = Done + i
  <2>1. /\ s2 \in Seq(T) /\ Len(s2) = Len(seg) + Count
        /\ \A i \in 1 .. Len(seg) + Count :
             s2[i] = IF i <= Len(seg) THEN seg[i] ELSE RingContents[i - Len(seg)]
    BY <1>1, <1>4, ConcatProperties DEF s2
  <2>2. ASSUME NEW i \in 1 .. Len(seg) + Count PROVE s2[i] = Done + i
    <3>1. CASE i <= Len(seg)
      <4>1. i \in 1 .. Len(seg)
        BY <1>3, <3>1
      <4> QED
        BY <2>1, <3>1, <4>1 DEF TxInv, StreamInv
    <3>2. CASE ~(i <= Len(seg))
      <4>1. i - Len(seg) \in 1 .. Count
        BY <1>2, <1>3, <3>2
      <4>2. RingContents[i - Len(seg)] = Done + Len(seg) + (i - Len(seg))
        BY <1>4, <4>1
      <4> QED
        BY <1>2, <1>3, <2>1, <3>2, <4>2
    <3> QED
      BY <3>1, <3>2
  <2> QED
    BY <2>1, <2>2
<1>7. /\ s3 \in Seq(T) /\ Len(s3) = Len(seg) + Count + Kept
      /\ \A i \in 1 .. Len(seg) + Count + Kept : s3[i] = Done + i
  <2> DEFINE k == Len(seg) + Count
  <2>1. /\ s3 \in Seq(T) /\ Len(s3) = k + Kept
        /\ \A i \in 1 .. k + Kept : s3[i] = IF i <= k THEN s2[i] ELSE K[i - k]
    <3>1. Len(s2) = k /\ Len(K) = Kept /\ s2 \in Seq(T) /\ K \in Seq(T)
      BY <1>5, <1>6
    <3>2. /\ s2 \o K \in Seq(T) /\ Len(s2 \o K) = Len(s2) + Len(K)
          /\ \A i \in 1 .. Len(s2) + Len(K) :
               (s2 \o K)[i] = IF i <= Len(s2) THEN s2[i] ELSE K[i - Len(s2)]
      BY <3>1, ConcatProperties
    <3> HIDE DEF k
    <3> QED
      BY <3>1, <3>2 DEF s3
  <2>2. k \in Nat /\ \A i \in 1 .. k : s2[i] = Done + i
    BY <1>2, <1>3, <1>6
  <2>3. \A i \in 1 .. Kept : K[i] = Done + k + i
    BY <1>2, <1>3, <1>5
  <2> HIDE DEF k
  <2>4. ASSUME NEW i \in 1 .. k + Kept PROVE s3[i] = Done + i
    <3>1. CASE i <= k
      <4>1. i \in 1 .. k
        BY <1>3, <2>2, <3>1
      <4> QED
        BY <2>1, <2>2, <3>1, <4>1
    <3>2. CASE ~(i <= k)
      <4>1. i - k \in 1 .. Kept
        BY <1>3, <2>2, <3>2
      <4>2. K[i - k] = Done + k + (i - k)
        BY <2>3, <4>1
      <4> QED
        BY <1>3, <2>1, <2>2, <3>2, <4>2
    <3> QED
      BY <3>1, <3>2
  <2> QED
    BY <2>1, <2>4 DEF k
<1>8. /\ s4 \in Seq(T) /\ Len(s4) = Len(seg) + Count + Kept + Len(tx_queue)
      /\ \A i \in 1 .. Len(seg) + Count + Kept + Len(tx_queue) : s4[i] = Done + i
  <2> DEFINE k == Len(seg) + Count + Kept
             q == Len(tx_queue)
  <2>1. /\ s4 \in Seq(T) /\ Len(s4) = k + q
        /\ \A i \in 1 .. k + q : s4[i] = IF i <= k THEN s3[i] ELSE tx_queue[i - k]
    BY <1>1, <1>7, ConcatProperties DEF s4
  <2>2. k \in Nat /\ \A i \in 1 .. k : s3[i] = Done + i
    BY <1>2, <1>3, <1>7
  <2>3. q \in Nat /\ \A i \in 1 .. q : tx_queue[i] = Done + k + i
    BY <1>2, <1>3 DEF TxInv, StreamInv
  <2> HIDE DEF k, q
  <2>4. ASSUME NEW i \in 1 .. k + q PROVE s4[i] = Done + i
    <3>1. CASE i <= k
      <4>1. i \in 1 .. k
        BY <2>2, <2>3, <3>1
      <4> QED
        BY <2>1, <2>2, <3>1, <4>1
    <3>2. CASE ~(i <= k)
      <4>1. i - k \in 1 .. q
        BY <2>2, <2>3, <3>2
      <4>2. tx_queue[i - k] = Done + k + (i - k)
        BY <2>3, <4>1
      <4> QED
        BY <1>3, <2>1, <2>2, <3>2, <4>2
    <3> QED
      BY <3>1, <3>2
  <2> QED
    BY <2>1, <2>4 DEF k, q
<1>9. OnItsWay = s4
  BY DEF OnItsWay, s4, s3, s2, K
<1>10. DOMAIN s4 = 1 .. Len(s4)
  BY <1>8, LenProperties
<1> QED
  BY <1>8, <1>9, <1>10 DEF T

(* NothingIsLost: what the firmware holds are the last characters put, in   *)
(* order, whatever the thread was doing when the configuration was torn     *)
(* down, and all before them have been received, but for those whose place  *)
(* in the packet memory a control reply took while their packet was armed.  *)
THEOREM SerialLosesNothing == Spec => []NothingIsLost
<1>1. TxInv => NothingIsLost
  <2> SUFFICES ASSUME TxInv PROVE NothingIsLost
    OBVIOUS
  <2>1. sent - Len(OnItsWay) = Done /\ Done >= 0
    BY OnItsWayIs DEF Done, TxInv, StreamInv
  <2>2. \A i \in DOMAIN OnItsWay : OnItsWay[i] = Done + i
    BY OnItsWayIs
  <2>3. \A c \in 1 .. Done : Sent(c)
    BY DEF TxInv, StreamInv
  <2> QED
    BY <2>1, <2>2, <2>3, Zenon DEF NothingIsLost
<1> QED
  BY <1>1, TxInvHolds, PTL

-----------------------------------------------------------------------------
(* What is received in one configuration.                                  *)

(* While nothing is received and nothing configured, what is new stays so.  *)
LEMMA NewUnchanged ==
  ASSUME UNCHANGED <<received, begun>>
  PROVE  (OncePerConfiguration => OncePerConfiguration') /\ \A c : NewHere(c)' = NewHere(c)
BY DEF OncePerConfiguration, NewHere

(* The packet of a segment whose characters are all new.                    *)
LEMMA PacketIsNew ==
  ASSUME TypeOK, StreamInv, Carries, received' = received \o pma, begun' = begun,
         OncePerConfiguration, \A c \in Chars : c > Done => NewHere(c)
  PROVE  /\ OncePerConfiguration'
         /\ \A c \in Chars : c > Done + Len(seg) => NewHere(c)'
<1> DEFINE n == Len(received)
           m == Len(seg)
<1>1. /\ received \in Seq(Bytes) /\ pma \in Seq(Bytes) /\ Len(pma) = m
      /\ n \in Nat /\ m \in Nat /\ begun \in 0 .. n /\ Done \in Nat
      /\ \A i \in 1 .. m : Place(pma[i]) = Done + i /\ Done + i \in Chars
      /\ Chars \subseteq Nat
  <2>1. /\ received \in Seq(Bytes) /\ seg \in Seq(Chars) /\ begun \in 0 .. n
        /\ Done \in Nat /\ \A i \in 1 .. m : seg[i] = Done + i
    BY DEF TypeOK, StreamInv
  <2>2. n \in Nat /\ \A i \in 1 .. m : seg[i] \in Chars
    BY <2>1
  <2>3. /\ pma \in Seq(Bytes) /\ Len(pma) = m /\ m \in Nat
        /\ \A i \in 1 .. m : Place(pma[i]) = seg[i]
    BY CarriedIs
  <2>4. Chars \subseteq Nat
    BY DEF Chars
  <2> HIDE DEF n, m
  <2> QED
    BY <2>1, <2>2, <2>3, <2>4
<1>2. /\ Len(received') = n + m
      /\ \A i \in 1 .. n + m : received'[i] = IF i <= n THEN received[i] ELSE pma[i - n]
  <2> DEFINE l == Len(pma)
  <2>1. /\ Len(received \o pma) = n + l
        /\ \A i \in 1 .. n + l :
             (received \o pma)[i] = IF i <= n THEN received[i] ELSE pma[i - n]
    BY <1>1, ConcatProperties
  <2>2. l = m
    BY <1>1
  <2> HIDE DEF l, m, n
  <2> QED
    BY <2>1, <2>2
<1>3. /\ \A i \in (begun + 1) .. n : \A c \in Chars : c > Done => Place(received[i]) # c
      /\ \A i, j \in (begun + 1) .. n : Place(received[i]) = Place(received[j]) => i = j
  BY DEF NewHere, OncePerConfiguration
<1> DEFINE now(i) == Place(received'[i])
           old(i) == Place(received[i])
<1>4. OncePerConfiguration' <=>
        \A i, j \in (begun + 1) .. n + m : now(i) = now(j) => i = j
  BY <1>2, Zenon DEF OncePerConfiguration, Place
<1>5. \A c : NewHere(c)' <=> \A i \in (begun + 1) .. n + m : now(i) # c
  BY <1>2 DEF NewHere, Place
\* What was received before, and what comes now.
<1>6. \A i \in (begun + 1) .. n : i \in 1 .. n + m /\ now(i) = old(i)
  <2> HIDE DEF n, m
  <2>1. \A i \in (begun + 1) .. n : i \in 1 .. n + m /\ i <= n
    BY <1>1
  <2> QED
    BY <1>2, <2>1
<1>7. \A i \in (n + 1) .. (n + m) :
        /\ now(i) = Done + (i - n) /\ now(i) \in Chars
        /\ now(i) > Done /\ now(i) <= Done + m
  <2> HIDE DEF n, m, now
  <2>1. ASSUME NEW i \in (n + 1) .. (n + m)
        PROVE  /\ now(i) = Done + (i - n) /\ now(i) \in Chars
               /\ now(i) > Done /\ now(i) <= Done + m
    <3>1. i \in 1 .. n + m /\ i - n \in 1 .. m /\ ~(i <= n)
      BY <1>1
    <3>2. now(i) = Place(pma[i - n])
      BY <1>2, <3>1 DEF now
    <3>3. now(i) = Done + (i - n) /\ now(i) \in Chars
      BY <1>1, <3>1, <3>2
    <3> QED
      BY <1>1, <3>1, <3>3
  <2> QED
    BY <2>1
<1>8. /\ \A i \in (begun + 1) .. n : \A c \in Chars : c > Done => old(i) # c
      /\ \A i, j \in (begun + 1) .. n : old(i) = old(j) => i = j
  BY <1>3
<1>9. begun \in Nat /\ n \in Nat /\ m \in Nat /\ begun <= n /\ Done \in Nat /\ Chars \subseteq Nat
  BY <1>1
<1>10. \A i \in (begun + 1) .. n + m : i \in (begun + 1) .. n \/ i \in (n + 1) .. (n + m)
  <2> HIDE DEF n, m, now, old
  <2> QED
    BY <1>9
<1> HIDE DEF n, m, now, old
<1>11. ASSUME NEW i \in (begun + 1) .. n + m, NEW j \in (begun + 1) .. n + m,
             now(i) = now(j)
      PROVE  i = j
  <2>1. CASE i \in (n + 1) .. (n + m) /\ j \in (n + 1) .. (n + m)
    <3>1. Done + (i - n) = Done + (j - n)
      BY <1>7, <1>11, <2>1
    <3> QED
      BY <1>9, <3>1
  <2>2. CASE i \in (begun + 1) .. n /\ j \in (begun + 1) .. n
    <3>1. old(i) = old(j)
      BY <1>6, <1>11, <2>2
    <3> QED
      BY <1>8, <2>2, <3>1
  <2>3. CASE i \in (n + 1) .. (n + m) /\ j \in (begun + 1) .. n
    BY <1>6, <1>7, <1>8, <1>11, <2>3
  <2>4. CASE i \in (begun + 1) .. n /\ j \in (n + 1) .. (n + m)
    BY <1>6, <1>7, <1>8, <1>11, <2>4
  <2> QED
    BY <1>10, <2>1, <2>2, <2>3, <2>4
<1>12. ASSUME NEW c \in Chars, c > Done + m, NEW i \in (begun + 1) .. n + m
      PROVE  now(i) # c
  <2>1. CASE i \in (n + 1) .. (n + m)
    <3>1. now(i) <= Done + m /\ now(i) \in Nat
      BY <1>7, <1>9, <2>1
    <3> QED
      BY <1>9, <1>12, <3>1
  <2>2. CASE i \in (begun + 1) .. n
    <3>1. c > Done
      BY <1>9, <1>12
    <3> QED
      BY <1>6, <1>8, <2>2, <3>1
  <2> QED
    BY <1>10, <2>1, <2>2
<1>13. \A c \in Chars : c > Done + m => NewHere(c)'
  BY <1>5, <1>12
<1> QED
  BY <1>4, <1>11, <1>13 DEF m

(* The segment is of characters that were put.                              *)
LEMMA SegmentWasPut ==
  ASSUME TxInv
  PROVE  Done + Len(seg) <= sent
<1> DEFINE l == Len(seg)
           q == Len(tx_queue)
<1>1. start \in Slots /\ end \in Slots /\ l \in Nat /\ q \in Nat /\ sent \in Nat
  BY DEF TxInv, TypeOK
<1>2. Count \in Nat /\ Kept \in Nat
  BY <1>1, CountIs, SizesAssumption DEF Slots, Kept
<1>3. Done = sent - (l + Count + Kept + q)
  BY DEF Done
<1> HIDE DEF l, q
<1>4. Done + l <= sent
  BY <1>1, <1>2, <1>3
<1> QED
  BY <1>4 DEF l

LEMMA OnceStep ==
  ASSUME TxInv, OnceInv, [Next]_vars
  PROVE  OnceInv'
<1> USE DEF TransferType
<1>1. /\ TransferInv /\ PlaceInv /\ TransferType /\ TypeOK /\ StreamInv
      /\ Done \in Nat /\ Len(seg) \in Nat /\ gen \in Nat /\ Chars \subseteq Nat
      /\ state = "CONFIGURED" => gen \in Gens
  <2>1. TransferInv /\ PlaceInv /\ TransferType /\ TypeOK /\ StreamInv /\ Done \in Nat
    BY TransferTypes DEF TxInv, StreamInv
  <2>2. seg \in Seq(Chars) /\ gen \in Nat /\ Chars \subseteq Nat
    BY DEF TxInv, TypeOK, Chars
  <2>3. state = "CONFIGURED" => gen \in Gens
    BY <2>1 DEF TxInv, DeviceInv
  <2> QED
    BY <2>1, <2>2, <2>3
<1>2. UNCHANGED <<received, begun>> =>
        (OncePerConfiguration => OncePerConfiguration') /\ \A c : NewHere(c)' = NewHere(c)
  BY NewUnchanged
\* Only at the end of a segment is anything done with.
<1>3. Written \/ Done' = Done
  BY StreamStep
<1>4. CASE /\ UNCHANGED <<received, begun, gen, state, seg, completion_code, semaphore>>
           /\ pc' = pc \/ (pc' # "written" /\ pc # "written")
           /\ Done' = Done
  <2>1. TakenNow' <=> TakenNow
    BY <1>4 DEF TakenNow
  <2> QED
    BY <1>1, <1>2, <1>4, <2>1 DEF OnceInv
<1>5. CASE GetSeg
  <2>1. /\ UNCHANGED <<received, begun, gen, state, completion_code, semaphore>>
        /\ pc = "flush" /\ pc' = "write" /\ Done' = Done /\ Len(seg) = 0
    BY <1>1, <1>3, <1>5 DEF GetSeg, device, transfer, Written, PlaceInv
  <2>2. state = "CONFIGURED" => ~TakenNow /\ ~TakenNow'
    BY <1>1, <2>1 DEF TakenNow, TransferInv
  <2> QED
    BY <1>1, <1>2, <2>1, <2>2 DEF OnceInv
<1>6. CASE Woken
  <2>1. /\ UNCHANGED <<received, begun, gen, state, completion_code, seg>>
        /\ pc = "wait" /\ Done' = Done
        /\ pc' = IF completion_code[mine] = "success" THEN "written" ELSE "sleep"
        /\ semaphore' = [semaphore EXCEPT ![mine] = @ - 1]
    BY <1>3, <1>6 DEF Woken, device, Written
  <2>2. mine \in Gens /\ semaphore[mine] = 1 /\ TransferInv'
    BY <1>6, WokenTransfer
  <2>3. \A g \in Gens : semaphore'[g] # 1
    BY <2>1, <2>2 DEF TransferInv
  <2>4. state = "CONFIGURED" /\ TakenNow => pc' = "written"
    <3>1. CASE gen = mine
      BY <1>1, <2>1, <2>2, <3>1 DEF OnceInv
    <3>2. CASE gen # mine
      <4>1. status[mine] # "PENDING"
        BY <1>1, <2>2 DEF TransferInv
      <4>2. state = "CONFIGURED" => semaphore[gen] # 1
        BY <1>1, <3>2, <4>1 DEF TransferInv
      <4> QED
        BY <2>1, <4>2 DEF TakenNow
    <3> QED
      BY <3>1, <3>2
  <2>5. ASSUME state = "CONFIGURED", NEW c \in Chars,
               c > Done + (IF TakenNow' THEN Len(seg) ELSE 0)
        PROVE  NewHere(c)
    <3>1. TakenNow => TakenNow'
      BY <2>4, <2>5 DEF TakenNow
    <3>2. c > Done + (IF TakenNow THEN Len(seg) ELSE 0)
      BY <1>1, <2>5, <3>1
    <3> QED
      BY <2>5, <3>2 DEF OnceInv
  <2> QED
    BY <1>1, <1>2, <2>1, <2>3, <2>5 DEF OnceInv
<1>7. CASE Written
  <2>1. /\ UNCHANGED <<received, begun, gen, state, completion_code, semaphore>>
        /\ pc = "written" /\ pc' # "written"
        /\ state = "CONFIGURED" => seg' = << >>
    BY <1>7 DEF Written, device, transfer
  <2>2. state = "CONFIGURED" => Done' = Done + Len(seg)
    BY <1>1, <1>7, <2>1, WrittenStream DEF TxInv
  <2>3. Len(<< >>) = 0
    OBVIOUS
  <2>4. TakenNow
    BY <2>1 DEF TakenNow
  <2>5. ASSUME state = "CONFIGURED", NEW c \in Chars,
               c > Done' + (IF TakenNow' THEN Len(seg') ELSE 0)
        PROVE  NewHere(c)
    <3>1. c > Done + Len(seg)
      BY <1>1, <2>1, <2>2, <2>3, <2>5
    <3> QED
      BY <2>4, <2>5, <3>1 DEF OnceInv
  <2> QED
    BY <1>1, <1>2, <2>1, <2>5 DEF OnceInv
<1>8. CASE PacketSent
  <2>1. /\ pc = "wait" /\ Carries /\ gen \in Gens
    BY <1>8, PacketSentTransfer
  <2>2. /\ UNCHANGED <<pc, seg, gen, state, begun>> /\ received' = received \o pma
        /\ completion_code' = [completion_code EXCEPT ![gen] = "success"]
        /\ semaphore' = [semaphore EXCEPT ![gen] = @ + 1]
        /\ state = "CONFIGURED" /\ stat_tx = "VALID"
        /\ Done' = Done
    BY <1>3, <1>8, <2>1 DEF PacketSent, thread, device, Written
  <2>3. semaphore[gen] = 0
    BY <1>1, <2>2 DEF TransferInv
  <2>4. ~TakenNow /\ TakenNow'
    <3>1. semaphore'[gen] = 1
      BY <1>1, <2>1, <2>2, <2>3
    <3> QED
      BY <2>1, <2>2, <2>3, <3>1 DEF TakenNow
  <2>5. OncePerConfiguration /\ \A c \in Chars : c > Done => NewHere(c)
    BY <1>1, <2>2, <2>4 DEF OnceInv
  <2>6. OncePerConfiguration' /\ \A c \in Chars : c > Done + Len(seg) => NewHere(c)'
    BY <1>1, <2>1, <2>2, <2>5, PacketIsNew
  <2>7. completion_code'[gen] = "success"
    BY <1>1, <2>1, <2>2
  <2> QED
    BY <2>2, <2>4, <2>6, <2>7 DEF OnceInv
<1>9. CASE Teardown
  <2>1. UNCHANGED <<received, begun>> /\ state' = "ATTACHED"
    BY <1>9 DEF Teardown
  <2> QED
    BY <1>2, <2>1 DEF OnceInv
<1>10. CASE Configure
  <2>1. /\ UNCHANGED <<received, semaphore, completion_code>>
        /\ gen' = gen + 1 /\ begun' = Len(received)
    BY <1>10 DEF Configure, transfer
  <2>2. Len(received) \in Nat
    BY <1>1 DEF TypeOK
  <2>3. (begun' + 1) .. Len(received') = {}
    BY <2>1, <2>2
  <2>4. OncePerConfiguration' /\ \A c : NewHere(c)'
    BY <2>3 DEF OncePerConfiguration, NewHere
  <2>5. \A g \in Gens : g = gen' => semaphore[g] # 1
    <3>1. ASSUME NEW g \in Gens, g = gen + 1, semaphore[g] = 1 PROVE FALSE
      <4>1. g = mine \/ g <= gen
        BY <1>1, <3>1 DEF TransferInv
      <4> QED
        BY <1>1, <3>1, <4>1 DEF PlaceInv
    <3> QED
      BY <2>1, <3>1
  <2> QED
    BY <2>1, <2>4, <2>5 DEF OnceInv
<1>11. TxStart \/ Receive \/ ReceiveTimeout \/ Flushed \/ Retry \/ WriteBegin
         \/ WaitActivated \/ SetPending \/ LlTransmit
       => /\ UNCHANGED <<received, begun, gen, state, seg, completion_code, semaphore>>
          /\ pc' # "written" /\ pc # "written"
  BY DEF TxStart, Receive, ReceiveTimeout, Flushed, Retry, WriteBegin, WaitActivated,
         SetPending, LlTransmit, device, transfer
<1>12. Written => pc = "written"
  BY DEF Written
<1>13. CASE UNCHANGED vars
  <2>1. Done' = Done
    BY <1>13 DEF vars, ring, thread, Done, Count, Kept
  <2>2. UNCHANGED <<received, begun, gen, state, seg, completion_code, semaphore>> /\ pc' = pc
    BY <1>13 DEF vars, device, transfer, thread
  <2> QED
    BY <1>4, <2>1, <2>2
<1>14. CASE PutC \/ ControlReply
  <2>1. Done' = Done
    <3>1. CASE PutC
      BY <1>1, <3>1, PutCStream
    <3>2. CASE ControlReply
      BY <3>2 DEF ControlReply, ring, thread, Done, Count, Kept
    <3> QED
      BY <1>14, <3>1, <3>2
  <2>2. UNCHANGED <<received, begun, gen, state, seg, completion_code, semaphore>> /\ pc' = pc
    BY <1>14 DEF PutC, ControlReply, device, transfer, thread
  <2> QED
    BY <1>4, <2>1, <2>2
<1> QED
  BY <1>3, <1>4, <1>5, <1>6, <1>7, <1>8, <1>9, <1>10, <1>11, <1>12, <1>13, <1>14
     DEF Next, TxThread, BusReset, Unconfigure

(* OncePerConfiguration: since it was last configured the host has received *)
(* no two bytes of one place in the stream, so that a character is repeated *)
(* only after a teardown, in any interleaving with resets and replies.      *)
THEOREM SerialRepeatsOnlyAfterTeardown == Spec => []OncePerConfiguration
<1>1. Init => OnceInv
  <2> SUFFICES ASSUME Init PROVE OnceInv
    OBVIOUS
  <2>1. (begun + 1) .. Len(received) = {}
    BY DEF Init
  <2> QED
    BY <2>1 DEF Init, OnceInv, OncePerConfiguration
<1>2. TxInv /\ OnceInv /\ [Next]_vars => OnceInv'
  BY OnceStep
<1>3. OnceInv => OncePerConfiguration
  BY DEF OnceInv
<1> QED
  BY <1>1, <1>2, <1>3, TxInvHolds, PTL DEF Spec

-----------------------------------------------------------------------------
(* The stream.                                                             *)

(* IsStream: the serial port, with its ring, its queue, its transfers and   *)
(* the resets, implements the stream that SerialStream promises: without    *)
(* replies of endpoint 0 the stream itself, and with them the stream in     *)
(* which a reply may take the place of the first bytes of a packet.         *)
THEOREM SerialIsStream == Spec => IsStream
<1>1. Init => Stream!Init
  BY DEF Init, Stream!Init
<1>2. TxInv /\ [Next]_vars => [Stream!Put \/ Stream!Packet]_<<sent, received>>
  <2> SUFFICES ASSUME TxInv, [Next]_vars
               PROVE  Stream!Put \/ Stream!Packet \/ UNCHANGED <<sent, received>>
    OBVIOUS
  <2>1. CASE PutC
    BY <2>1 DEF PutC, Stream!Put
  <2>2. CASE PacketSent
    <3> DEFINE j == Done + Len(seg)
    <3>1. Carries /\ pc = "wait" /\ UNCHANGED sent /\ received' = received \o pma
      BY <2>2, PacketSentTransfer DEF PacketSent
    <3>2. /\ seg \in Seq(Chars) /\ seg # << >> /\ Done \in Nat /\ sent \in Nat
          /\ \A i \in 1 .. Len(seg) : seg[i] = Done + i
          /\ pma \in Seq(Bytes) /\ Len(pma) = Len(seg)
      BY <3>1 DEF TxInv, TypeOK, PlaceInv, StreamInv, Carries
    <3>3. Len(seg) \in Nat \ {0}
      BY <3>2, EmptySeq
    <3>4. j <= sent
      BY SegmentWasPut
    <3>5. PICK k \in 0 .. Len(seg) :
            /\ k = 0 \/ "reply" \in Allowed
            /\ \A i \in 1 .. Len(seg) : pma[i] = IF i <= k THEN -seg[i] ELSE seg[i]
      BY <3>1 DEF Carries
    <3>6. pma = Stream!Run(Done + 1, j, k)
      <4>1. j - (Done + 1) + 1 = Len(seg)
        BY <3>2, <3>3
      <4>2. pma = [n \in 1 .. Len(seg) |-> pma[n]]
        BY <3>2
      <4>3. \A n \in 1 .. Len(seg) :
              pma[n] = IF n <= k THEN -((Done + 1) + n - 1) ELSE (Done + 1) + n - 1
        BY <3>2, <3>5
      <4>4. [n \in 1 .. Len(seg) |-> pma[n]]
              = [n \in 1 .. Len(seg) |->
                   IF n <= k THEN -((Done + 1) + n - 1) ELSE (Done + 1) + n - 1]
        BY <4>3
      <4>5. Stream!Run(Done + 1, j, k)
              = [n \in 1 .. Len(seg) |->
                   IF n <= k THEN -((Done + 1) + n - 1) ELSE (Done + 1) + n - 1]
        BY <4>1 DEF Stream!Run
      <4> QED
        BY <4>2, <4>4, <4>5
    <3>7. \A c \in 1 .. (Done + 1) - 1 : c \in Stream!Got
      <4>1. ASSUME NEW c \in 1 .. Done PROVE c \in Stream!Got
        <5>1. PICK i \in DOMAIN received : Place(received[i]) = c
          BY DEF TxInv, StreamInv, Sent
        <5> QED
          BY <5>1 DEF Stream!Got, Place
      <4> QED
        BY <3>2, <4>1
    <3>8. Done + 1 \in 1 .. sent /\ j \in Done + 1 .. sent
      BY <3>2, <3>3, <3>4
    <3>9. k \in IF "reply" \in Allowed THEN 0 .. (j - (Done + 1) + 1) ELSE {0}
      BY <3>2, <3>3, <3>5
    <3> HIDE DEF j
    <3> QED
      BY <3>1, <3>6, <3>7, <3>8, <3>9 DEF Stream!Packet
  <2>3. TxStart \/ Receive \/ ReceiveTimeout \/ GetSeg \/ Flushed \/ Retry \/ WriteBegin
          \/ WaitActivated \/ SetPending \/ LlTransmit \/ Woken \/ Written
          \/ ControlReply \/ BusReset \/ Unconfigure \/ Configure \/ UNCHANGED vars
        => UNCHANGED <<sent, received>>
    BY DEF TxStart, Receive, ReceiveTimeout, GetSeg, Flushed, Retry, WriteBegin,
           WaitActivated, SetPending, LlTransmit, Woken, Written, ControlReply, BusReset,
           Unconfigure, Teardown, Configure, vars
  <2> QED
    BY <2>1, <2>2, <2>3 DEF Next, TxThread
<1> QED
  BY <1>1, <1>2, TxInvHolds, PTL DEF Spec, IsStream, Stream!Spec
=============================================================================
