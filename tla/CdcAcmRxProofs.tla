--------------------------- MODULE CdcAcmRxProofs ---------------------------
(***************************************************************************)
(* Theorems about the receiving side of the serial port, for every packet   *)
(* size, any number of characters and of teardowns, between any two steps   *)
(* of the thread: its type, that characters stay in order and are read once,*)
(* and that none is dropped while the configuration it was sent in holds.   *)
(***************************************************************************)
EXTENDS CdcAcmRx, SequenceTheorems, TLAPS

-----------------------------------------------------------------------------
(* The inductive invariant.                                                *)

Increasing(s) == \A i, j \in 1 .. Len(s) : i < j => s[i] < s[j]

\* The thread has an endpoint while it reads, and its buffer is empty until
\* the packet is copied.
PlaceInv ==
  /\ pc \in {"activated", "request", "receive", "wait", "copy", "full"} => mine >= 1
  /\ pc \in {"activated", "request", "receive", "wait", "copy"} => rx_len = 0
  /\ pc = "read" => rx_cur >= rx_len
  /\ pc = "full" => rx_len = Len(rx_buf)
  /\ mine <= gen
  /\ state = "CONFIGURED" => gen >= 1
  /\ state = "ATTACHED" => gen <= MaxTeardowns

\* A transfer is pending only while the thread is at it, a token is for the
\* thread, and the endpoint has a buffer only when the thread has given it one.
TransferInv ==
  /\ \A g \in Gens : status[g] = "PENDING" => g = mine /\ pc \in {"receive", "wait"}
  /\ \A g \in Gens : semaphore[g] = 1 =>
       g = mine /\ pc \in {"receive", "wait"} /\ status[g] # "PENDING"
  /\ \A g \in Gens : xfer_buff[g] = "set" => g <= mine
  /\ state = "CONFIGURED" /\ pc = "receive" /\ mine = gen => status[mine] = "PENDING"
  /\ state = "CONFIGURED" /\ stat_rx = "VALID" /\ xfer_buff[gen] = "set" =>
       pc = "wait" /\ mine = gen /\ status[mine] = "PENDING"
  /\ \A g \in Gens : state = "CONFIGURED" /\ g = gen /\ semaphore[g] = 1 =>
       completion_code[g] = "success"

\* What is read but not yet returned comes after all that was returned.
Live(i) == pc = "full" \/ (rx_cur < i /\ i <= rx_len)
Fetched == \/ pc = "copy"
           \/ semaphore[mine] = 1 /\ completion_code[mine] = "success"
BufferInv ==
  /\ rx_len <= Len(rx_buf) /\ Len(rx_buf) <= MPS
  /\ Increasing(got) /\ Increasing(rx_buf)
  /\ \A i \in 1 .. Len(got) : got[i] <= typed
  /\ \A i \in 1 .. Len(rx_buf) : rx_buf[i] <= typed
  /\ \A i \in 1 .. Len(rx_buf) : Live(i) =>
       \A k \in 1 .. Len(got) : got[k] < rx_buf[i]
DataInv(g) ==
  /\ Len(data[g]) <= MPS /\ Increasing(data[g])
  /\ \A i \in 1 .. Len(data[g]) : data[g][i] <= typed /\ typedIn[data[g][i]] = g
FetchedInv(g) ==
  g = mine /\ Fetched =>
    \A i \in 1 .. Len(data[g]) : \A k \in 1 .. Len(got) : got[k] < data[g][i]
OrderInv == BufferInv /\ \A g \in Gens : DataInv(g) /\ FetchedInv(g)

\* A character sent in this configuration is with the terminal or on its way.
IsGot(c) == \E k \in 1 .. Len(got) : got[k] = c
IsBuffered(c) == \E i \in 1 .. Len(rx_buf) : Live(i) /\ rx_buf[i] = c
IsFetched(c) == Received /\ \E i \in 1 .. Len(data[mine]) : data[mine][i] = c
KeptInv ==
  /\ \A c \in 1 .. typed : typedIn[c] <= gen
  /\ isr = "idle" => \A c \in 1 .. typed :
       SentNow(c) => IsGot(c) \/ IsBuffered(c) \/ IsFetched(c)

RxInv == TypeOK /\ PlaceInv /\ TransferInv /\ OrderInv /\ KeptInv

-----------------------------------------------------------------------------
(* The beginning.                                                          *)

LEMMA InitHolds == Init => RxInv
<1> SUFFICES ASSUME Init PROVE RxInv
  OBVIOUS
<1> USE SizesAssumption
<1>1. TypeOK
  BY DEF Init, TypeOK, Gens, Keys
<1>2. PlaceInv
  BY DEF Init, PlaceInv
<1>3. TransferInv
  BY DEF Init, TransferInv, Gens
<1>4. Len(got) = 0 /\ Len(rx_buf) = 0 /\ \A g \in Gens : Len(data[g]) = 0
  BY DEF Init
<1>5. OrderInv
  BY <1>4 DEF Init, OrderInv, BufferInv, DataInv, FetchedInv, Increasing, Gens
<1>6. KeptInv
  BY DEF Init, KeptInv, typed
<1> QED
  BY <1>1, <1>2, <1>3, <1>5, <1>6 DEF RxInv

-----------------------------------------------------------------------------
(* getc() returns the next character of its buffer, or reads.               *)

LEMMA NextCharTypes ==
  ASSUME TypeOK, NEW cur \in 0 .. MPS, NEW buf \in Seq(Keys), NEW len \in Nat,
         len <= Len(buf), len <= MPS, NextChar(cur, buf, len)
  PROVE  /\ pc' \in {"char", "read"} /\ rx_cur' \in 0 .. MPS /\ got' \in Seq(Keys)
         /\ pc' = "read" => rx_cur' >= len
<1> USE SizesAssumption
<1>1. Len(buf) \in Nat /\ got \in Seq(Keys)
  BY DEF TypeOK
<1>2. CASE cur < len
  <2>1. cur + 1 \in 1 .. Len(buf) /\ cur + 1 \in 0 .. MPS
    BY <1>1, <1>2
  <2>2. buf[cur + 1] \in Keys
    BY <2>1, ElementOfSeq
  <2>3. pc' = "char" /\ rx_cur' = cur + 1 /\ got' = Append(got, buf[cur + 1])
    BY <1>2 DEF NextChar
  <2>4. got' \in Seq(Keys)
    BY <1>1, <2>2, <2>3
  <2> QED
    BY <2>1, <2>3, <2>4
<1>3. CASE ~(cur < len)
  BY <1>1, <1>3 DEF NextChar
<1> QED
  BY <1>2, <1>3

(* What it returns comes after all it has returned, and before the rest.    *)
LEMMA NextCharInOrder ==
  ASSUME TypeOK, NEW cur \in 0 .. MPS, NEW buf \in Seq(Keys), NEW len \in Nat,
         len <= Len(buf), len <= MPS, NextChar(cur, buf, len),
         Increasing(got), Increasing(buf),
         \A k \in 1 .. Len(got) : got[k] <= typed,
         \A i \in 1 .. Len(buf) : buf[i] <= typed,
         \A i \in 1 .. Len(buf) : cur < i /\ i <= len =>
           \A k \in 1 .. Len(got) : got[k] < buf[i]
  PROVE  /\ Increasing(got)'
         /\ \A k \in 1 .. Len(got') : got'[k] <= typed
         /\ \A i \in 1 .. Len(buf) : rx_cur' < i /\ i <= len =>
              \A k \in 1 .. Len(got') : got'[k] < buf[i]
         /\ \A c : IsGot(c) => IsGot(c)'
         /\ \A i \in 1 .. Len(buf) : cur < i /\ i <= len =>
              IsGot(buf[i])' \/ rx_cur' < i
<1> USE SizesAssumption
<1>1. /\ Len(buf) \in Nat /\ Len(got) \in Nat /\ typed \in Nat
      /\ \A i \in 1 .. Len(buf) : buf[i] \in Nat
      /\ \A k \in 1 .. Len(got) : got[k] \in Nat
  <2>1. got \in Seq(Keys) /\ typedIn \in Seq(Gens)
    BY DEF TypeOK
  <2>2. ASSUME NEW i \in 1 .. Len(buf) PROVE buf[i] \in Nat
    <3>1. buf[i] \in Keys
      BY ElementOfSeq
    <3> QED BY <3>1 DEF Keys
  <2>3. ASSUME NEW k \in 1 .. Len(got) PROVE got[k] \in Nat
    <3>1. got[k] \in Keys
      BY <2>1, ElementOfSeq
    <3> QED BY <3>1 DEF Keys
  <2> QED BY <2>1, <2>2, <2>3 DEF typed
<1>2. CASE cur < len
  <2> DEFINE n == Len(got) + 1
             c0 == buf[cur + 1]
  <2>1. cur + 1 \in 1 .. Len(buf) /\ cur < cur + 1 /\ cur + 1 <= len
    BY <1>1, <1>2
  <2>2. rx_cur' = cur + 1 /\ got' = Append(got, c0)
    BY <1>2 DEF NextChar
  <2>3. c0 \in Nat /\ c0 <= typed /\ \A k \in 1 .. Len(got) : got[k] < c0
    BY <1>1, <2>1
  <2>4. \A i \in 1 .. Len(buf) : cur + 1 < i => c0 < buf[i]
    BY <1>1, <2>1 DEF Increasing
  <2>5. /\ Len(got') = n /\ got'[n] = c0
        /\ \A k \in 1 .. Len(got) : got'[k] = got[k]
    BY <2>2 DEF TypeOK
  <2>6. n \in Nat /\ n \in 1 .. n /\ \A k \in 1 .. n : k = n \/ k \in 1 .. Len(got)
    BY <1>1
  <2>7. \A k \in 1 .. Len(got) : k < n /\ k \in 1 .. n
    BY <1>1
  <2> HIDE DEF n, c0
  <2>8. Increasing(got)'
    <3>1. ASSUME NEW i \in 1 .. n, NEW j \in 1 .. n, i < j
          PROVE  got'[i] < got'[j]
      <4>1. i \in 1 .. Len(got)
        BY <2>6, <3>1
      <4>2. CASE j = n
        BY <2>3, <2>5, <4>1, <4>2
      <4>3. CASE j # n
        BY <2>5, <2>6, <3>1, <4>1, <4>3 DEF Increasing
      <4> QED
        BY <4>2, <4>3
    <3> QED
      BY <2>5, <3>1 DEF Increasing
  <2>9. \A k \in 1 .. n : got'[k] <= typed
    BY <2>3, <2>5, <2>6
  <2>10. ASSUME NEW i \in 1 .. Len(buf), cur + 1 < i, i <= len, NEW k \in 1 .. n
         PROVE  got'[k] < buf[i]
    <3>1. CASE k = n
      BY <2>4, <2>5, <2>10, <3>1
    <3>2. CASE k # n
      <4>1. k \in 1 .. Len(got) /\ cur < i
        BY <2>6, <2>10, <3>2
      <4> QED
        BY <2>5, <2>10, <4>1
    <3> QED
      BY <3>1, <3>2
  <2>11. ASSUME NEW c, IsGot(c) PROVE IsGot(c)'
    BY <2>5, <2>7, <2>11 DEF IsGot
  <2>12. IsGot(c0)'
    BY <2>5, <2>6 DEF IsGot
  <2>13. \A i \in 1 .. Len(buf) : cur < i => i = cur + 1 \/ cur + 1 < i
    BY <1>1
  <2>14. \A i \in 1 .. Len(buf) : cur < i /\ i <= len => IsGot(buf[i])' \/ rx_cur' < i
    BY <2>2, <2>12, <2>13 DEF c0
  <2> QED
    BY <2>2, <2>5, <2>8, <2>9, <2>10, <2>11, <2>14
<1>3. CASE ~(cur < len)
  <2>1. rx_cur' = cur /\ got' = got
    BY <1>3 DEF NextChar
  <2>2. \A i \in 1 .. Len(buf) : ~(cur < i /\ i <= len)
    BY <1>1, <1>3
  <2> QED
    BY <1>1, <2>1, <2>2 DEF Increasing, IsGot
<1> QED
  BY <1>2, <1>3

-----------------------------------------------------------------------------
(* The thread, the device and the transfer.                                *)

(* Where getc() uses its buffer, the buffer has the length it goes by.      *)
LEMMA BufferFits ==
  ASSUME RxInv
  PROVE  /\ rx_cur \in 0 .. MPS /\ rx_buf \in Seq(Keys) /\ rx_len \in Nat
         /\ rx_len <= Len(rx_buf) /\ rx_len <= MPS
         /\ \A g \in Gens : /\ data[g] \in Seq(Keys) /\ Len(data[g]) \in Nat
                            /\ Len(data[g]) <= MPS
BY SizesAssumption DEF RxInv, TypeOK, OrderInv, BufferInv, DataInv

(* A whole packet is in the buffer at "full".                               *)
LEMMA NextCharUses ==
  ASSUME RxInv
  PROVE  /\ GetC \/ Retry => NextChar(rx_cur, rx_buf, rx_len)
         /\ Copy /\ Len(data[mine]) < MPS => NextChar(0, data[mine], Len(data[mine]))
         /\ Full /\ state = "CONFIGURED" => NextChar(0, rx_buf, rx_len)
BY DEF GetC, Retry, Copy, Full

(* The types of what a transfer is made of.                                 *)
TransferType ==
  /\ status \in [Gens -> {"IDLE", "PENDING", "COMPLETED", "ABORTED"}]
  /\ completion_code \in [Gens -> {"none", "success", "bus_reset"}]
  /\ semaphore \in [Gens -> {0, 1}]
  /\ xfer_buff \in [Gens -> {"null", "set"}]
  /\ mine \in 0 .. MaxTeardowns + 1 /\ gen \in 0 .. MaxTeardowns + 1
  /\ MaxTeardowns \in Nat
  /\ Gens = 1 .. MaxTeardowns + 1

LEMMA TransferTypes == TypeOK => TransferType
BY SizesAssumption DEF TypeOK, Gens, TransferType

LEMMA PlaceStep ==
  ASSUME RxInv, [Next]_vars
  PROVE  PlaceInv'
<1> USE DEF PlaceInv
<1>1. PlaceInv /\ mine \in Nat /\ gen \in Nat /\ rx_len \in Nat /\ rx_cur \in Nat
  BY SizesAssumption DEF RxInv, TypeOK
<1>2. CASE GetC \/ Retry
  <2>1. pc' \in {"char", "read"} /\ (pc' = "read" => rx_cur' >= rx_len)
    BY <1>2, BufferFits, NextCharUses, NextCharTypes DEF RxInv
  <2> QED
    BY <1>1, <1>2, <2>1 DEF GetC, Retry, device
<1>3. CASE OnChar \/ WaitActivated \/ SetPending \/ LlReceive \/ Woken
  BY <1>1, <1>3 DEF OnChar, WaitActivated, SetPending, LlReceive, Woken, buffer, device
<1>4. CASE ReadBegin
  BY <1>1, <1>4 DEF ReadBegin, device
<1>5. CASE Copy
  <2>1. mine \in Gens
    BY <1>1, <1>5 DEF RxInv, TypeOK, Copy, Gens
  <2>2. Len(data[mine]) < MPS =>
          pc' \in {"char", "read"} /\ (pc' = "read" => rx_cur' >= Len(data[mine]))
    BY <1>5, <2>1, BufferFits, NextCharUses, NextCharTypes, SizesAssumption DEF RxInv
  <2> QED
    BY <1>1, <1>5, <2>2 DEF Copy, device
<1>6. CASE Full
  <2>1. state = "CONFIGURED" =>
          pc' \in {"char", "read"} /\ (pc' = "read" => rx_cur' >= rx_len)
    BY <1>6, BufferFits, NextCharUses, NextCharTypes, SizesAssumption DEF RxInv
  <2> QED
    BY <1>1, <1>6, <2>1 DEF Full, device
<1>7. CASE Type
  BY <1>1, <1>7 DEF Type, buffer, device
<1>8. CASE Teardown
  BY <1>1, <1>8 DEF Teardown, buffer
<1>9. CASE Configure
  BY <1>1, <1>9 DEF Configure, buffer
<1>10. CASE UNCHANGED vars
  BY <1>1, <1>10 DEF vars, buffer, device
<1> QED
  BY <1>2, <1>3, <1>4, <1>5, <1>6, <1>7, <1>8, <1>9, <1>10 DEF Next, RxThread

(* A packet comes in: to a waiting thread, or for no one.                   *)
LEMMA TypeCases ==
  ASSUME RxInv, Type
  PROVE  /\ UNCHANGED <<pc, mine, buffer, device, got>> /\ state = "CONFIGURED"
         /\ stat_rx' = "NAK" /\ gen \in Gens
         /\ \E n \in 0 .. MPS :
              /\ typed + n <= NKeys
              /\ typedIn' = typedIn \o [i \in 1 .. n |-> gen]
              /\ \/ isr' = "spinning" /\ UNCHANGED transfer
                 \/ /\ pc = "wait" /\ mine = gen /\ status[mine] = "PENDING"
                    /\ semaphore[mine] = 0
                    /\ data' = [data EXCEPT ![gen] = [i \in 1 .. n |-> typed + i]]
                    /\ xfer_buff' = [xfer_buff EXCEPT ![gen] = "null"]
                    /\ status' = [status EXCEPT ![gen] = "COMPLETED"]
                    /\ completion_code' = [completion_code EXCEPT ![gen] = "success"]
                    /\ semaphore' = [semaphore EXCEPT ![gen] = @ + 1]
                    /\ UNCHANGED isr
<1> USE DEF TransferType
<1>1. TransferType /\ TransferInv /\ gen \in Gens
  <2>1. TransferType /\ TransferInv /\ PlaceInv
    BY TransferTypes DEF RxInv
  <2>2. state = "CONFIGURED"
    BY DEF Type
  <2>3. gen >= 1
    BY <2>1, <2>2 DEF PlaceInv
  <2> QED
    BY <2>1, <2>3
<1>2. stat_rx = "VALID" /\ state = "CONFIGURED"
  BY DEF Type
<1>3. xfer_buff[gen] = "set" =>
        pc = "wait" /\ mine = gen /\ status[mine] = "PENDING" /\ semaphore[mine] = 0
  BY <1>1, <1>2 DEF TransferInv
<1>4. PICK n \in 0 .. MPS :
        /\ typed + n <= NKeys
        /\ typedIn' = typedIn \o [i \in 1 .. n |-> gen]
        /\ OnDataOut([i \in 1 .. n |-> typed + i])
  BY DEF Type
<1>5. \/ isr' = "spinning" /\ UNCHANGED transfer
      \/ /\ pc = "wait" /\ mine = gen /\ status[mine] = "PENDING"
         /\ semaphore[mine] = 0
         /\ data' = [data EXCEPT ![gen] = [i \in 1 .. n |-> typed + i]]
         /\ xfer_buff' = [xfer_buff EXCEPT ![gen] = "null"]
         /\ status' = [status EXCEPT ![gen] = "COMPLETED"]
         /\ completion_code' = [completion_code EXCEPT ![gen] = "success"]
         /\ semaphore' = [semaphore EXCEPT ![gen] = @ + 1]
         /\ UNCHANGED isr
  BY <1>3, <1>4, Zenon DEF OnDataOut
<1>6. /\ UNCHANGED <<pc, mine, buffer, device, got>> /\ stat_rx' = "NAK"
  BY DEF Type
<1> QED
  BY <1>1, <1>2, <1>4, <1>5, <1>6, Zenon

LEMMA WokenFacts ==
  ASSUME RxInv, Woken
  PROVE  /\ mine \in Gens /\ semaphore[mine] = 1 /\ status[mine] # "PENDING"
         /\ semaphore' = [semaphore EXCEPT ![mine] = 0]
         /\ pc = "wait" /\ pc' = IF completion_code[mine] = "success" THEN "copy" ELSE "activated"
         /\ UNCHANGED <<typedIn, mine, buffer, device, status, completion_code, data,
                        xfer_buff, stat_rx, isr, got>>
<1> USE DEF TransferType
<1>1. TransferType /\ TransferInv /\ mine \in Gens
  BY TransferTypes DEF RxInv, PlaceInv, Woken, Gens
<1>2. semaphore[mine] \in {0, 1} /\ semaphore[mine] > 0
  BY <1>1 DEF Woken
<1>3. semaphore[mine] = 1
  BY <1>2
<1>4. semaphore' = [semaphore EXCEPT ![mine] = 0]
  BY <1>1, <1>3 DEF Woken
<1> QED
  BY <1>1, <1>3, <1>4 DEF Woken, TransferInv

LEMMA TransferStep ==
  ASSUME RxInv, [Next]_vars
  PROVE  /\ TransferInv' /\ semaphore' \in [Gens -> {0, 1}]
         /\ status' \in [Gens -> {"IDLE", "PENDING", "COMPLETED", "ABORTED"}]
         /\ completion_code' \in [Gens -> {"none", "success", "bus_reset"}]
         /\ xfer_buff' \in [Gens -> {"null", "set"}]
<1> USE DEF TransferType
<1>1. TransferInv /\ TransferType /\ PlaceInv /\ (state = "CONFIGURED" => gen \in Gens)
  BY TransferTypes DEF RxInv, PlaceInv, Gens
<1>2. CASE \/ GetC \/ OnChar \/ Retry \/ WaitActivated \/ Copy \/ Full \/ UNCHANGED vars
  <2>1. /\ UNCHANGED <<gen, state, mine, status, completion_code, semaphore, xfer_buff, stat_rx>>
        /\ pc' = pc \/ {pc, pc'} \cap {"receive", "wait"} = {}
    BY <1>2 DEF GetC, OnChar, Retry, WaitActivated, Copy, Full, NextChar, device, transfer, vars
  <2> QED
    BY <1>1, <2>1 DEF TransferInv
<1>3. CASE ReadBegin
  <2>1. /\ UNCHANGED <<gen, state, status, completion_code, semaphore, xfer_buff, stat_rx>>
        /\ pc = "read" /\ pc' \in {"activated", "sleep"} /\ mine' \in {mine, gen}
    BY <1>3 DEF ReadBegin, device, transfer
  <2> QED
    BY <1>1, <2>1 DEF TransferInv, PlaceInv
<1>4. CASE SetPending
  <2>1. /\ UNCHANGED <<gen, state, mine, completion_code, semaphore, xfer_buff, stat_rx>>
        /\ pc = "request" /\ pc' = "receive"
        /\ status' = [status EXCEPT ![mine] = "PENDING"]
    BY <1>4 DEF SetPending, device
  <2>2. mine \in Gens
    BY <1>1, <2>1 DEF PlaceInv
  <2>3. \A g \in Gens : status'[g] = IF g = mine THEN "PENDING" ELSE status[g]
    BY <1>1, <2>1, <2>2
  <2>4. status' \in [Gens -> {"IDLE", "PENDING", "COMPLETED", "ABORTED"}]
    BY <1>1, <2>1, <2>2
  <2> QED
    BY <1>1, <2>1, <2>2, <2>3, <2>4 DEF TransferInv
<1>5. CASE LlReceive
  <2>1. /\ UNCHANGED <<gen, state, mine, status, completion_code, semaphore>>
        /\ pc = "receive" /\ pc' = "wait" /\ stat_rx' = "VALID"
        /\ xfer_buff' = [xfer_buff EXCEPT ![mine] = "set"]
    BY <1>5 DEF LlReceive, device
  <2>2. mine \in Gens
    BY <1>1, <2>1 DEF PlaceInv
  <2>3. \A g \in Gens : xfer_buff'[g] = IF g = mine THEN "set" ELSE xfer_buff[g]
    BY <1>1, <2>1, <2>2
  <2>4. xfer_buff' \in [Gens -> {"null", "set"}]
    BY <1>1, <2>1, <2>2
  <2>5. state = "CONFIGURED" /\ xfer_buff'[gen] = "set" =>
          mine = gen /\ status[mine] = "PENDING"
    BY <1>1, <2>1, <2>3 DEF TransferInv, PlaceInv
  <2> QED
    BY <1>1, <2>1, <2>2, <2>3, <2>4, <2>5 DEF TransferInv
<1>6. CASE Woken
  <2>1. /\ UNCHANGED <<gen, state, mine, status, completion_code, xfer_buff, stat_rx>>
        /\ mine \in Gens /\ semaphore[mine] = 1 /\ status[mine] # "PENDING"
        /\ semaphore' = [semaphore EXCEPT ![mine] = 0] /\ pc' \in {"copy", "activated"}
    BY <1>6, WokenFacts DEF device
  <2>2. \A g \in Gens : status[g] # "PENDING"
    BY <1>1, <2>1 DEF TransferInv
  <2>3. \A g \in Gens : semaphore'[g] # 1
    BY <1>1, <2>1 DEF TransferInv
  <2>4. semaphore' \in [Gens -> {0, 1}]
    BY <1>1, <2>1
  <2> QED
    BY <1>1, <2>1, <2>2, <2>3, <2>4 DEF TransferInv
<1>7. CASE Type
  <2>1. /\ UNCHANGED <<pc, mine, gen, state>> /\ stat_rx' = "NAK" /\ gen \in Gens
        /\ \/ UNCHANGED transfer
           \/ /\ pc = "wait" /\ mine = gen /\ status[mine] = "PENDING"
              /\ semaphore[mine] = 0
              /\ xfer_buff' = [xfer_buff EXCEPT ![gen] = "null"]
              /\ status' = [status EXCEPT ![gen] = "COMPLETED"]
              /\ completion_code' = [completion_code EXCEPT ![gen] = "success"]
              /\ semaphore' = [semaphore EXCEPT ![gen] = @ + 1]
    BY <1>7, TypeCases DEF device
  <2>2. CASE UNCHANGED transfer
    BY <1>1, <2>1, <2>2 DEF TransferInv, transfer
  <2>3. CASE ~UNCHANGED transfer
    <3>1. \A g \in Gens : semaphore'[g] = IF g = gen THEN 1 ELSE semaphore[g]
      BY <1>1, <2>1, <2>3
    <3>2. \A g \in Gens : status'[g] = IF g = gen THEN "COMPLETED" ELSE status[g]
      BY <1>1, <2>1, <2>3
    <3>3. /\ \A g \in Gens : xfer_buff'[g] = IF g = gen THEN "null" ELSE xfer_buff[g]
          /\ completion_code'[gen] = "success"
      BY <1>1, <2>1, <2>3
    <3>4. /\ semaphore' \in [Gens -> {0, 1}]
          /\ status' \in [Gens -> {"IDLE", "PENDING", "COMPLETED", "ABORTED"}]
      <4>1. semaphore' = [semaphore EXCEPT ![gen] = 1]
        BY <1>1, <2>1, <2>3
      <4>2. status' = [status EXCEPT ![gen] = "COMPLETED"]
        BY <2>1, <2>3
      <4> QED
        BY <1>1, <4>1, <4>2
    <3>5. /\ completion_code' \in [Gens -> {"none", "success", "bus_reset"}]
          /\ xfer_buff' \in [Gens -> {"null", "set"}]
      BY <1>1, <2>1, <2>3
    <3>6. TransferInv'
      BY <1>1, <2>1, <2>3, <3>1, <3>2, <3>3 DEF TransferInv
    <3> QED
      BY <3>4, <3>5, <3>6
  <2> QED
    BY <2>2, <2>3
<1>8. CASE Teardown
  <2>1. /\ UNCHANGED <<pc, mine, gen, xfer_buff>> /\ state' = "ATTACHED" /\ gen \in Gens
        /\ completion_code' = [completion_code EXCEPT ![gen] = "bus_reset"]
    BY <1>1, <1>8 DEF Teardown
  <2>2. completion_code' \in [Gens -> {"none", "success", "bus_reset"}]
    BY <1>1, <2>1
  <2>3. CASE status[gen] = "PENDING"
    <3>1. /\ status' = [status EXCEPT ![gen] = "ABORTED"]
          /\ semaphore' = [semaphore EXCEPT ![gen] = @ + 1]
      BY <1>8, <2>3 DEF Teardown, Abort
    <3>2. gen = mine /\ pc \in {"receive", "wait"} /\ semaphore[gen] = 0
      BY <1>1, <2>1, <2>3 DEF TransferInv
    <3>3. \A g \in Gens : semaphore'[g] = IF g = gen THEN 1 ELSE semaphore[g]
      BY <1>1, <2>1, <3>1, <3>2
    <3>4. \A g \in Gens : status'[g] = IF g = gen THEN "ABORTED" ELSE status[g]
      BY <1>1, <2>1, <3>1
    <3>5. /\ semaphore' \in [Gens -> {0, 1}]
          /\ status' \in [Gens -> {"IDLE", "PENDING", "COMPLETED", "ABORTED"}]
      BY <1>1, <2>1, <3>1, <3>2
    <3> QED
      BY <1>1, <2>1, <2>2, <3>2, <3>3, <3>4, <3>5 DEF TransferInv
  <2>4. CASE status[gen] # "PENDING"
    <3>1. UNCHANGED <<status, semaphore>>
      BY <1>8, <2>4 DEF Teardown, Abort
    <3> QED
      BY <1>1, <2>1, <2>2, <3>1 DEF TransferInv
  <2> QED
    BY <2>3, <2>4
<1>9. CASE Configure
  <2>1. /\ UNCHANGED <<pc, mine, status, completion_code, semaphore, xfer_buff>>
        /\ gen' = gen + 1 /\ stat_rx' = "NAK" /\ pc # "receive"
    BY <1>9 DEF Configure, transfer
  <2>2. mine # gen'
    BY <1>1, <2>1 DEF PlaceInv
  <2> QED
    BY <1>1, <2>1, <2>2 DEF TransferInv
<1> QED
  BY <1>2, <1>3, <1>4, <1>5, <1>6, <1>7, <1>8, <1>9 DEF Next, RxThread

-----------------------------------------------------------------------------
(* The types.                                                              *)

(* What a packet brings.                                                    *)
LEMMA PacketIs ==
  ASSUME TypeOK, NEW n \in 0 .. MPS, typed + n <= NKeys, gen \in Gens,
         typedIn' = typedIn \o [i \in 1 .. n |-> gen]
  PROVE  /\ typed \in Nat /\ typed' = typed + n /\ typedIn' \in Seq(Gens)
         /\ \A c \in 1 .. typed : typedIn'[c] = typedIn[c]
         /\ \A i \in 1 .. n : typedIn'[typed + i] = gen
         /\ [i \in 1 .. n |-> typed + i] \in Seq(Keys)
<1> USE SizesAssumption
<1>1. n \in Nat /\ typedIn \in Seq(Gens) /\ typed \in Nat /\ typed = Len(typedIn)
  BY DEF TypeOK, typed
<1> DEFINE s == [i \in 1 .. n |-> gen]
<1>2. s \in Seq(Gens) /\ Len(s) = n /\ \A i \in 1 .. n : s[i] = gen
  BY <1>1
<1> HIDE DEF s
<1>3. /\ typedIn \o s \in Seq(Gens) /\ Len(typedIn \o s) = typed + n
      /\ \A i \in 1 .. typed + n :
           (typedIn \o s)[i] = IF i <= typed THEN typedIn[i] ELSE s[i - typed]
  BY <1>1, <1>2, ConcatProperties
<1>4. typedIn' = typedIn \o s
  BY DEF s
<1>5. typed' = typed + n
  BY <1>3, <1>4 DEF typed
<1>6. \A c \in 1 .. typed : typedIn'[c] = typedIn[c]
  BY <1>1, <1>3, <1>4
<1>7. ASSUME NEW i \in 1 .. n PROVE typedIn'[typed + i] = gen
  <2>1. typed + i \in 1 .. typed + n /\ ~(typed + i <= typed) /\ (typed + i) - typed = i
    BY <1>1
  <2>2. (typedIn \o s)[typed + i] = s[(typed + i) - typed]
    BY <1>3, <2>1
  <2> QED
    BY <1>2, <1>4, <2>1, <2>2
<1>8. [i \in 1 .. n |-> typed + i] \in Seq(Keys)
  <2>1. \A i \in 1 .. n : typed + i \in Keys
    BY <1>1 DEF Keys
  <2> QED
    BY <1>1, <2>1
<1> QED
  BY <1>1, <1>3, <1>4, <1>5, <1>6, <1>7, <1>8

LEMMA BufferStep ==
  ASSUME RxInv, [Next]_vars
  PROVE  /\ pc' \in {"start", "char", "sleep", "read", "activated", "request", "receive",
                     "wait", "copy", "full"}
         /\ rx_buf' \in Seq(Keys) /\ rx_cur' \in 0 .. MPS /\ rx_len' \in 0 .. MPS
         /\ got' \in Seq(Keys) /\ mine' \in 0 .. MaxTeardowns + 1
<1> USE SizesAssumption
<1>1. /\ pc \in {"start", "char", "sleep", "read", "activated", "request", "receive",
                 "wait", "copy", "full"}
      /\ rx_buf \in Seq(Keys) /\ rx_cur \in 0 .. MPS /\ rx_len \in 0 .. MPS
      /\ got \in Seq(Keys) /\ mine \in 0 .. MaxTeardowns + 1
      /\ gen \in 0 .. MaxTeardowns + 1
  BY DEF RxInv, TypeOK
<1>2. CASE GetC \/ Retry
  <2>1. pc' \in {"char", "read"} /\ rx_cur' \in 0 .. MPS /\ got' \in Seq(Keys)
    BY <1>2, BufferFits, NextCharUses, NextCharTypes DEF RxInv
  <2>2. UNCHANGED <<rx_buf, rx_len, mine>>
    BY <1>2 DEF GetC, Retry
  <2> QED
    BY <1>1, <2>1, <2>2
<1>3. CASE Copy
  <2>1. /\ mine \in Gens /\ rx_buf' = data[mine] /\ rx_len' = Len(data[mine]) /\ mine' = mine
        /\ ~(Len(data[mine]) < MPS) => pc' = "full" /\ UNCHANGED <<rx_cur, got>>
    BY <1>1, <1>3 DEF Copy, RxInv, PlaceInv, Gens
  <2>2. /\ data[mine] \in Seq(Keys) /\ Len(data[mine]) \in 0 .. MPS
        /\ Len(data[mine]) \in Nat /\ Len(data[mine]) <= MPS
    BY <2>1, BufferFits
  <2>3. Len(data[mine]) < MPS =>
          pc' \in {"char", "read"} /\ rx_cur' \in 0 .. MPS /\ got' \in Seq(Keys)
    BY <1>3, <2>2, NextCharUses, NextCharTypes DEF RxInv
  <2> QED
    BY <1>1, <2>1, <2>2, <2>3
<1>4. CASE Full
  <2>1. state = "CONFIGURED" =>
          pc' \in {"char", "read"} /\ rx_cur' \in 0 .. MPS /\ got' \in Seq(Keys)
    BY <1>4, BufferFits, NextCharUses, NextCharTypes DEF RxInv
  <2> QED
    BY <1>1, <1>4, <2>1 DEF Full
<1>5. CASE ReadBegin
  BY <1>1, <1>5 DEF ReadBegin
<1>6. CASE OnChar \/ WaitActivated \/ SetPending \/ LlReceive \/ Woken
  BY <1>1, <1>6 DEF OnChar, WaitActivated, SetPending, LlReceive, Woken, buffer
<1>7. Type \/ Teardown \/ Configure \/ UNCHANGED vars
      => UNCHANGED <<pc, rx_buf, rx_cur, rx_len, got, mine>>
  BY DEF Type, Teardown, Configure, buffer, vars
<1> QED
  BY <1>1, <1>2, <1>3, <1>4, <1>5, <1>6, <1>7 DEF Next, RxThread

LEMMA HostStep ==
  ASSUME RxInv, [Next]_vars
  PROVE  /\ state' \in {"ATTACHED", "CONFIGURED"} /\ activated' \in {"set", "clear"}
         /\ gen' \in 0 .. MaxTeardowns + 1 /\ data' \in [Gens -> Seq(Keys)]
         /\ stat_rx' \in {"DIS", "NAK", "VALID"} /\ isr' \in {"idle", "spinning"}
         /\ typedIn' \in Seq(Gens) /\ Len(typedIn') <= NKeys
<1>1. /\ state \in {"ATTACHED", "CONFIGURED"} /\ activated \in {"set", "clear"}
      /\ gen \in 0 .. MaxTeardowns + 1 /\ data \in [Gens -> Seq(Keys)]
      /\ stat_rx \in {"DIS", "NAK", "VALID"} /\ isr \in {"idle", "spinning"}
      /\ typedIn \in Seq(Gens) /\ Len(typedIn) <= NKeys
  BY DEF RxInv, TypeOK
<1>2. CASE Type
  <2>1. PICK n \in 0 .. MPS :
          /\ typed + n <= NKeys
          /\ typedIn' = typedIn \o [i \in 1 .. n |-> gen]
          /\ \/ isr' = "spinning" /\ UNCHANGED transfer
             \/ /\ data' = [data EXCEPT ![gen] = [i \in 1 .. n |-> typed + i]]
                /\ UNCHANGED isr
    BY <1>2, TypeCases, Zenon
  <2>2. gen \in Gens /\ UNCHANGED device /\ stat_rx' = "NAK"
    BY <1>2, TypeCases, Zenon
  <2> DEFINE packet == [i \in 1 .. n |-> typed + i]
  <2>3. /\ typed' = typed + n /\ typedIn' \in Seq(Gens) /\ packet \in Seq(Keys)
    BY <2>1, <2>2, PacketIs DEF RxInv
  <2>4. data' = data \/ data' = [data EXCEPT ![gen] = packet]
    BY <2>1, Zenon DEF transfer
  <2>5. isr' \in {"idle", "spinning"}
    BY <1>1, <2>1
  <2> HIDE DEF packet
  <2>6. data' \in [Gens -> Seq(Keys)]
    BY <1>1, <2>2, <2>3, <2>4
  <2>7. Len(typedIn') <= NKeys
    BY <2>1, <2>3 DEF typed
  <2> QED
    BY <1>1, <2>2, <2>3, <2>5, <2>6, <2>7 DEF device
<1>3. CASE Configure
  <2>1. gen' \in 0 .. MaxTeardowns + 1
    <3>1. gen <= MaxTeardowns
      BY <1>3 DEF RxInv, PlaceInv, Configure
    <3> QED
      BY <1>1, <1>3, <3>1, SizesAssumption DEF Configure
  <2> QED
    BY <1>1, <1>3, <2>1 DEF Configure, transfer
<1>4. CASE Teardown
  BY <1>1, <1>4 DEF Teardown
<1>5. CASE LlReceive
  BY <1>1, <1>5 DEF LlReceive, device
<1>6. GetC \/ OnChar \/ Retry \/ ReadBegin \/ WaitActivated \/ SetPending \/ Woken \/ Copy
        \/ Full \/ UNCHANGED vars
      => UNCHANGED <<state, activated, gen, data, stat_rx, isr, typedIn>>
  BY DEF GetC, OnChar, Retry, ReadBegin, WaitActivated, SetPending, Woken, Copy, Full,
         device, transfer, vars
<1> QED
  BY <1>1, <1>2, <1>3, <1>4, <1>5, <1>6 DEF Next, RxThread

-----------------------------------------------------------------------------
(* The order of the characters.                                            *)

LEMMA NotFetched ==
  ASSUME RxInv, pc \notin {"receive", "wait"}
  PROVE  \A g \in Gens : semaphore[g] # 1
BY DEF RxInv, TransferInv

LEMMA DataUnchanged ==
  ASSUME NEW g \in Gens, DataInv(g), UNCHANGED <<typedIn, data>>
  PROVE  DataInv(g)'
BY DEF DataInv, typed, Increasing

LEMMA OrderUnchanged ==
  ASSUME OrderInv, UNCHANGED <<buffer, got, typedIn, data>>,
         pc' = "full" => pc = "full",
         \A g \in Gens : g = mine' /\ Fetched' => g = mine /\ Fetched
  PROVE  OrderInv'
<1>1. UNCHANGED <<rx_buf, rx_cur, rx_len, got, typedIn, data>>
  BY DEF buffer
<1>2. BufferInv'
  BY <1>1 DEF OrderInv, BufferInv, Live, typed, Increasing
<1>3. \A g \in Gens : DataInv(g)'
  BY <1>1, DataUnchanged DEF OrderInv
<1>4. \A g \in Gens : FetchedInv(g)'
  BY <1>1 DEF OrderInv, FetchedInv
<1> QED
  BY <1>2, <1>3, <1>4 DEF OrderInv

(* After getc() has looked at its buffer, the rest of it is to come.        *)
LEMMA OrderAfterNextChar ==
  ASSUME RxInv, [Next]_vars, NEW cur \in 0 .. MPS, NEW buf \in Seq(Keys), NEW len \in Nat,
         len <= Len(buf), Len(buf) <= MPS, NextChar(cur, buf, len), Increasing(buf),
         \A i \in 1 .. Len(buf) : buf[i] <= typed,
         \A i \in 1 .. Len(buf) : cur < i /\ i <= len =>
           \A k \in 1 .. Len(got) : got[k] < buf[i],
         rx_buf' = buf, rx_len' = len, UNCHANGED <<typedIn, data, semaphore, mine>>,
         pc \notin {"receive", "wait"}
  PROVE  OrderInv'
<1>1. /\ OrderInv /\ TypeOK /\ len <= MPS /\ Increasing(got)
      /\ \A k \in 1 .. Len(got) : got[k] <= typed
  BY SizesAssumption DEF RxInv, OrderInv, BufferInv
<1>2. /\ Increasing(got)'
      /\ \A k \in 1 .. Len(got') : got'[k] <= typed
      /\ \A i \in 1 .. Len(buf) : rx_cur' < i /\ i <= len =>
           \A k \in 1 .. Len(got') : got'[k] < buf[i]
  BY <1>1, NextCharInOrder
<1>3. pc' \in {"char", "read"}
  BY <1>1, NextCharTypes
<1>4. typed' = typed
  BY DEF typed
<1>5. Increasing(rx_buf)'
  BY DEF Increasing
<1>6. BufferInv'
  BY <1>2, <1>3, <1>4, <1>5 DEF BufferInv, Live
<1>7. \A g \in Gens : DataInv(g)'
  BY <1>1, DataUnchanged DEF OrderInv
<1>8. \A g \in Gens : FetchedInv(g)'
  BY <1>3, NotFetched DEF FetchedInv, Fetched
<1> QED
  BY <1>6, <1>7, <1>8 DEF OrderInv

LEMMA TypeOrder ==
  ASSUME RxInv, Type
  PROVE  OrderInv'
<1> USE DEF TransferType
<1>1. OrderInv /\ TransferType
  BY TransferTypes DEF RxInv
<1>2. /\ UNCHANGED <<pc, mine, rx_buf, rx_cur, rx_len, gen, state, got>> /\ gen \in Gens
  BY TypeCases, Zenon DEF buffer, device
<1>3. PICK n \in 0 .. MPS :
        /\ typed + n <= NKeys
        /\ typedIn' = typedIn \o [i \in 1 .. n |-> gen]
        /\ \/ UNCHANGED transfer
           \/ /\ mine = gen
              /\ data' = [data EXCEPT ![gen] = [i \in 1 .. n |-> typed + i]]
              /\ completion_code' = [completion_code EXCEPT ![gen] = "success"]
  BY TypeCases, Zenon
<1> DEFINE packet == [i \in 1 .. n |-> typed + i]
<1>4. /\ typed \in Nat /\ typed' = typed + n /\ typedIn' \in Seq(Gens) /\ n \in Nat
      /\ \A c \in 1 .. typed : typedIn'[c] = typedIn[c]
      /\ \A i \in 1 .. n : typedIn'[typed + i] = gen
      /\ packet \in Seq(Keys)
  <2>1. TypeOK /\ n \in Nat /\ typed + n <= NKeys
    BY <1>3, SizesAssumption DEF RxInv
  <2>2. typedIn' = typedIn \o [i \in 1 .. n |-> gen]
    BY <1>3
  <2> QED
    BY <1>2, <2>1, <2>2, PacketIs
<1>5. Len(packet) = n /\ \A i \in 1 .. n : packet[i] = typed + i
  BY <1>4
<1> HIDE DEF packet
<1>6. /\ \A i \in 1 .. Len(got) : got[i] \in Nat /\ got[i] <= typed
      /\ \A i \in 1 .. Len(rx_buf) : rx_buf[i] \in Nat /\ rx_buf[i] <= typed
      /\ \A g \in Gens : \A i \in 1 .. Len(data[g]) : data[g][i] \in 1 .. typed
  <2>1. got \in Seq(Keys) /\ rx_buf \in Seq(Keys) /\ data \in [Gens -> Seq(Keys)]
    BY DEF RxInv, TypeOK
  <2>2. ASSUME NEW g \in Gens, NEW i \in 1 .. Len(data[g])
        PROVE  data[g][i] \in 1 .. typed
    <3>1. data[g] \in Seq(Keys) /\ data[g][i] <= typed
      BY <1>1, <2>1 DEF OrderInv, DataInv
    <3>2. data[g][i] \in Keys
      BY <3>1, ElementOfSeq
    <3> QED
      BY <1>4, <3>1, <3>2 DEF Keys
  <2>3. ASSUME NEW i \in 1 .. Len(got) PROVE got[i] \in Nat /\ got[i] <= typed
    <3>1. got[i] \in Keys
      BY <2>1, ElementOfSeq
    <3> QED
      BY <1>1, <3>1 DEF Keys, OrderInv, BufferInv
  <2>4. ASSUME NEW i \in 1 .. Len(rx_buf) PROVE rx_buf[i] \in Nat /\ rx_buf[i] <= typed
    <3>1. rx_buf[i] \in Keys
      BY <2>1, ElementOfSeq
    <3> QED
      BY <1>1, <3>1 DEF Keys, OrderInv, BufferInv
  <2> QED
    BY <2>2, <2>3, <2>4
<1>7. BufferInv'
  <2>1. /\ \A i \in 1 .. Len(got) : got[i] <= typed'
        /\ \A i \in 1 .. Len(rx_buf) : rx_buf[i] <= typed'
    BY <1>4, <1>6
  <2> QED
    BY <1>1, <1>2, <2>1 DEF OrderInv, BufferInv, Live, Increasing
<1>8. ASSUME NEW g \in Gens PROVE DataInv(g)' /\ FetchedInv(g)'
  <2>1. CASE data' = [data EXCEPT ![gen] = packet] /\ g = gen
    <3>1. data'[g] = packet
      BY <1>2, <2>1 DEF RxInv, TypeOK
    <3>2. Increasing(packet)
      BY <1>4, <1>5 DEF Increasing
    <3>3. \A i \in 1 .. n : packet[i] <= typed' /\ typedIn'[packet[i]] = g
      BY <1>4, <1>5, <2>1
    <3>4. Len(packet) <= MPS
      BY <1>3, <1>5
    <3>5. DataInv(g)'
      BY <1>5, <3>1, <3>2, <3>3, <3>4 DEF DataInv, Increasing
    <3>6. \A i \in 1 .. n : \A k \in 1 .. Len(got) : got[k] < packet[i]
      BY <1>4, <1>5, <1>6
    <3> QED
      BY <1>2, <1>5, <3>1, <3>5, <3>6 DEF FetchedInv
  <2>2. CASE data'[g] = data[g]
    <3>1. DataInv(g) /\ FetchedInv(g)
      BY <1>1 DEF OrderInv
    <3>2. \A i \in 1 .. Len(data[g]) : data[g][i] <= typed' /\ typedIn'[data[g][i]] = g
      <4> SUFFICES ASSUME NEW i \in 1 .. Len(data[g])
                   PROVE  data[g][i] <= typed' /\ typedIn'[data[g][i]] = g
        OBVIOUS
      <4> DEFINE c == data[g][i]
      <4>1. c \in 1 .. typed
        BY <1>6
      <4>2. typedIn[c] = g
        BY <3>1 DEF DataInv
      <4> HIDE DEF c
      <4>3. typedIn'[c] = g /\ c <= typed'
        BY <1>4, <4>1, <4>2
      <4> QED BY <4>3 DEF c
    <3>3. DataInv(g)'
      BY <2>2, <3>1, <3>2 DEF DataInv, Increasing
    <3>4. CASE UNCHANGED transfer
      <4>1. UNCHANGED <<semaphore, completion_code>>
        BY <3>4 DEF transfer
      <4> QED
        BY <1>2, <2>2, <3>1, <3>3, <4>1 DEF FetchedInv, Fetched
    <3>5. CASE mine = gen /\ data' = [data EXCEPT ![gen] = packet] /\ g # gen
      BY <1>2, <3>3, <3>5 DEF FetchedInv
    <3>6. CASE mine = gen /\ data' = [data EXCEPT ![gen] = packet] /\ g = gen
      BY <2>1, <3>6
    <3> QED
      BY <1>3, <3>4, <3>5, <3>6 DEF packet
  <2>3. data'[g] = data[g] \/ (data' = [data EXCEPT ![gen] = packet] /\ g = gen)
    <3>1. data' = data \/ data' = [data EXCEPT ![gen] = packet]
      BY <1>3, Zenon DEF transfer, packet
    <3> QED
      BY <3>1 DEF RxInv, TypeOK
  <2> QED
    BY <2>1, <2>2, <2>3
<1> QED
  BY <1>7, <1>8 DEF OrderInv

LEMMA OrderStep ==
  ASSUME RxInv, [Next]_vars
  PROVE  OrderInv'
<1> USE DEF TransferType
<1>1. OrderInv /\ TransferType /\ PlaceInv /\ TypeOK
  BY TransferTypes DEF RxInv
<1>2. CASE GetC \/ Retry
  <2>1. /\ rx_buf' = rx_buf /\ rx_len' = rx_len /\ UNCHANGED <<typedIn, data, semaphore, mine>>
        /\ pc \notin {"receive", "wait"}
    BY <1>2 DEF GetC, Retry, transfer
  <2>2. NextChar(rx_cur, rx_buf, rx_len)
    BY <1>2, NextCharUses
  <2>3. \A i \in 1 .. Len(rx_buf) : rx_cur < i /\ i <= rx_len =>
          \A k \in 1 .. Len(got) : got[k] < rx_buf[i]
    BY <1>1 DEF OrderInv, BufferInv, Live
  <2>4. Increasing(rx_buf) /\ Len(rx_buf) <= MPS /\ \A i \in 1 .. Len(rx_buf) : rx_buf[i] <= typed
    BY <1>1 DEF OrderInv, BufferInv
  <2> QED
    BY <2>1, <2>2, <2>3, <2>4, BufferFits, OrderAfterNextChar
<1>3. CASE Copy
  <2>1. /\ mine \in Gens /\ pc = "copy"
        /\ UNCHANGED <<typedIn, data, semaphore, mine>>
        /\ rx_buf' = data[mine] /\ rx_len' = Len(data[mine])
    BY <1>1, <1>3 DEF Copy, PlaceInv, transfer
  <2> DEFINE buf == data[mine]
  <2>2. /\ buf \in Seq(Keys) /\ Len(buf) \in Nat /\ Len(buf) <= MPS /\ Increasing(buf)
        /\ \A i \in 1 .. Len(buf) : buf[i] <= typed
    BY <1>1, <2>1, BufferFits DEF OrderInv, DataInv
  <2>3. \A i \in 1 .. Len(buf) : \A k \in 1 .. Len(got) : got[k] < buf[i]
    BY <1>1, <2>1 DEF OrderInv, FetchedInv, Fetched
  <2>4. CASE Len(buf) < MPS
    <3>1. NextChar(0, buf, Len(buf))
      BY <1>3, <2>4, NextCharUses
    <3>2. 0 \in 0 .. MPS
      BY SizesAssumption
    <3> HIDE DEF buf
    <3> QED
      BY <2>1, <2>2, <2>3, <3>1, <3>2, OrderAfterNextChar DEF buf
  <2>5. CASE ~(Len(buf) < MPS)
    <3>1. pc' = "full" /\ UNCHANGED <<rx_cur, got>>
      BY <1>3, <2>5 DEF Copy
    <3>2. typed' = typed
      BY <2>1 DEF typed
    <3>3. BufferInv'
      <4>1. Increasing(got)' /\ Increasing(rx_buf)'
        BY <1>1, <2>1, <2>2, <3>1 DEF OrderInv, BufferInv, Increasing
      <4>2. \A i \in 1 .. Len(got') : got'[i] <= typed'
        BY <1>1, <3>1, <3>2 DEF OrderInv, BufferInv
      <4>3. \A i \in 1 .. Len(rx_buf') : rx_buf'[i] <= typed'
        BY <2>1, <2>2, <3>2
      <4>4. \A i \in 1 .. Len(rx_buf') : \A k \in 1 .. Len(got') : got'[k] < rx_buf'[i]
        BY <2>1, <2>3, <3>1
      <4>5. rx_len' <= Len(rx_buf') /\ Len(rx_buf') <= MPS
        BY <2>1, <2>2
      <4> QED
        BY <4>1, <4>2, <4>3, <4>4, <4>5 DEF BufferInv
    <3>4. \A g \in Gens : DataInv(g)'
      BY <1>1, <2>1, DataUnchanged DEF OrderInv
    <3>5. \A g \in Gens : FetchedInv(g)'
      BY <2>1, <3>1, NotFetched DEF FetchedInv, Fetched
    <3> QED
      BY <3>3, <3>4, <3>5 DEF OrderInv
  <2> QED
    BY <2>4, <2>5
<1>4. CASE Full /\ state = "CONFIGURED"
  <2>1. /\ rx_buf' = rx_buf /\ rx_len' = rx_len /\ UNCHANGED <<typedIn, data, semaphore, mine>>
        /\ pc = "full"
    BY <1>4 DEF Full, transfer
  <2>2. NextChar(0, rx_buf, rx_len) /\ 0 \in 0 .. MPS
    BY <1>4, NextCharUses, SizesAssumption
  <2>3. \A i \in 1 .. Len(rx_buf) : \A k \in 1 .. Len(got) : got[k] < rx_buf[i]
    BY <1>1, <2>1 DEF OrderInv, BufferInv, Live
  <2>4. Increasing(rx_buf) /\ Len(rx_buf) <= MPS /\ \A i \in 1 .. Len(rx_buf) : rx_buf[i] <= typed
    BY <1>1 DEF OrderInv, BufferInv
  <2> QED
    BY <2>1, <2>2, <2>3, <2>4, BufferFits, OrderAfterNextChar
<1>5. CASE ReadBegin
  <2>1. /\ UNCHANGED <<rx_buf, rx_cur, got, typedIn, data, semaphore>> /\ pc = "read"
        /\ rx_len' \in {0, rx_len} /\ pc' \in {"activated", "sleep"}
    BY <1>5 DEF ReadBegin, transfer
  <2>2. rx_len \in Nat /\ rx_len' <= rx_len
    BY <2>1, BufferFits
  <2>3. typed' = typed /\ Len(rx_buf) \in Nat
    BY <2>1, BufferFits DEF typed
  <2>4. rx_len' <= Len(rx_buf) /\ \A i \in 1 .. Len(rx_buf) : i <= rx_len' => i <= rx_len
    BY <2>1, <2>2, <2>3, BufferFits
  <2>5. BufferInv'
    BY <1>1, <2>1, <2>3, <2>4 DEF OrderInv, BufferInv, Live, Increasing
  <2>6. \A g \in Gens : DataInv(g)'
    BY <1>1, <2>1, DataUnchanged DEF OrderInv
  <2>7. \A g \in Gens : FetchedInv(g)'
    BY <2>1, NotFetched DEF FetchedInv, Fetched
  <2> QED
    BY <2>5, <2>6, <2>7 DEF OrderInv
<1>6. CASE OnChar \/ WaitActivated \/ SetPending \/ LlReceive \/ Configure \/ UNCHANGED vars
           \/ (Full /\ state # "CONFIGURED")
  <2>1. /\ UNCHANGED <<buffer, got, typedIn, data, mine, semaphore, completion_code>>
        /\ pc' = pc \/ pc' \notin {"full", "copy"}
    BY <1>6 DEF OnChar, WaitActivated, SetPending, LlReceive, Configure, Full, buffer,
                transfer, vars
  <2> QED
    BY <1>1, <2>1, OrderUnchanged DEF Fetched
<1>7. CASE Teardown
  <2>1. /\ UNCHANGED <<buffer, got, typedIn, data, mine, pc>> /\ gen \in Gens
        /\ completion_code' = [completion_code EXCEPT ![gen] = "bus_reset"]
    BY <1>1, <1>7 DEF Teardown, PlaceInv
  <2>2. \A g \in Gens : semaphore'[g] = semaphore[g] \/ g = gen
    BY <1>1, <1>7 DEF Teardown, Abort
  <2>3. ASSUME NEW g \in Gens, g = mine', Fetched' PROVE g = mine /\ Fetched
    <3>1. CASE g = gen
      BY <1>1, <2>1, <2>3, <3>1 DEF Fetched
    <3>2. CASE g # gen
      <4>1. completion_code'[g] = completion_code[g] /\ semaphore'[g] = semaphore[g]
        BY <1>1, <2>1, <2>2, <3>2
      <4> QED
        BY <2>1, <2>3, <4>1 DEF Fetched
    <3> QED
      BY <3>1, <3>2
  <2> QED
    BY <1>1, <2>1, <2>3, OrderUnchanged
<1>8. CASE Woken
  <2>1. /\ UNCHANGED <<buffer, got, typedIn, data, mine, completion_code>> /\ mine \in Gens
        /\ semaphore[mine] = 1 /\ semaphore' = [semaphore EXCEPT ![mine] = 0]
        /\ pc' = IF completion_code[mine] = "success" THEN "copy" ELSE "activated"
    BY <1>8, WokenFacts
  <2>2. semaphore'[mine] = 0
    BY <1>1, <2>1
  <2>3. Fetched' => Fetched
    BY <2>1, <2>2 DEF Fetched
  <2>4. pc' # "full"
    BY <2>1
  <2> QED
    BY <1>1, <2>1, <2>3, <2>4, OrderUnchanged
<1>9. CASE Type
  BY <1>9, TypeOrder
<1> QED
  BY <1>2, <1>3, <1>4, <1>5, <1>6, <1>7, <1>8, <1>9 DEF Next, RxThread

-----------------------------------------------------------------------------
(* No character is dropped.                                                *)

(* What a step leaves where it was is still there.                          *)
LEMMA KeptUnchanged ==
  ASSUME KeptInv, UNCHANGED <<typedIn, gen, state, isr>>,
         \A c \in 1 .. typed : SentNow(c) =>
           /\ IsGot(c) => IsGot(c)'
           /\ IsBuffered(c) => IsGot(c)' \/ IsBuffered(c)'
           /\ IsFetched(c) => IsGot(c)' \/ IsBuffered(c)' \/ IsFetched(c)'
  PROVE  KeptInv'
<1>1. typed' = typed /\ \A c : SentNow(c)' <=> SentNow(c)
  BY DEF typed, SentNow
<1> QED
  BY <1>1 DEF KeptInv

(* The step after which nothing that was typed is of this configuration.    *)
LEMMA KeptForgotten ==
  ASSUME KeptInv, typedIn' = typedIn, state' # "CONFIGURED" \/ gen' > gen,
         gen \in Nat, gen' \in Nat, gen <= gen', typedIn \in Seq(Gens)
  PROVE  KeptInv'
<1>1. typed' = typed
  BY DEF typed
<1>2. \A c \in 1 .. typed : typedIn[c] \in Nat /\ typedIn[c] <= gen
  <2>1. \A c \in 1 .. typed : typedIn[c] \in Gens
    BY ElementOfSeq DEF typed
  <2> QED
    BY <2>1, SizesAssumption DEF KeptInv, Gens
<1>3. \A c \in 1 .. typed : typedIn[c] <= gen' /\ ~SentNow(c)'
  BY <1>1, <1>2 DEF SentNow
<1> QED
  BY <1>1, <1>3 DEF KeptInv

(* getc() gives the next character of its buffer to the terminal.           *)
LEMMA KeptAfterNextChar ==
  ASSUME RxInv, NEW cur \in 0 .. MPS, NEW buf \in Seq(Keys), NEW len \in Nat,
         len <= Len(buf), len <= MPS, NextChar(cur, buf, len), Increasing(buf),
         \A i \in 1 .. Len(buf) : buf[i] <= typed,
         \A i \in 1 .. Len(buf) : cur < i /\ i <= len =>
           \A k \in 1 .. Len(got) : got[k] < buf[i],
         rx_buf' = buf, rx_len' = len, UNCHANGED <<typedIn, gen, state, isr>>,
         \A c \in 1 .. typed : IsBuffered(c) \/ IsFetched(c) =>
           \E i \in 1 .. Len(buf) : cur < i /\ i <= len /\ buf[i] = c
  PROVE  KeptInv'
<1>1. /\ TypeOK /\ Increasing(got) /\ KeptInv
      /\ \A k \in 1 .. Len(got) : got[k] <= typed
  BY DEF RxInv, OrderInv, BufferInv
<1>2. /\ \A c : IsGot(c) => IsGot(c)'
      /\ \A i \in 1 .. Len(buf) : cur < i /\ i <= len =>
           IsGot(buf[i])' \/ rx_cur' < i
  BY <1>1, NextCharInOrder
<1>3. ASSUME NEW c \in 1 .. typed, IsBuffered(c) \/ IsFetched(c)
      PROVE  IsGot(c)' \/ IsBuffered(c)'
  <2>1. PICK i \in 1 .. Len(buf) : cur < i /\ i <= len /\ buf[i] = c
    BY <1>3
  <2>2. IsGot(buf[i])' \/ rx_cur' < i
    BY <1>2, <2>1
  <2>3. CASE IsGot(buf[i])'
    BY <2>1, <2>3 DEF IsGot
  <2>4. CASE rx_cur' < i
    <3>1. Live(i)'
      BY <2>1, <2>4 DEF Live
    <3> QED
      BY <2>1, <3>1 DEF IsBuffered
  <2> QED
    BY <2>2, <2>3, <2>4
<1> QED
  BY <1>1, <1>2, <1>3, KeptUnchanged

LEMMA TypeKept ==
  ASSUME RxInv, Type
  PROVE  KeptInv'
<1> USE DEF TransferType
<1>1. KeptInv /\ TransferType /\ TypeOK
  BY TransferTypes DEF RxInv
<1>2. /\ UNCHANGED <<pc, mine, rx_buf, rx_cur, rx_len, gen, state, got>> /\ gen \in Gens
  BY TypeCases, Zenon DEF buffer, device
<1>3. PICK n \in 0 .. MPS :
        /\ typed + n <= NKeys
        /\ typedIn' = typedIn \o [i \in 1 .. n |-> gen]
        /\ \/ isr' = "spinning"
           \/ /\ pc = "wait" /\ mine = gen /\ status[mine] = "PENDING"
              /\ data' = [data EXCEPT ![gen] = [i \in 1 .. n |-> typed + i]]
              /\ status' = [status EXCEPT ![gen] = "COMPLETED"]
              /\ UNCHANGED isr
  BY TypeCases, Zenon
<1> DEFINE packet == [i \in 1 .. n |-> typed + i]
<1>4. /\ typed \in Nat /\ typed' = typed + n /\ n \in Nat
      /\ \A c \in 1 .. typed : typedIn'[c] = typedIn[c]
      /\ \A i \in 1 .. n : typedIn'[typed + i] = gen
      /\ packet \in Seq(Keys)
  <2>1. n \in Nat /\ typed + n <= NKeys
    BY <1>3, SizesAssumption
  <2>2. typedIn' = typedIn \o [i \in 1 .. n |-> gen]
    BY <1>3
  <2> QED
    BY <1>1, <1>2, <2>1, <2>2, PacketIs
<1>5. Len(packet) = n /\ \A i \in 1 .. n : packet[i] = typed + i
  BY <1>4
<1> HIDE DEF packet
<1>6. \A c \in 1 .. typed + n : c \in 1 .. typed \/ \E i \in 1 .. n : c = typed + i
  <2>1. ASSUME NEW c \in 1 .. typed + n, c \notin 1 .. typed
        PROVE  c - typed \in 1 .. n /\ c = typed + (c - typed)
    BY <1>4, <2>1
  <2> QED
    BY <2>1
<1>7. \A c \in 1 .. typed' : typedIn'[c] <= gen'
  <2>1. gen' = gen /\ gen <= gen
    BY <1>1, <1>2
  <2>2. \A c \in 1 .. typed : typedIn'[c] <= gen
    BY <1>1, <1>4 DEF KeptInv
  <2>3. \A i \in 1 .. n : typedIn'[typed + i] <= gen
    BY <1>4, <2>1
  <2>4. \A c \in 1 .. typed + n : typedIn'[c] <= gen
    BY <1>6, <2>2, <2>3
  <2> QED
    BY <1>4, <2>1, <2>4
<1>8. ASSUME isr' = "idle", NEW c \in 1 .. typed', SentNow(c)'
      PROVE  IsGot(c)' \/ IsBuffered(c)' \/ IsFetched(c)'
  <2>1. /\ pc = "wait" /\ mine = gen /\ status[mine] = "PENDING" /\ isr = "idle"
        /\ data' = [data EXCEPT ![gen] = packet]
        /\ status' = [status EXCEPT ![gen] = "COMPLETED"]
    BY <1>3, <1>8 DEF packet
  <2>2. data'[mine] = packet /\ status'[mine] = "COMPLETED"
    BY <1>1, <1>2, <2>1 DEF TypeOK
  <2>3. CASE c \in 1 .. typed
    <3>1. SentNow(c)
      BY <1>2, <1>4, <1>8, <2>3 DEF SentNow
    <3>2. ~IsFetched(c)
      BY <2>1 DEF IsFetched, Received
    <3>3. IsGot(c) \/ IsBuffered(c)
      BY <1>1, <2>1, <2>3, <3>1, <3>2 DEF KeptInv
    <3>4. (IsGot(c) => IsGot(c)') /\ (IsBuffered(c) => IsBuffered(c)')
      BY <1>2 DEF IsGot, IsBuffered, Live
    <3> QED
      BY <3>3, <3>4
  <2>4. CASE \E i \in 1 .. n : c = typed + i
    <3>1. \E i \in 1 .. Len(packet) : packet[i] = c
      BY <1>5, <2>4
    <3>2. Received'
      BY <1>2, <2>1, <2>2 DEF Received
    <3> QED
      BY <1>2, <2>2, <3>1, <3>2 DEF IsFetched
  <2> QED
    BY <1>4, <1>6, <1>8, <2>3, <2>4
<1> QED
  BY <1>7, <1>8 DEF KeptInv

LEMMA KeptStep ==
  ASSUME RxInv, [Next]_vars
  PROVE  KeptInv'
<1> USE DEF TransferType
<1>1. KeptInv /\ OrderInv /\ TransferType /\ PlaceInv /\ TypeOK /\ TransferInv
  BY TransferTypes DEF RxInv
<1>2. gen \in Nat /\ typedIn \in Seq(Gens) /\ gen <= gen
  BY <1>1 DEF TypeOK
<1>3. /\ rx_cur \in Nat /\ rx_len \in Nat /\ Len(rx_buf) \in Nat /\ rx_len <= Len(rx_buf)
      /\ rx_len <= MPS /\ Increasing(rx_buf) /\ \A i \in 1 .. Len(rx_buf) : rx_buf[i] <= typed
  BY <1>1, BufferFits, SizesAssumption DEF OrderInv, BufferInv
<1>4. CASE GetC \/ Retry
  <2>1. /\ rx_buf' = rx_buf /\ rx_len' = rx_len /\ UNCHANGED <<typedIn, gen, state, isr>>
        /\ pc \in {"start", "sleep"}
    BY <1>4 DEF GetC, Retry, device
  <2>2. NextChar(rx_cur, rx_buf, rx_len)
    BY <1>4, NextCharUses
  <2>3. \A i \in 1 .. Len(rx_buf) : rx_cur < i /\ i <= rx_len =>
          \A k \in 1 .. Len(got) : got[k] < rx_buf[i]
    BY <1>1 DEF OrderInv, BufferInv, Live
  <2>4. \A c \in 1 .. typed : IsBuffered(c) \/ IsFetched(c) =>
          \E i \in 1 .. Len(rx_buf) : rx_cur < i /\ i <= rx_len /\ rx_buf[i] = c
    BY <2>1 DEF IsBuffered, IsFetched, Received, Live
  <2> QED
    BY <1>3, <2>1, <2>2, <2>3, <2>4, BufferFits, KeptAfterNextChar
<1>5. CASE Copy
  <2>1. /\ mine \in Gens /\ pc = "copy" /\ rx_len = 0
        /\ UNCHANGED <<typedIn, gen, state, isr>>
        /\ rx_buf' = data[mine] /\ rx_len' = Len(data[mine])
    BY <1>1, <1>5 DEF Copy, PlaceInv, device
  <2> DEFINE buf == data[mine]
  <2>2. /\ buf \in Seq(Keys) /\ Len(buf) \in Nat /\ Len(buf) <= MPS /\ Increasing(buf)
        /\ \A i \in 1 .. Len(buf) : buf[i] <= typed
    BY <1>1, <2>1, BufferFits DEF OrderInv, DataInv
  <2>3. \A i \in 1 .. Len(buf) : \A k \in 1 .. Len(got) : got[k] < buf[i]
    BY <1>1, <2>1 DEF OrderInv, FetchedInv, Fetched
  <2>4. \A c : ~IsBuffered(c)
    <3>1. \A i \in 1 .. Len(rx_buf) : ~Live(i)
      BY <1>3, <2>1 DEF Live
    <3> QED
      BY <3>1 DEF IsBuffered
  <2>5. \A c : IsFetched(c) => \E i \in 1 .. Len(buf) : buf[i] = c
    BY DEF IsFetched
  <2>6. CASE Len(buf) < MPS
    <3>1. NextChar(0, buf, Len(buf))
      BY <1>5, <2>6, NextCharUses
    <3>2. 0 \in 0 .. MPS /\ \A i \in 1 .. Len(buf) : 0 < i /\ i <= Len(buf)
      BY <2>2, SizesAssumption
    <3>3. rx_buf' = buf /\ rx_len' = Len(buf)
      BY <2>1
    <3> HIDE DEF buf
    <3> QED
      BY <2>1, <2>2, <2>3, <2>4, <2>5, <3>1, <3>2, <3>3, KeptAfterNextChar
  <2>7. CASE ~(Len(buf) < MPS)
    <3>1. pc' = "full" /\ got' = got
      BY <1>5, <2>7 DEF Copy
    <3>2. \A c : IsFetched(c) => IsBuffered(c)'
      BY <2>1, <2>5, <3>1 DEF IsBuffered, Live
    <3>3. \A c : IsGot(c) => IsGot(c)'
      BY <3>1 DEF IsGot
    <3> QED
      BY <1>1, <2>1, <2>4, <3>2, <3>3, KeptUnchanged
  <2> QED
    BY <2>6, <2>7
<1>6. CASE Full /\ state = "CONFIGURED"
  <2>1. /\ rx_buf' = rx_buf /\ rx_len' = rx_len /\ UNCHANGED <<typedIn, gen, state, isr>>
        /\ pc = "full" /\ rx_len = Len(rx_buf)
    BY <1>1, <1>6 DEF Full, PlaceInv, device
  <2>2. NextChar(0, rx_buf, rx_len) /\ 0 \in 0 .. MPS
    BY <1>6, NextCharUses, SizesAssumption
  <2>3. \A i \in 1 .. Len(rx_buf) : \A k \in 1 .. Len(got) : got[k] < rx_buf[i]
    BY <1>1, <2>1 DEF OrderInv, BufferInv, Live
  <2>4. \A i \in 1 .. Len(rx_buf) : 0 < i /\ i <= rx_len
    BY <1>3, <2>1
  <2>5. \A c \in 1 .. typed : IsBuffered(c) \/ IsFetched(c) =>
          \E i \in 1 .. Len(rx_buf) : 0 < i /\ i <= rx_len /\ rx_buf[i] = c
    BY <2>1, <2>4 DEF IsBuffered, IsFetched, Received
  <2> QED
    BY <1>3, <2>1, <2>2, <2>3, <2>5, BufferFits, KeptAfterNextChar
<1>7. CASE (Full \/ ReadBegin) /\ state # "CONFIGURED"
  <2>1. UNCHANGED <<typedIn, gen, state>>
    BY <1>7 DEF Full, ReadBegin, device
  <2> QED
    BY <1>1, <1>2, <1>7, <2>1, KeptForgotten
<1>8. CASE ReadBegin /\ state = "CONFIGURED"
  <2>1. /\ UNCHANGED <<typedIn, gen, state, isr, got>> /\ pc = "read" /\ rx_cur >= rx_len
    BY <1>1, <1>8 DEF ReadBegin, PlaceInv, device
  <2>2. \A c : ~IsBuffered(c) /\ ~IsFetched(c)
    <3>1. \A i \in 1 .. Len(rx_buf) : ~Live(i)
      BY <1>3, <2>1 DEF Live
    <3> QED
      BY <2>1, <3>1 DEF IsBuffered, IsFetched, Received
  <2>3. \A c : IsGot(c) => IsGot(c)'
    BY <2>1 DEF IsGot
  <2> QED
    BY <1>1, <2>1, <2>2, <2>3, KeptUnchanged
<1>9. CASE OnChar \/ WaitActivated \/ SetPending \/ LlReceive \/ UNCHANGED vars
  <2>1. /\ UNCHANGED <<typedIn, gen, state, isr, rx_buf, rx_cur, rx_len, got, data, mine>>
        /\ UNCHANGED <<pc, status>> \/ (pc # "full" /\ pc # "copy" /\ pc # "wait")
    BY <1>9 DEF OnChar, WaitActivated, SetPending, LlReceive, buffer, device, transfer, vars
  <2>2. /\ \A c : IsGot(c) => IsGot(c)'
        /\ \A c : IsBuffered(c) => IsBuffered(c)'
    BY <2>1 DEF IsGot, IsBuffered, Live
  <2>3. \A c : IsFetched(c) => IsFetched(c)'
    BY <2>1 DEF IsFetched, Received
  <2> QED
    BY <1>1, <2>1, <2>2, <2>3, KeptUnchanged
<1>10. CASE Woken
  <2>1. /\ UNCHANGED <<typedIn, gen, state, isr, rx_buf, rx_cur, rx_len, got, data, mine>>
        /\ mine \in Gens /\ semaphore[mine] = 1 /\ pc = "wait"
        /\ pc' = IF completion_code[mine] = "success" THEN "copy" ELSE "activated"
    BY <1>10, WokenFacts DEF buffer, device
  <2>2. /\ \A c : IsGot(c) => IsGot(c)'
        /\ \A c : IsBuffered(c) => IsBuffered(c)'
    BY <2>1 DEF IsGot, IsBuffered, Live
  <2>3. ASSUME NEW c \in 1 .. typed, SentNow(c), IsFetched(c) PROVE IsFetched(c)'
    <3>1. PICK i \in 1 .. Len(data[mine]) : data[mine][i] = c
      BY <2>3 DEF IsFetched
    <3>2. typedIn[c] = mine
      BY <1>1, <2>1, <3>1 DEF OrderInv, DataInv
    <3>3. mine = gen /\ state = "CONFIGURED"
      BY <2>3, <3>2 DEF SentNow
    <3>4. completion_code[mine] = "success"
      BY <1>1, <2>1, <3>3 DEF TransferInv
    <3> QED
      BY <2>1, <3>1, <3>4 DEF IsFetched, Received
  <2> QED
    BY <1>1, <2>1, <2>2, <2>3, KeptUnchanged
<1>11. CASE Type
  BY <1>11, TypeKept
<1>12. CASE Teardown
  <2>1. UNCHANGED <<typedIn, gen>> /\ state' # "CONFIGURED"
    BY <1>12 DEF Teardown
  <2> QED
    BY <1>1, <1>2, <2>1, KeptForgotten
<1>13. CASE Configure
  <2>1. typedIn' = typedIn /\ gen' = gen + 1
    BY <1>13 DEF Configure
  <2> QED
    BY <1>1, <1>2, <2>1, KeptForgotten
<1> QED
  BY <1>4, <1>5, <1>6, <1>7, <1>8, <1>9, <1>10, <1>11, <1>12, <1>13 DEF Next, RxThread

-----------------------------------------------------------------------------
(* The theorems.                                                           *)

LEMMA RxInvHolds == Spec => []RxInv
<1>1. RxInv /\ [Next]_vars => RxInv'
  <2> SUFFICES ASSUME RxInv, [Next]_vars PROVE RxInv'
    OBVIOUS
  <2>1. TypeOK'
    BY BufferStep, HostStep, TransferStep DEF TypeOK
  <2> QED
    BY <2>1, PlaceStep, TransferStep, OrderStep, KeptStep DEF RxInv
<1> QED
  BY <1>1, InitHolds, PTL DEF Spec

(* TypeOK: the types, and that no token is left on a semaphore beside the   *)
(* one of the last transfer, whatever interrupts read() and wherever.       *)
THEOREM InputTypeCorrect == Spec => []TypeOK
<1>1. RxInv => TypeOK
  BY DEF RxInv
<1> QED
  BY <1>1, RxInvHolds, PTL

(* KeysInOrder: getc() returns the characters in the order in which they    *)
(* were typed and none twice, for every packet size and any resets.         *)
THEOREM InputStaysInOrder == Spec => []KeysInOrder
<1>1. RxInv => KeysInOrder
  <2> SUFFICES ASSUME RxInv PROVE KeysInOrder
    OBVIOUS
  <2>1. DOMAIN got = 1 .. Len(got)
    BY DEF RxInv, TypeOK
  <2> QED
    BY <2>1 DEF RxInv, OrderInv, BufferInv, Increasing, KeysInOrder
<1> QED
  BY <1>1, RxInvHolds, PTL

(* What is buffered or fetched is in the firmware's hands.                  *)
LEMMA InHandHolds ==
  ASSUME RxInv, NEW c, IsBuffered(c) \/ IsFetched(c)
  PROVE  \E i \in DOMAIN InHand : InHand[i] = c
<1> USE SizesAssumption
<1>1. /\ rx_buf \in Seq(Keys) /\ rx_cur \in Nat /\ rx_len \in Nat
      /\ Len(rx_buf) \in Nat /\ rx_len <= Len(rx_buf)
      /\ \A g \in Gens : data[g] \in Seq(Keys)
  BY BufferFits
<1>2. Received => mine \in Gens
  BY DEF RxInv, PlaceInv, TypeOK, Received, Gens
<1>3. InTransfer \in Seq(Keys)
  BY <1>1, <1>2 DEF InTransfer
<1> DEFINE rest == SubSeq(rx_buf, rx_cur + 1, rx_len)
<1>4. /\ rest \in Seq(Keys)
      /\ \A i \in rx_cur + 1 .. rx_len : /\ i - rx_cur \in 1 .. Len(rest)
                                        /\ rest[i - rx_cur] = rx_buf[i]
  <2>1. CASE rx_cur + 1 <= rx_len
    <3>1. rx_cur + 1 \in 1 .. Len(rx_buf) + 1 /\ rx_len \in rx_cur .. Len(rx_buf)
      BY <1>1, <2>1
    <3>2. \A i \in rx_cur + 1 .. rx_len : rx_buf[i] \in Keys
      BY <1>1, ElementOfSeq
    <3>3. /\ Len(rest) = rx_len - rx_cur
          /\ \A k \in 1 .. rx_len - rx_cur : rest[k] = rx_buf[rx_cur + k]
      BY <1>1, <2>1
    <3>4. rest \in Seq(Keys)
      BY <1>1, <2>1, <3>1
    <3>5. \A i \in rx_cur + 1 .. rx_len :
            i - rx_cur \in 1 .. rx_len - rx_cur /\ rx_cur + (i - rx_cur) = i
      BY <1>1
    <3> QED
      BY <3>3, <3>4, <3>5
  <2>2. CASE ~(rx_cur + 1 <= rx_len)
    <3>1. rx_cur + 1 .. rx_len = {}
      BY <1>1, <2>2
    <3>2. rest \in Seq(Keys)
      BY <1>1, <2>2
    <3> QED
      BY <3>1, <3>2
  <2> QED
    BY <2>1, <2>2
<1> HIDE DEF rest
<1>5. InBuffer \in Seq(Keys)
  BY <1>1, <1>4 DEF InBuffer, rest
<1>6. /\ DOMAIN InHand = 1 .. Len(InBuffer) + Len(InTransfer)
      /\ Len(InBuffer) \in Nat /\ Len(InTransfer) \in Nat
      /\ \A i \in 1 .. Len(InBuffer) : InHand[i] = InBuffer[i]
      /\ \A i \in 1 .. Len(InTransfer) : InHand[Len(InBuffer) + i] = InTransfer[i]
  <2> DEFINE s == InBuffer
             t == InTransfer
  <2>1. s \in Seq(Keys) /\ t \in Seq(Keys) /\ InHand = s \o t
    BY <1>3, <1>5 DEF InHand
  <2> HIDE DEF s, t
  <2>2. /\ DOMAIN InHand = 1 .. Len(s) + Len(t) /\ Len(s) \in Nat /\ Len(t) \in Nat
        /\ \A i \in 1 .. Len(s) : InHand[i] = s[i]
        /\ \A i \in 1 .. Len(t) : InHand[Len(s) + i] = t[i]
    BY <2>1
  <2> QED
    BY <2>2 DEF s, t
<1>7. CASE IsBuffered(c)
  <2>1. PICK i \in 1 .. Len(rx_buf) : Live(i) /\ rx_buf[i] = c
    BY <1>7 DEF IsBuffered
  <2>2. \E k \in 1 .. Len(InBuffer) : InBuffer[k] = c
    <3>1. CASE pc = "full"
      BY <2>1, <3>1 DEF InBuffer
    <3>2. CASE pc # "full"
      <4>1. i \in rx_cur + 1 .. rx_len
        BY <1>1, <2>1, <3>2 DEF Live
      <4> QED
        BY <1>4, <2>1, <3>2, <4>1 DEF InBuffer, rest
    <3> QED
      BY <3>1, <3>2
  <2>3. PICK k \in 1 .. Len(InBuffer) : InBuffer[k] = c
    BY <2>2
  <2>4. k \in DOMAIN InHand
    BY <1>6
  <2> QED
    BY <1>6, <2>3, <2>4
<1>8. CASE IsFetched(c)
  <2>1. PICK i \in 1 .. Len(InTransfer) : InTransfer[i] = c
    BY <1>8 DEF IsFetched, InTransfer
  <2>2. Len(InBuffer) + i \in DOMAIN InHand
    BY <1>6
  <2> QED
    BY <1>6, <2>1, <2>2
<1> QED
  BY <1>7, <1>8

(* KeysAreKept: a character that the host saw acknowledged is with the      *)
(* terminal, in rx_buf or in the transfer, while its configuration holds.   *)
THEOREM InputIsKept == Spec => []KeysAreKept
<1>1. RxInv => KeysAreKept
  <2> SUFFICES ASSUME RxInv, isr = "idle", NEW c \in 1 .. typed, SentNow(c)
               PROVE  \/ \E i \in DOMAIN got : got[i] = c
                      \/ \E i \in DOMAIN InHand : InHand[i] = c
    BY DEF KeysAreKept
  <2>1. IsGot(c) \/ IsBuffered(c) \/ IsFetched(c)
    BY DEF RxInv, KeptInv
  <2>2. DOMAIN got = 1 .. Len(got)
    BY DEF RxInv, TypeOK
  <2>3. CASE IsGot(c)
    BY <2>2, <2>3 DEF IsGot
  <2>4. CASE IsBuffered(c) \/ IsFetched(c)
    BY <2>4, InHandHolds
  <2> QED
    BY <2>1, <2>3, <2>4
<1> QED
  BY <1>1, RxInvHolds, PTL
=============================================================================
