---------------------------- MODULE BoardProofs ----------------------------
(***************************************************************************)
(* Theorems about the board, for every pool, queue, number of blocks to a  *)
(* flag, and every number of commands and of failures.  Two invariants are *)
(* stacked: HwInv, of the request thread alone, and DriverInv, which says  *)
(* what the request in flight is about.  A step of the board is, for the   *)
(* request thread, one of its four operations or none (HwStep).            *)
(***************************************************************************)
EXTENDS Board, RationalProofs, SequenceTheorems

-----------------------------------------------------------------------------
(* The request thread.                                                     *)

HwStep == \/ \E word : Allocate(word, "wait") \/ Allocate(word, "forget")
          \/ Send
          \/ Serve("ok") \/ Serve("failed")
          \/ Wake

\* The shape of the state; what a word is does not matter here.
HwShape ==
  /\ pool \subseteq Blocks
  /\ queue \in Seq(Blocks)
  /\ stage \in {"none", "allocated", "waiting"}
  /\ mine \in Blocks \cup {NoBlock}
  /\ req = [b \in Blocks |-> [word |-> req[b].word, wait |-> req[b].wait,
                              answer |-> req[b].answer]]

\* Only the requester's block is waited for, and only its flag is set: that is
\* why a flag that blocks share never wakes it for another one's answer.
HwInv ==
  /\ HwShape
  /\ BlocksAreAccounted
  /\ stage = "allocated" => req[mine].answer = "none"
  /\ stage = "waiting" => req[mine].wait = "wait"
  /\ \A i \in 1 .. Len(queue) :
       req[queue[i]].wait = "wait" =>
         stage = "waiting" /\ queue[i] = mine /\ req[mine].answer = "none"
  /\ flags # {} => /\ stage = "waiting" /\ req[mine].answer # "none"
                   /\ flags = {FlagOf(mine)}

LEMMA BlocksAreNot == NoBlock \notin Blocks /\ Blocks \subseteq Nat
  BY SizesAssumption DEF NoBlock, Blocks

\* Answering a request leaves the rest of its block alone.
LEMMA Answered ==
  ASSUME NEW r, NEW v, r = [word |-> r.word, wait |-> r.wait, answer |-> r.answer]
  PROVE  [r EXCEPT !.answer = v] = [word |-> r.word, wait |-> r.wait, answer |-> v]
<1>1. ASSUME NEW x, NEW y, NEW z
      PROVE  [[word |-> x, wait |-> y, answer |-> z] EXCEPT !.answer = v]
               = [word |-> x, wait |-> y, answer |-> v]
  OBVIOUS
<1> QED BY <1>1

LEMMA HwStarts == HwInit => HwInv
<1> SUFFICES ASSUME HwInit PROVE HwInv
  OBVIOUS
<1>1. pool = Blocks /\ queue = <<>> /\ flags = {} /\ stage = "none" /\ mine = NoBlock
      /\ req = [b \in Blocks |-> Blank]
  BY DEF HwInit
<1>2. HwShape
  BY <1>1 DEF HwShape, Blank
<1>3. Len(queue) = 0
  BY <1>1
<1> QED BY <1>1, <1>2, <1>3 DEF HwInv, BlocksAreAccounted

LEMMA AllocateKeepsHwInv ==
  ASSUME HwInv, NEW word, NEW wait, Allocate(word, wait)
  PROVE  HwInv'
<1>1. PICK b \in pool :
        /\ pool' = pool \ {b}
        /\ flags' = flags \ {FlagOf(b)}
        /\ req' = [req EXCEPT ![b] = [word |-> word, wait |-> wait, answer |-> "none"]]
        /\ mine' = b
  BY DEF Allocate
<1>2. stage = "none" /\ stage' = "allocated" /\ queue' = queue /\ flags = {}
  BY DEF Allocate, HwInv
<1>3. b \in Blocks /\ \A i \in 1 .. Len(queue) : queue[i] \in Blocks /\ queue[i] # b
  BY <1>1 DEF HwInv, HwShape, BlocksAreAccounted
<1>4. /\ req'[b] = [word |-> word, wait |-> wait, answer |-> "none"]
      /\ \A x \in Blocks \ {b} : req'[x] = req[x]
  BY <1>1, <1>3 DEF HwInv, HwShape
<1>5. HwShape'
  <2>1. req' = [x \in Blocks |-> req'[x]]
    BY <1>1 DEF HwInv, HwShape
  <2>2. \A x \in Blocks : req'[x] = [word |-> req'[x].word, wait |-> req'[x].wait,
                                     answer |-> req'[x].answer]
    BY <1>3, <1>4 DEF HwInv, HwShape
  <2> QED BY <1>1, <1>2, <1>3, <2>1, <2>2 DEF HwInv, HwShape
<1>6. BlocksAreAccounted'
  BY <1>1, <1>2, <1>3, BlocksAreNot DEF HwInv, HwShape, BlocksAreAccounted
<1> QED BY <1>1, <1>2, <1>3, <1>4, <1>5, <1>6 DEF HwInv

LEMMA SendKeepsHwInv ==
  ASSUME HwInv, Send
  PROVE  HwInv'
<1>1. /\ stage = "allocated" /\ queue' = Append(queue, mine)
      /\ UNCHANGED <<pool, flags, req>>
  BY DEF Send
<1>2. /\ flags = {} /\ mine \in Blocks \ pool /\ req[mine].answer = "none"
      /\ \A i \in 1 .. Len(queue) : queue[i] \in Blocks /\ queue[i] # mine
      /\ \A i \in 1 .. Len(queue) : req[queue[i]].wait # "wait"
  BY <1>1 DEF HwInv, HwShape, BlocksAreAccounted
<1>3. /\ queue' \in Seq(Blocks) /\ Len(queue') = Len(queue) + 1
      /\ queue'[Len(queue) + 1] = mine
      /\ \A i \in 1 .. Len(queue) : queue'[i] = queue[i]
      /\ Len(queue) \in Nat
  BY <1>1, <1>2, AppendProperties DEF HwInv, HwShape
<1>4. \/ req[mine].wait = "wait" /\ stage' = "waiting" /\ mine' = mine
      \/ req[mine].wait # "wait" /\ stage' = "none" /\ mine' = NoBlock
  BY DEF Send
<1>5. HwShape'
  BY <1>1, <1>3, <1>4 DEF HwInv, HwShape
<1>6. BlocksAreAccounted'
  <2>1. \A i, j \in 1 .. Len(queue') : queue'[i] = queue'[j] => i = j
    BY <1>2, <1>3 DEF HwInv, BlocksAreAccounted
  <2>2. \A i \in 1 .. Len(queue') : queue'[i] \notin pool'
    BY <1>1, <1>2, <1>3 DEF HwInv, BlocksAreAccounted
  <2>3. \A b \in Blocks \ pool' : b = mine' \/ \E i \in 1 .. Len(queue') : queue'[i] = b
    <3> SUFFICES ASSUME NEW b \in Blocks \ pool PROVE \E i \in 1 .. Len(queue') : queue'[i] = b
      BY <1>1
    <3>1. CASE b = mine
      BY <1>3, <3>1
    <3>2. CASE b # mine
      BY <1>3, <3>2 DEF HwInv, BlocksAreAccounted
    <3> QED BY <3>1, <3>2
  <2> QED BY <1>1, <1>2, <1>4, <2>1, <2>2, <2>3 DEF BlocksAreAccounted
<1>7. \A i \in 1 .. Len(queue') :
        req'[queue'[i]].wait = "wait" =>
          stage' = "waiting" /\ queue'[i] = mine' /\ req'[mine'].answer = "none"
  BY <1>1, <1>2, <1>3, <1>4
<1> QED BY <1>1, <1>2, <1>4, <1>5, <1>6, <1>7 DEF HwInv

LEMMA ServeKeepsHwInv ==
  ASSUME HwInv, NEW answered \in {"ok", "failed"}, Serve(answered)
  PROVE  HwInv'
<1> DEFINE b == Head(queue)
<1>1. queue # <<>> /\ queue' = Tail(queue) /\ UNCHANGED <<stage, mine>>
  BY DEF Serve
<1>2. /\ b = queue[1] /\ b \in Blocks /\ 1 \in 1 .. Len(queue)
      /\ queue' \in Seq(Blocks) /\ Len(queue') = Len(queue) - 1
      /\ \A i \in 1 .. Len(queue') : i + 1 \in 1 .. Len(queue) /\ queue'[i] = queue[i + 1]
      /\ \A i \in 1 .. Len(queue) : i = 1 \/ (i - 1 \in 1 .. Len(queue') /\ queue[i] = queue'[i - 1])
  <2>1. queue \in Seq(Blocks)
    BY DEF HwInv, HwShape
  <2>2. /\ b = queue[1] /\ b \in Blocks /\ Len(queue) \in Nat /\ Len(queue) >= 1
        /\ queue' \in Seq(Blocks) /\ Len(queue') = Len(queue) - 1
        /\ \A i \in 1 .. Len(queue') : queue'[i] = queue[i + 1]
    BY <1>1, <2>1, HeadTailProperties, EmptySeq, ElementOfSeq, LenProperties
  <2> QED BY <2>2
<1> HIDE DEF b
<1>3. \A i \in 1 .. Len(queue') : queue'[i] \in Blocks /\ queue'[i] # b
  <2> TAKE i \in 1 .. Len(queue')
  <2>1. i + 1 \in 1 .. Len(queue) /\ queue'[i] = queue[i + 1] /\ i + 1 # 1
    BY <1>2
  <2>2. queue[i + 1] \in Blocks
    BY <2>1, ElementOfSeq DEF HwInv, HwShape
  <2> QED BY <1>2, <2>1, <2>2 DEF HwInv, BlocksAreAccounted
<1>4. /\ \A i, j \in 1 .. Len(queue') : queue'[i] = queue'[j] => i = j
      /\ \A i \in 1 .. Len(queue') : queue'[i] \notin pool
      /\ \A x \in (Blocks \ pool) \ {b} : x = mine \/ \E i \in 1 .. Len(queue') : queue'[i] = x
      /\ b \notin pool
  <2>1. \A i, j \in 1 .. Len(queue') : queue'[i] = queue'[j] => i = j
    <3> TAKE i, j \in 1 .. Len(queue')
    <3>1. queue'[i] = queue[i + 1] /\ queue'[j] = queue[j + 1]
          /\ i + 1 \in 1 .. Len(queue) /\ j + 1 \in 1 .. Len(queue)
      BY <1>2
    <3>2. queue[i + 1] = queue[j + 1] => i + 1 = j + 1
      BY <3>1 DEF HwInv, BlocksAreAccounted
    <3> QED BY <3>1, <3>2
  <2>2. \A i \in 1 .. Len(queue') : queue'[i] \notin pool
    BY <1>2 DEF HwInv, BlocksAreAccounted
  <2>3. ASSUME NEW x \in (Blocks \ pool) \ {b}, x # mine
        PROVE  \E i \in 1 .. Len(queue') : queue'[i] = x
    <3>1. PICK i \in 1 .. Len(queue) : queue[i] = x
      BY <2>3 DEF HwInv, BlocksAreAccounted
    <3>2. i # 1
      BY <1>2, <3>1
    <3> QED BY <1>2, <3>1, <3>2
  <2>4. b \notin pool
    BY <1>2 DEF HwInv, BlocksAreAccounted
  <2> QED BY <2>1, <2>2, <2>3, <2>4
<1>5. stage = "allocated" => \A i \in 1 .. Len(queue') : queue'[i] # mine
  BY <1>2 DEF HwInv, BlocksAreAccounted
<1>6. CASE req[b].wait = "wait"
  <2>1. /\ req' = [req EXCEPT ![b].answer = answered]
        /\ flags' = flags \cup {FlagOf(b)} /\ pool' = pool
    BY <1>6 DEF Serve, b
  <2>2. stage = "waiting" /\ b = mine
    BY <1>2, <1>6 DEF HwInv
  <2>3. /\ req'[b] = [word |-> req[b].word, wait |-> "wait", answer |-> answered]
        /\ \A x \in Blocks \ {b} : req'[x] = req[x]
    <3>1. req[b] = [word |-> req[b].word, wait |-> req[b].wait, answer |-> req[b].answer]
      BY <1>2 DEF HwInv, HwShape
    <3>2. [req[b] EXCEPT !.answer = answered]
            = [word |-> req[b].word, wait |-> "wait", answer |-> answered]
      BY <1>6, <3>1, Answered
    <3> DEFINE new == [req[b] EXCEPT !.answer = answered]
    <3>3. req' = [req EXCEPT ![b] = new]
      BY <2>1
    <3> HIDE DEF new
    <3>4. req'[b] = new /\ \A x \in Blocks \ {b} : req'[x] = req[x]
      BY <1>2, <3>3 DEF HwInv, HwShape
    <3> QED BY <3>2, <3>4 DEF new
  <2>4. HwShape'
    <3>1. req' = [x \in Blocks |-> req'[x]]
      BY <2>1 DEF HwInv, HwShape
    <3>2. \A x \in Blocks : req'[x] = [word |-> req'[x].word, wait |-> req'[x].wait,
                                       answer |-> req'[x].answer]
      BY <1>2, <2>3 DEF HwInv, HwShape
    <3> QED BY <1>1, <1>2, <2>1, <3>1, <3>2 DEF HwInv, HwShape
  <2>5. BlocksAreAccounted'
    BY <1>1, <1>4, <1>5, <2>1, <2>2 DEF HwInv, BlocksAreAccounted
  <2>6. \A i \in 1 .. Len(queue') : req'[queue'[i]].wait # "wait"
    <3> TAKE i \in 1 .. Len(queue')
    <3>1. req'[queue'[i]] = req[queue'[i]] /\ queue'[i] # mine
      BY <1>3, <2>2, <2>3
    <3>2. i + 1 \in 1 .. Len(queue) /\ queue'[i] = queue[i + 1]
      BY <1>2
    <3> QED BY <3>1, <3>2 DEF HwInv
  <2>7. /\ req'[mine'].wait = "wait" /\ req'[mine'].answer # "none" /\ stage' = "waiting"
        /\ flags' = {FlagOf(mine')}
    <3>1. req[mine].answer = "none"
      BY <1>2, <1>6, <2>2 DEF HwInv
    <3>2. flags = {}
      BY <3>1 DEF HwInv
    <3> QED BY <1>1, <1>2, <2>1, <2>2, <2>3, <3>2 DEF FlagOf
  <2> QED BY <2>4, <2>5, <2>6, <2>7 DEF HwInv
<1>7. CASE req[b].wait # "wait"
  <2>1. /\ pool' = pool \cup {b} /\ req' = [req EXCEPT ![b] = Blank] /\ flags' = flags
    BY <1>7 DEF Serve, b
  <2>2. b # mine \/ stage = "none"
    BY <1>2, <1>7 DEF HwInv, HwShape, BlocksAreAccounted
  <2>3. \A x \in Blocks \ {b} : req'[x] = req[x]
    BY <2>1 DEF HwInv, HwShape
  <2>4. HwShape'
    <3>1. req' = [x \in Blocks |-> req'[x]]
      BY <2>1 DEF HwInv, HwShape
    <3>2. \A x \in Blocks : req'[x] = [word |-> req'[x].word, wait |-> req'[x].wait,
                                       answer |-> req'[x].answer]
      BY <1>2, <2>1, <2>3 DEF HwInv, HwShape, Blank
    <3> QED BY <1>1, <1>2, <2>1, <3>1, <3>2 DEF HwInv, HwShape
  <2>5. BlocksAreAccounted'
    BY <1>1, <1>2, <1>3, <1>4, <1>5, <2>1, <2>2, BlocksAreNot DEF HwInv, BlocksAreAccounted
  <2>6. stage # "none" => mine' = mine /\ req'[mine'] = req[mine]
    BY <1>1, <2>2, <2>3 DEF HwInv, BlocksAreAccounted
  <2>7. \A i \in 1 .. Len(queue') :
          req'[queue'[i]].wait = "wait" =>
            stage' = "waiting" /\ queue'[i] = mine' /\ req'[mine'].answer = "none"
    <3> TAKE i \in 1 .. Len(queue')
    <3>1. req'[queue'[i]] = req[queue'[i]]
      BY <1>3, <2>3
    <3>2. i + 1 \in 1 .. Len(queue) /\ queue'[i] = queue[i + 1]
      BY <1>2
    <3> QED BY <1>1, <2>6, <3>1, <3>2 DEF HwInv
  <2> QED BY <1>1, <2>1, <2>4, <2>5, <2>6, <2>7 DEF HwInv
<1> QED BY <1>6, <1>7

LEMMA WakeKeepsHwInv ==
  ASSUME HwInv, Wake
  PROVE  HwInv'
<1>1. /\ stage = "waiting" /\ FlagOf(mine) \in flags
      /\ flags' = flags \ {FlagOf(mine)} /\ pool' = pool \cup {mine}
      /\ req' = [req EXCEPT ![mine] = Blank]
      /\ stage' = "none" /\ mine' = NoBlock /\ queue' = queue
  BY DEF Wake
<1>2. /\ mine \in Blocks \ pool /\ flags = {FlagOf(mine)} /\ req[mine].answer # "none"
      /\ \A i \in 1 .. Len(queue) : queue[i] \in Blocks
  BY <1>1 DEF HwInv, HwShape, BlocksAreAccounted
<1>3. \A i \in 1 .. Len(queue) : queue[i] # mine /\ req[queue[i]].wait # "wait"
  BY <1>1, <1>2 DEF HwInv
<1>4. flags' = {}
  BY <1>1, <1>2
<1>5. \A x \in Blocks \ {mine} : req'[x] = req[x]
  BY <1>1 DEF HwInv, HwShape
<1>6. HwShape'
  <2>1. req' = [x \in Blocks |-> req'[x]]
    BY <1>1 DEF HwInv, HwShape
  <2>2. \A x \in Blocks : req'[x] = [word |-> req'[x].word, wait |-> req'[x].wait,
                                     answer |-> req'[x].answer]
    BY <1>1, <1>2, <1>5 DEF HwInv, HwShape, Blank
  <2>3. pool' \subseteq Blocks /\ queue' \in Seq(Blocks)
    BY <1>1, <1>2 DEF HwInv, HwShape
  <2>4. req' = [x \in Blocks |-> [word |-> req'[x].word, wait |-> req'[x].wait,
                                 answer |-> req'[x].answer]]
    BY <2>1, <2>2
  <2> QED BY <1>1, <2>3, <2>4 DEF HwShape
<1>7. BlocksAreAccounted'
  BY <1>1, <1>2, <1>3, BlocksAreNot DEF HwInv, BlocksAreAccounted
<1>8. \A i \in 1 .. Len(queue') : req'[queue'[i]].wait # "wait"
  BY <1>1, <1>2, <1>3, <1>5
<1> QED BY <1>1, <1>4, <1>6, <1>7, <1>8 DEF HwInv

LEMMA HwStepKeepsInv ==
  ASSUME HwInv, HwStep \/ UNCHANGED hwVars
  PROVE  HwInv'
<1>1. CASE UNCHANGED hwVars
  BY <1>1 DEF hwVars, HwInv, HwShape, BlocksAreAccounted, FlagOf
<1>2. CASE HwStep
  BY <1>2, AllocateKeepsHwInv, SendKeepsHwInv, ServeKeepsHwInv, WakeKeepsHwInv DEF HwStep
<1> QED BY <1>1, <1>2

-----------------------------------------------------------------------------
(* What a step of the board is for the request thread and for the search.  *)

LEMMA NextForRequests == Next => HwStep \/ UNCHANGED hwVars
<1> SUFFICES ASSUME Next PROVE HwStep \/ UNCHANGED hwVars
  OBVIOUS
<1>1. CASE Command
  BY <1>1 DEF Command
<1>2. CASE Program \/ ReadReg \/ SetSpan \/ SetCode
  BY <1>2 DEF Program, ReadReg, SetSpan, SetCode, HwStep
<1>3. CASE SendRequest \/ Programmed \/ StoreRead
  BY <1>3 DEF SendRequest, Programmed, StoreRead, HwStep
<1>4. CASE Approximate \/ SetFraction
  BY <1>4 DEF Approximate, SetFraction
<1>5. CASE ServeWord
  BY <1>5 DEF ServeWord, HwStep
<1>6. Commands => Command
  BY DEF Commands, Tune, Setup, Reprogram, SetDrive, SetPowerdown, Read, SetVoltage
<1> QED BY <1>1, <1>2, <1>3, <1>4, <1>5, <1>6 DEF Next, Main, Transfers

\* tune() asks for a fraction only where there is one to look for.
LEMMA TuneSearches ==
  ASSUME Tune
  PROVE  UNCHANGED searchVars \/ \E d \in Remainders : StartSearch(d)
<1>1. PICK f \in Frequencies :
        IF f.d.num * MaxDenom < f.d.den THEN UNCHANGED searchVars ELSE StartSearch(f.d)
  BY DEF Tune
<1>2. f.d \in Fraction /\ f.d.num < f.d.den
  BY BoardAssumption DEF Fraction
<1>3. CASE f.d.num * MaxDenom < f.d.den
  BY <1>1, <1>3
<1>4. CASE ~(f.d.num * MaxDenom < f.d.den)
  <2>1. f.d.num \in Nat /\ f.d.den \in Nat
    BY <1>2 DEF Fraction
  <2>2. f.d.num # 0
    BY <1>2, <1>4, <2>1, MaxDenomAssumption
  <2> QED BY <1>1, <1>2, <1>4, <2>1, <2>2 DEF Remainders
<1> QED BY <1>3, <1>4

LEMMA NextForSearch ==
  Next => \/ UNCHANGED searchVars \/ Search \/ SearchInit'
          \/ \E d \in Remainders : StartSearch(d)
<1> SUFFICES ASSUME Next
             PROVE  \/ UNCHANGED searchVars \/ Search \/ SearchInit'
                    \/ \E d \in Remainders : StartSearch(d)
  OBVIOUS
<1>1. CASE Tune
  BY <1>1, TuneSearches
<1>2. CASE Setup \/ Reprogram \/ SetDrive \/ SetPowerdown \/ Read \/ SetVoltage
  BY <1>2 DEF Setup, Reprogram, SetDrive, SetPowerdown, Read, SetVoltage
<1>3. CASE Transfers \/ ServeWord
  BY <1>3 DEF Transfers, Program, ReadReg, SetSpan, SetCode, SendRequest, Programmed,
              StoreRead, ServeWord
<1>4. CASE Approximate
  BY <1>4 DEF Approximate
<1>5. CASE SetFraction
  BY <1>5 DEF SetFraction, SearchInit
<1> QED BY <1>1, <1>2, <1>3, <1>4, <1>5 DEF Next, Commands, Main

LEMMA RequestsHold == Spec => []HwInv
<1>1. Init => HwInv
  BY HwStarts DEF Init
<1>2. HwInv /\ [Next]_vars => HwInv'
  <2>1. UNCHANGED vars => UNCHANGED hwVars
    BY DEF vars
  <2> QED BY <2>1, NextForRequests, HwStepKeepsInv
<1> QED BY <1>1, <1>2, PTL DEF Spec

LEMMA SearchHolds == Spec => []SearchInv
<1>1. Init => SearchInv
  BY SearchStarts DEF Init
<1>2. SearchInv /\ [Next]_vars => SearchInv'
  <2>1. UNCHANGED vars => UNCHANGED searchVars
    BY DEF vars
  <2>2. SearchInit' => SearchInv'
    BY DEF SearchInit, SearchInv, SearchTypeOK, Searching, None, Fraction
  <2> QED BY <2>1, <2>2, NextForSearch, StartKeepsInv, SearchKeepsInv, SearchStutterKeepsInv
<1> QED BY <1>1, <1>2, PTL DEF Spec

\* No request block is lost, used twice or released while somebody uses it,
\* whatever the sizes of the pool and of the queue (fr3_1ch_hw.c).
THEOREM BlocksStayAccounted == Spec => []BlocksAreAccounted
<1>1. HwInv => BlocksAreAccounted
  BY DEF HwInv
<1> QED BY <1>1, RequestsHold, PTL

\* However many blocks share an event flag, the main thread wakes for its own
\* answer (fr3_1ch_hw.c:61 and :85).
THEOREM WakesForItsOwn == Spec => []AnswerIsOwn
<1>1. HwInv => AnswerIsOwn
  BY DEF HwInv, AnswerIsOwn
<1> QED BY <1>1, RequestsHold, PTL

\* In the board, too, the search keeps the number between its two fractions.
THEOREM BoardIsBracketed == Spec => []Bracketed
<1>1. SearchInv => Bracketed
  BY SearchInvGives
<1> QED BY <1>1, SearchHolds, PTL

\* In the board, too, the fraction that reaches the divider is close to the
\* one asked for.
THEOREM BoardFindsClose == Spec => []FractionIsClose
<1>1. SearchInv => FractionIsClose
  BY SearchInvGives
<1> QED BY <1>1, SearchHolds, PTL

-----------------------------------------------------------------------------
(* What the four operations do to the requests under way.                  *)

LEMMA AllocateEffect ==
  ASSUME HwInv, NEW word, NEW wait, Allocate(word, wait)
  PROVE  /\ stage = "none" /\ stage' = "allocated" /\ queue' = queue
         /\ req'[mine'].word = word /\ req'[mine'].wait = wait /\ req'[mine'].answer = "none"
         /\ \A i \in 1 .. Len(queue) : /\ req'[queue[i]] = req[queue[i]]
                                      /\ req[queue[i]].wait # "wait"
<1>1. PICK b \in pool :
        /\ req' = [req EXCEPT ![b] = [word |-> word, wait |-> wait, answer |-> "none"]]
        /\ mine' = b
  BY DEF Allocate
<1>2. stage = "none" /\ stage' = "allocated" /\ queue' = queue
  BY DEF Allocate
<1>3. b \in Blocks /\ \A i \in 1 .. Len(queue) : queue[i] \in Blocks /\ queue[i] # b
  BY <1>1 DEF HwInv, HwShape, BlocksAreAccounted
<1>4. /\ req'[b] = [word |-> word, wait |-> wait, answer |-> "none"]
      /\ \A x \in Blocks \ {b} : req'[x] = req[x]
  BY <1>1, <1>3 DEF HwInv, HwShape
<1>5. \A i \in 1 .. Len(queue) : req[queue[i]].wait # "wait"
  BY <1>2 DEF HwInv
<1> QED BY <1>1, <1>2, <1>3, <1>4, <1>5

LEMMA SendEffect ==
  ASSUME HwInv, Send
  PROVE  /\ stage = "allocated" /\ mine \in Blocks /\ req' = req
         /\ queue' \in Seq(Blocks) /\ Len(queue') = Len(queue) + 1 /\ Len(queue) \in Nat
         /\ queue'[Len(queue) + 1] = mine
         /\ \A i \in 1 .. Len(queue) : queue'[i] = queue[i]
         /\ stage' # "none" => mine' = mine /\ req[mine].wait = "wait"
         /\ req[mine].wait = "wait" => stage' = "waiting"
<1>1. /\ stage = "allocated" /\ queue' = Append(queue, mine) /\ req' = req
  BY DEF Send
<1>2. mine \in Blocks /\ queue \in Seq(Blocks)
  BY <1>1 DEF HwInv, HwShape, BlocksAreAccounted
<1>3. /\ queue' \in Seq(Blocks) /\ Len(queue') = Len(queue) + 1
      /\ queue'[Len(queue) + 1] = mine
      /\ \A i \in 1 .. Len(queue) : queue'[i] = queue[i]
      /\ Len(queue) \in Nat
  BY <1>1, <1>2, AppendProperties
<1> QED BY <1>1, <1>2, <1>3 DEF Send

LEMMA ServeEffect ==
  ASSUME HwInv, NEW answered \in {"ok", "failed"}, Serve(answered)
  PROVE  /\ Len(queue) >= 1 /\ Len(queue) \in Nat /\ Head(queue) = queue[1] /\ queue[1] \in Blocks
         /\ Len(queue') = Len(queue) - 1
         /\ \A i \in 1 .. Len(queue') :
               /\ i + 1 \in 1 .. Len(queue) /\ queue'[i] = queue[i + 1]
               /\ req'[queue'[i]] = req[queue[i + 1]]
         /\ stage' = stage /\ mine' = mine
         /\ req[queue[1]].wait = "wait" =>
               /\ stage = "waiting" /\ queue[1] = mine
               /\ req'[mine].word = req[mine].word /\ req'[mine].wait = "wait"
         /\ req[queue[1]].wait # "wait" => (stage # "none" => req'[mine] = req[mine])
<1>1. queue # <<>> /\ queue' = Tail(queue) /\ UNCHANGED <<stage, mine>>
  BY DEF Serve
<1>2. queue \in Seq(Blocks)
  BY DEF HwInv, HwShape
<1>3. /\ Head(queue) = queue[1] /\ queue[1] \in Blocks /\ Len(queue) \in Nat /\ Len(queue) >= 1
      /\ Len(queue') = Len(queue) - 1
      /\ \A i \in 1 .. Len(queue') : queue'[i] = queue[i + 1]
  BY <1>1, <1>2, HeadTailProperties, EmptySeq, ElementOfSeq, LenProperties
<1> DEFINE b == queue[1]
<1>4. \A i \in 1 .. Len(queue') : /\ i + 1 \in 1 .. Len(queue) /\ queue'[i] = queue[i + 1]
                                  /\ queue[i + 1] \in Blocks \ {b}
  <2> TAKE i \in 1 .. Len(queue')
  <2>1. i + 1 \in 1 .. Len(queue) /\ queue'[i] = queue[i + 1] /\ 1 \in 1 .. Len(queue) /\ i + 1 # 1
    BY <1>3
  <2>2. queue[i + 1] \in Blocks
    BY <1>2, <2>1, ElementOfSeq
  <2> QED BY <2>1, <2>2 DEF HwInv, BlocksAreAccounted
<1>5. 1 \in 1 .. Len(queue)
  BY <1>3
<1>6. CASE req[b].wait = "wait"
  <2>1. stage = "waiting" /\ b = mine
    BY <1>5, <1>6 DEF HwInv
  <2> DEFINE new == [req[b] EXCEPT !.answer = answered]
  <2>2. req' = [req EXCEPT ![b] = new]
    BY <1>3, <1>6 DEF Serve
  <2>3. req[b] = [word |-> req[b].word, wait |-> req[b].wait, answer |-> req[b].answer]
    BY <1>3 DEF HwInv, HwShape
  <2>4. new = [word |-> req[b].word, wait |-> "wait", answer |-> answered]
    BY <1>6, <2>3, Answered
  <2> HIDE DEF new
  <2>5. req'[b] = new /\ \A x \in Blocks \ {b} : req'[x] = req[x]
    BY <1>3, <2>2 DEF HwInv, HwShape
  <2>6. \A i \in 1 .. Len(queue') : req'[queue'[i]] = req[queue[i + 1]]
    BY <1>4, <2>5
  <2>7. req'[mine].word = req[mine].word /\ req'[mine].wait = "wait"
    BY <2>1, <2>4, <2>5
  <2> QED BY <1>1, <1>3, <1>4, <1>6, <2>1, <2>6, <2>7
<1>7. CASE req[b].wait # "wait"
  <2>1. req' = [req EXCEPT ![b] = Blank]
    BY <1>3, <1>7 DEF Serve
  <2>2. \A x \in Blocks \ {b} : req'[x] = req[x]
    BY <2>1 DEF HwInv, HwShape
  <2>3. stage # "none" => mine \in Blocks \ {b}
    BY <1>5, <1>7 DEF HwInv, HwShape, BlocksAreAccounted
  <2>4. \A i \in 1 .. Len(queue') : req'[queue'[i]] = req[queue[i + 1]]
    BY <1>4, <2>2
  <2> QED BY <1>1, <1>3, <1>4, <1>7, <2>2, <2>3, <2>4
<1> QED BY <1>6, <1>7

LEMMA WakeEffect ==
  ASSUME HwInv, Wake
  PROVE  /\ stage = "waiting" /\ stage' = "none" /\ queue' = queue
         /\ req[mine].wait = "wait" /\ req[mine].answer # "none"
         /\ \A i \in 1 .. Len(queue) : /\ req'[queue[i]] = req[queue[i]]
                                      /\ req[queue[i]].wait # "wait"
<1>1. /\ stage = "waiting" /\ FlagOf(mine) \in flags /\ req' = [req EXCEPT ![mine] = Blank]
      /\ stage' = "none" /\ queue' = queue
  BY DEF Wake
<1>2. /\ mine \in Blocks /\ req[mine].answer # "none" /\ req[mine].wait = "wait"
      /\ \A i \in 1 .. Len(queue) : queue[i] \in Blocks
  BY <1>1 DEF HwInv, HwShape, BlocksAreAccounted
<1>3. \A i \in 1 .. Len(queue) : queue[i] # mine /\ req[queue[i]].wait # "wait"
  BY <1>1, <1>2 DEF HwInv
<1>4. \A x \in Blocks \ {mine} : req'[x] = req[x]
  BY <1>1 DEF HwInv, HwShape
<1> QED BY <1>1, <1>2, <1>3, <1>4

-----------------------------------------------------------------------------
(* The driver and the registers of the chip.                               *)

PcValues == {"span", "code", "program", "read", "search", "idle"}

DriverShape ==
  /\ regs = [r \in Regs |-> regs[r]] /\ chip = [r \in Regs |-> chip[r]]
  /\ dirty \subseteq Regs
  /\ pc \in PcValues /\ cursor \in R0 .. PWR + 1 /\ channel \in Channels
  /\ restoring \in {"Q", "lmx", "no"}
  /\ restoring # "no" => pc \in {"span", "code"}
  /\ pc = "search" => PLL \in dirty
  /\ pc = "read" => cursor \in Regs

\* A request that nobody waits for is for the DAC.
ForgottenAreDac ==
  /\ \A i \in 1 .. Len(queue) : req[queue[i]].wait # "wait" => req[queue[i]].word.at \notin Regs
  /\ stage # "none" /\ req[mine].wait # "wait" => req[mine].word.at \notin Regs

\* A request that is waited for is for the register the driver is at, and when
\* it is answered the chip has the register, or has been seen not to take it.
WaitedIsCursor ==
  stage # "none" /\ req[mine].wait = "wait" =>
    /\ pc \in {"program", "read"} /\ cursor \in Regs /\ restoring = "no"
    /\ req[mine].word = RegWord(cursor)
    /\ pc = "program" => cursor \in dirty
    /\ req[mine].answer # "none" => cursor \in failed \/ chip[cursor] = regs[cursor]

DriverInv == DriverShape /\ ForgottenAreDac /\ WaitedIsCursor /\ CleanIsProgrammed

LEMMA DriverStarts == Init => DriverInv
<1> SUFFICES ASSUME Init PROVE DriverInv
  OBVIOUS
<1>1. queue = <<>> /\ stage = "none" /\ Len(queue) = 0
  BY DEF Init, HwInit
<1>2. DriverShape
  <2>1. regs = [r \in Regs |-> regs[r]]
    <3> DEFINE cleared(r) == CASE r = R0 -> [fcal |-> "off", powerdown |-> "off"]
                               [] r = VCO -> "none"
                               [] r = PLL -> [n |-> 0, frac |-> None]
                               [] r = MUX -> "divider"
                               [] r = PWR -> 0
    <3>1. regs = [r \in Regs |-> cleared(r)]
      BY Zenon DEF Init
    <3> HIDE DEF cleared
    <3> QED BY <3>1
  <2>2. /\ dirty = {} /\ pc = "span" /\ cursor = PWR + 1 /\ channel = I /\ restoring = "Q"
        /\ chip = [r \in Regs |-> Noise]
    BY DEF Init
  <2> QED BY <2>1, <2>2 DEF DriverShape, PcValues, Channels, I, R0, PWR
<1>3. restoring # "no"
  BY DEF Init
<1>4. ForgottenAreDac /\ WaitedIsCursor /\ CleanIsProgrammed
  BY <1>1, <1>3 DEF ForgottenAreDac, WaitedIsCursor, CleanIsProgrammed
<1> QED BY <1>2, <1>4 DEF DriverInv

LEMMA SetupShape ==
  ASSUME regs = [r \in Regs |-> regs[r]], SetupRegs
  PROVE  regs' = [r \in Regs |-> regs'[r]] /\ dirty' = Regs
<1> DEFINE on == [regs[R0] EXCEPT !.fcal = "on"]
           ratio == [n |-> 500, frac |-> Whole]
<1>1. /\ regs' = [regs EXCEPT ![R0] = on, ![VCO] = "high", ![MUX] = "direct",
                              ![PLL] = ratio, ![PWR] = 7]
      /\ dirty' = Regs
  BY DEF SetupRegs
<1> HIDE DEF on, ratio
<1> QED BY <1>1

\* A command marks what it changes.
LEMMA CommandKeepsDriverInv ==
  ASSUME DriverInv, Command, DriverShape', dirty \subseteq dirty',
         \A r \in Regs \ dirty' : regs'[r] = regs[r]
  PROVE  DriverInv'
<1>1. /\ stage = "none" /\ stage' = "none" /\ queue' = queue /\ req' = req
      /\ chip' = chip /\ failed' = failed /\ restoring' = restoring
  BY DEF Command, hwVars, chips
<1>2. ForgottenAreDac' /\ WaitedIsCursor'
  BY <1>1 DEF DriverInv, ForgottenAreDac, WaitedIsCursor
<1>3. CleanIsProgrammed'
  BY <1>1 DEF DriverInv, CleanIsProgrammed
<1> QED BY <1>2, <1>3 DEF DriverInv

LEMMA CommandPlace ==
  ASSUME DriverInv, Command
  PROVE  /\ pc = "idle" /\ chip' = chip /\ restoring' = restoring /\ restoring = "no"
         /\ regs = [r \in Regs |-> regs[r]] /\ chip = [r \in Regs |-> chip[r]]
         /\ dirty \subseteq Regs /\ cursor \in R0 .. PWR + 1 /\ channel \in Channels
BY DEF DriverInv, DriverShape, Command, chips

LEMMA CommandsKeepDriverInv ==
  ASSUME DriverInv, Commands
  PROVE  DriverInv'
<1>1. CASE Tune
  <2>1. Command
    BY <1>1 DEF Tune
  <2>2. PICK v, w, x :
          /\ regs' = [regs EXCEPT ![MUX] = v, ![VCO] = w, ![PLL] = x]
          /\ dirty' = dirty \cup {MUX, VCO, PLL, R0}
          /\ \/ pc' = "program" /\ cursor' = PWR + 1
             \/ pc' = "search" /\ cursor' = cursor
    BY <1>1 DEF Tune, StartProgram
  <2>3. channel' = channel
    BY <1>1 DEF Tune
  <2>4. DriverShape'
    <3>1. regs' = [r \in Regs |-> regs'[r]]
      BY <2>1, <2>2, CommandPlace
    <3>2. dirty' \subseteq Regs /\ PLL \in dirty'
      BY <2>1, <2>2, CommandPlace DEF Regs, R0, VCO, PLL, MUX, PWR
    <3>3. cursor' \in R0 .. PWR + 1 /\ pc' \in PcValues /\ pc' # "read"
      BY <2>1, <2>2, CommandPlace DEF PcValues, R0, PWR
    <3> QED BY <2>1, <2>3, <3>1, <3>2, <3>3, CommandPlace DEF DriverShape
  <2>5. \A r \in Regs \ dirty' : regs'[r] = regs[r]
    BY <2>1, <2>2, CommandPlace
  <2> QED BY <2>1, <2>2, <2>4, <2>5, CommandKeepsDriverInv
<1>2. CASE Setup
  <2>1. Command /\ SetupRegs /\ UNCHANGED <<pc, cursor, channel>>
    BY <1>2 DEF Setup
  <2>2. DriverShape'
    BY <2>1, CommandPlace, SetupShape DEF DriverShape, PcValues
  <2> QED BY <2>1, <2>2, CommandPlace, CommandKeepsDriverInv DEF SetupRegs
<1>3. CASE Reprogram
  <2>1. Command /\ dirty' = Regs /\ regs' = regs /\ channel' = channel
        /\ pc' = "program" /\ cursor' = PWR + 1
    BY <1>3 DEF Reprogram, StartProgram
  <2>2. DriverShape'
    BY <2>1, CommandPlace DEF DriverShape, PcValues, R0, PWR
  <2> QED BY <2>1, <2>2, CommandPlace, CommandKeepsDriverInv
<1>4. CASE SetDrive
  <2>1. PICK v : regs' = [regs EXCEPT ![PWR] = v]
    BY <1>4 DEF SetDrive
  <2>2. Command /\ dirty' = dirty \cup {PWR} /\ channel' = channel
        /\ pc' = "program" /\ cursor' = PWR + 1
    BY <1>4 DEF SetDrive, StartProgram
  <2>3. DriverShape'
    <3>1. regs' = [r \in Regs |-> regs'[r]]
      BY <2>1, <2>2, CommandPlace
    <3>2. dirty' \subseteq Regs /\ cursor' \in R0 .. PWR + 1
      BY <2>2, CommandPlace DEF Regs, R0, PWR
    <3> QED BY <2>2, <3>1, <3>2, CommandPlace DEF DriverShape, PcValues
  <2>4. \A r \in Regs \ dirty' : regs'[r] = regs[r]
    BY <2>1, <2>2, CommandPlace
  <2> QED BY <2>2, <2>3, <2>4, CommandKeepsDriverInv
<1>5. CASE SetPowerdown
  <2>1. PICK v : regs' = [regs EXCEPT ![R0] = v]
    <3>1. PICK b \in {"off", "on"} : regs' = [regs EXCEPT ![R0].powerdown = b]
      BY <1>5 DEF SetPowerdown
    <3> DEFINE new == [regs[R0] EXCEPT !.powerdown = b]
    <3>2. regs' = [regs EXCEPT ![R0] = new]
      BY <3>1
    <3> HIDE DEF new
    <3> QED BY <3>2
  <2>2. Command /\ dirty' = dirty \cup {R0} /\ channel' = channel
        /\ pc' = "program" /\ cursor' = PWR + 1
    BY <1>5 DEF SetPowerdown, StartProgram
  <2>3. DriverShape'
    <3>1. regs' = [r \in Regs |-> regs'[r]]
      BY <2>1, <2>2, CommandPlace
    <3>2. dirty' \subseteq Regs /\ cursor' \in R0 .. PWR + 1
      BY <2>2, CommandPlace DEF Regs, R0, PWR
    <3> QED BY <2>2, <3>1, <3>2, CommandPlace DEF DriverShape, PcValues
  <2>4. \A r \in Regs \ dirty' : regs'[r] = regs[r]
    BY <2>1, <2>2, CommandPlace
  <2> QED BY <2>2, <2>3, <2>4, CommandKeepsDriverInv
<1>6. CASE Read
  <2>1. Command /\ pc' = "read" /\ cursor' \in Regs /\ UNCHANGED <<regs, dirty, channel>>
    BY <1>6 DEF Read, driver
  <2>2. DriverShape'
    BY <2>1, CommandPlace DEF DriverShape, PcValues, Regs, R0, PWR
  <2> QED BY <2>1, <2>2, CommandKeepsDriverInv
<1>7. CASE SetVoltage
  <2>1. Command /\ pc' = "span" /\ channel' \in Channels /\ UNCHANGED <<regs, dirty, cursor>>
    BY <1>7 DEF SetVoltage
  <2>2. DriverShape'
    BY <2>1, CommandPlace DEF DriverShape, PcValues
  <2> QED BY <2>1, <2>2, CommandKeepsDriverInv
<1> QED BY <1>1, <1>2, <1>3, <1>4, <1>5, <1>6, <1>7 DEF Commands

LEMMA HighestIsHighest ==
  ASSUME NEW S \in SUBSET Regs, S # {}
  PROVE  Highest(S) \in S /\ \A s \in S : s <= Highest(S)
<1>1. \E r \in S : \A s \in S : s <= r
  <2>1. CASE 4 \in S
    BY <2>1 DEF Regs, R0, PWR
  <2>2. CASE 4 \notin S /\ 3 \in S
    BY <2>2 DEF Regs, R0, PWR
  <2>3. CASE 4 \notin S /\ 3 \notin S /\ 2 \in S
    BY <2>3 DEF Regs, R0, PWR
  <2>4. CASE 4 \notin S /\ 3 \notin S /\ 2 \notin S /\ 1 \in S
    BY <2>4 DEF Regs, R0, PWR
  <2>5. CASE 4 \notin S /\ 3 \notin S /\ 2 \notin S /\ 1 \notin S
    <3>1. \A s \in S : s = 0
      BY <2>5 DEF Regs, R0, PWR
    <3>2. 0 \in S
      BY <3>1
    <3> QED BY <3>1, <3>2
  <2> QED BY <2>1, <2>2, <2>3, <2>4, <2>5
<1> QED BY <1>1 DEF Highest

\* The steps that put a request together leave the registers alone, or mark
\* all of them.
LEMMA AllocationsKeepDriverInv ==
  ASSUME HwInv, DriverInv, Program \/ ReadReg \/ SetSpan \/ SetCode
  PROVE  DriverInv'
<1>1. CASE Program
  <2>1. /\ pc = "program" /\ stage = "none"
        /\ UNCHANGED <<regs, dirty, channel, restoring, chip, failed>>
    BY <1>1 DEF Program, driver, chips
  <2>2. CASE DirtyBelow # {}
    <3> DEFINE r == Highest(DirtyBelow)
    <3>1. Allocate(RegWord(r), "wait") /\ cursor' = r /\ pc' = "program"
      BY <1>1, <2>1, <2>2 DEF Program
    <3>2. r \in dirty /\ r \in Regs
      BY <2>2, HighestIsHighest DEF DirtyBelow, DriverInv, DriverShape
    <3> HIDE DEF r
    <3>3. /\ req'[mine'].word = RegWord(r) /\ req'[mine'].wait = "wait"
          /\ req'[mine'].answer = "none" /\ queue' = queue
          /\ \A i \in 1 .. Len(queue) : req'[queue[i]] = req[queue[i]]
      BY <3>1, AllocateEffect
    <3>4. ForgottenAreDac'
      BY <3>3 DEF DriverInv, ForgottenAreDac
    <3>5. WaitedIsCursor'
      BY <2>1, <3>1, <3>2, <3>3 DEF DriverInv, DriverShape, WaitedIsCursor, RegWord
    <3>6. DriverShape'
      BY <2>1, <3>1, <3>2 DEF DriverInv, DriverShape, Regs, R0, PWR, PcValues
    <3> QED BY <2>1, <3>4, <3>5, <3>6 DEF DriverInv, CleanIsProgrammed
  <2>3. CASE DirtyBelow = {}
    <3>1. pc' = "idle" /\ cursor' = PWR + 1 /\ UNCHANGED hwVars
      BY <1>1, <2>3 DEF Program
    <3>2. DriverShape'
      BY <2>1, <3>1 DEF DriverInv, DriverShape, R0, PWR, PcValues
    <3>3. ForgottenAreDac' /\ WaitedIsCursor'
      BY <2>1, <3>1 DEF DriverInv, ForgottenAreDac, WaitedIsCursor, hwVars
    <3> QED BY <2>1, <3>2, <3>3 DEF DriverInv, CleanIsProgrammed
  <2> QED BY <2>2, <2>3
<1>2. CASE ReadReg
  <2>1. /\ pc = "read" /\ stage = "none" /\ Allocate(RegWord(cursor), "wait")
        /\ UNCHANGED <<regs, dirty, pc, cursor, channel, restoring, chip, failed>>
    BY <1>2 DEF ReadReg, driver, place, chips
  <2>2. /\ req'[mine'].word = RegWord(cursor) /\ req'[mine'].wait = "wait"
        /\ req'[mine'].answer = "none" /\ queue' = queue
        /\ \A i \in 1 .. Len(queue) : req'[queue[i]] = req[queue[i]]
    BY <2>1, AllocateEffect
  <2>3. DriverShape' /\ CleanIsProgrammed'
    BY <2>1 DEF DriverInv, DriverShape, CleanIsProgrammed
  <2>4. ForgottenAreDac'
    BY <2>2 DEF DriverInv, ForgottenAreDac
  <2>5. WaitedIsCursor'
    BY <2>1, <2>2 DEF DriverInv, DriverShape, WaitedIsCursor, RegWord
  <2> QED BY <2>3, <2>4, <2>5 DEF DriverInv
<1>3. CASE SetSpan
  <2>1. /\ pc = "span" /\ pc' = "code" /\ Allocate(SpanWord, "forget")
        /\ UNCHANGED <<regs, dirty, cursor, channel, restoring, chip, failed>>
    BY <1>3 DEF SetSpan, driver, chips
  <2>2. /\ req'[mine'].word = SpanWord /\ req'[mine'].wait = "forget" /\ queue' = queue
        /\ \A i \in 1 .. Len(queue) : req'[queue[i]] = req[queue[i]]
    BY <2>1, AllocateEffect
  <2>3. DriverShape' /\ CleanIsProgrammed'
    BY <2>1 DEF DriverInv, DriverShape, CleanIsProgrammed, PcValues
  <2>4. ForgottenAreDac'
    BY <2>2 DEF DriverInv, ForgottenAreDac, SpanWord, SPAN, Regs, R0, PWR
  <2>5. WaitedIsCursor'
    BY <2>2 DEF WaitedIsCursor
  <2> QED BY <2>3, <2>4, <2>5 DEF DriverInv
<1>4. CASE SetCode
  <2>1. /\ pc = "code" /\ Allocate(DacWord(channel), "forget")
        /\ UNCHANGED <<chip, failed>>
    BY <1>4 DEF SetCode, chips
  <2>2. /\ req'[mine'].word = DacWord(channel) /\ req'[mine'].wait = "forget" /\ queue' = queue
        /\ \A i \in 1 .. Len(queue) : req'[queue[i]] = req[queue[i]]
    BY <2>1, AllocateEffect
  <2>3. ForgottenAreDac'
    BY <2>2 DEF DriverInv, DriverShape, ForgottenAreDac, DacWord, Channels, I, Q, Regs, R0, PWR
  <2>4. WaitedIsCursor'
    BY <2>2 DEF WaitedIsCursor
  <2>5. CASE restoring = "Q"
    <3>1. /\ pc' = "span" /\ channel' = Q /\ restoring' = "lmx"
          /\ UNCHANGED <<cursor, regs, dirty>>
      BY <1>4, <2>5 DEF SetCode
    <3> QED BY <2>1, <2>3, <2>4, <3>1
            DEF DriverInv, DriverShape, CleanIsProgrammed, PcValues, Channels
  <2>6. CASE restoring = "lmx"
    <3>1. SetupRegs /\ StartProgram /\ restoring' = "no" /\ channel' = I
      BY <1>4, <2>6 DEF SetCode
    <3>2. regs' = [r \in Regs |-> regs'[r]] /\ dirty' = Regs
      BY <3>1, SetupShape DEF DriverInv, DriverShape
    <3>3. DriverShape'
      BY <2>1, <3>1, <3>2
         DEF DriverInv, DriverShape, StartProgram, PcValues, Channels, R0, PWR
    <3> QED BY <2>3, <2>4, <3>2, <3>3 DEF DriverInv, CleanIsProgrammed
  <2>7. CASE restoring = "no"
    <3>1. pc' = "idle" /\ channel' = I /\ UNCHANGED <<cursor, restoring, regs, dirty>>
      BY <1>4, <2>7 DEF SetCode
    <3> QED BY <2>1, <2>3, <2>4, <2>7, <3>1
            DEF DriverInv, DriverShape, CleanIsProgrammed, PcValues, Channels
  <2> QED BY <2>5, <2>6, <2>7 DEF DriverInv, DriverShape
<1> QED BY <1>1, <1>2, <1>3, <1>4

LEMMA SendKeepsDriverInv ==
  ASSUME HwInv, DriverInv, SendRequest
  PROVE  DriverInv'
<1>1. Send /\ UNCHANGED <<regs, dirty, pc, cursor, channel, restoring, chip, failed>>
  BY DEF SendRequest, driver, place, chips
<1>2. DriverShape' /\ CleanIsProgrammed'
  BY <1>1 DEF DriverInv, DriverShape, CleanIsProgrammed
<1>3. ForgottenAreDac'
  <2>1. \A i \in 1 .. Len(queue') : i \in 1 .. Len(queue) \/ i = Len(queue) + 1
    BY <1>1, SendEffect
  <2>2. \A i \in 1 .. Len(queue') :
          req'[queue'[i]].wait # "wait" => req'[queue'[i]].word.at \notin Regs
    BY <1>1, <2>1, SendEffect DEF DriverInv, ForgottenAreDac
  <2>3. stage' # "none" => req'[mine'].wait = "wait"
    BY <1>1, SendEffect
  <2> QED BY <2>2, <2>3 DEF ForgottenAreDac
<1>4. WaitedIsCursor'
  <2>1. stage # "none" /\ req' = req /\ (stage' # "none" => mine' = mine)
    BY <1>1, SendEffect
  <2> QED BY <1>1, <2>1 DEF DriverInv, WaitedIsCursor, RegWord
<1> QED BY <1>2, <1>3, <1>4 DEF DriverInv

\* What is not dirty has gone out: the answer is there.
LEMMA ProgrammedKeepsDriverInv ==
  ASSUME HwInv, DriverInv, Programmed
  PROVE  DriverInv'
<1>1. /\ pc = "program" /\ dirty' = dirty \ {cursor} /\ Wake
      /\ UNCHANGED <<regs, pc, cursor, channel, restoring, chip, failed>>
  BY DEF Programmed, place, chips
<1>2. /\ stage = "waiting" /\ stage' = "none" /\ queue' = queue
      /\ req[mine].wait = "wait" /\ req[mine].answer # "none"
      /\ \A i \in 1 .. Len(queue) : req'[queue[i]] = req[queue[i]]
  BY <1>1, WakeEffect
<1>3. DriverShape'
  BY <1>1 DEF DriverInv, DriverShape
<1>4. ForgottenAreDac' /\ WaitedIsCursor'
  BY <1>2 DEF DriverInv, ForgottenAreDac, WaitedIsCursor
<1>5. cursor \in failed \/ chip[cursor] = regs[cursor]
  BY <1>2 DEF DriverInv, WaitedIsCursor
<1>6. CleanIsProgrammed'
  BY <1>1, <1>5 DEF DriverInv, CleanIsProgrammed
<1> QED BY <1>3, <1>4, <1>6 DEF DriverInv

\* What was read is stored and marked.
LEMMA StoreReadKeepsDriverInv ==
  ASSUME HwInv, DriverInv, StoreRead
  PROVE  DriverInv'
<1>1. /\ pc = "read" /\ pc' = "idle" /\ cursor' = PWR + 1 /\ Wake
      /\ UNCHANGED <<channel, restoring, chip, failed>>
  BY DEF StoreRead, chips
<1>2. /\ stage' = "none" /\ queue' = queue
      /\ \A i \in 1 .. Len(queue) : req'[queue[i]] = req[queue[i]]
  BY <1>1, WakeEffect
<1>3. cursor \in Regs
  BY <1>1 DEF DriverInv, DriverShape
<1>4. /\ regs' = [r \in Regs |-> regs'[r]] /\ dirty' \subseteq Regs /\ dirty \subseteq dirty'
      /\ \A r \in Regs \ dirty' : regs'[r] = regs[r]
  <2>1. CASE cursor \in dirty
    BY <2>1 DEF StoreRead, DriverInv, DriverShape
  <2>2. CASE cursor \notin dirty
    <3>1. PICK v : regs' = [regs EXCEPT ![cursor] = v]
      BY <2>2 DEF StoreRead
    <3>2. dirty' = dirty \cup {cursor}
      BY <2>2 DEF StoreRead
    <3> QED BY <1>3, <3>1, <3>2 DEF DriverInv, DriverShape
  <2> QED BY <2>1, <2>2
<1>5. DriverShape'
  BY <1>1, <1>4 DEF DriverInv, DriverShape, PcValues, R0, PWR
<1>6. ForgottenAreDac' /\ WaitedIsCursor'
  BY <1>2 DEF DriverInv, ForgottenAreDac, WaitedIsCursor
<1>7. CleanIsProgrammed'
  BY <1>1, <1>4 DEF DriverInv, CleanIsProgrammed
<1> QED BY <1>5, <1>6, <1>7 DEF DriverInv

LEMMA SearchKeepsDriverInv ==
  ASSUME DriverInv, Approximate \/ SetFraction
  PROVE  DriverInv'
<1>1. /\ pc = "search" /\ UNCHANGED <<stage, queue, req, mine, dirty, channel, restoring, chip, failed>>
  BY DEF Approximate, SetFraction, hwVars, driver, place, chips
<1>2. CASE Approximate
  <2>1. UNCHANGED <<regs, pc, cursor>>
    BY <1>2 DEF Approximate, driver, place
  <2> QED BY <1>1, <2>1 DEF DriverInv, DriverShape, ForgottenAreDac, WaitedIsCursor,
                            CleanIsProgrammed, RegWord
<1>3. CASE SetFraction
  <2> DEFINE new == [regs[PLL] EXCEPT !.frac = result]
  <2>1. regs' = [regs EXCEPT ![PLL] = new] /\ pc' = "program" /\ cursor' = PWR + 1
    BY <1>3 DEF SetFraction, StartProgram
  <2> HIDE DEF new
  <2>2. DriverShape'
    BY <1>1, <2>1 DEF DriverInv, DriverShape, PcValues, R0, PWR
  <2>3. CleanIsProgrammed'
    BY <1>1, <2>1 DEF DriverInv, DriverShape, CleanIsProgrammed
  <2>4. ForgottenAreDac' /\ WaitedIsCursor'
    BY <1>1 DEF DriverInv, ForgottenAreDac, WaitedIsCursor
  <2> QED BY <2>2, <2>3, <2>4 DEF DriverInv
<1> QED BY <1>2, <1>3

\* The chip takes the register the driver is at, or one that the driver will
\* not take for sent.
LEMMA ServeKeepsDriverInv ==
  ASSUME HwInv, DriverInv, ServeWord
  PROVE  DriverInv'
<1> DEFINE b == queue[1]
           word == req[b].word
<1>1. UNCHANGED <<regs, dirty, pc, cursor, channel, restoring>>
  BY DEF ServeWord, driver, place
<1>2. PICK answered \in {"ok", "failed"} : Serve(answered)
  BY DEF ServeWord
<1>3. /\ Head(queue) = b /\ 1 \in 1 .. Len(queue)
  BY <1>2, ServeEffect
<1>4. \/ ChipTakes(word) /\ failed' = failed \ {word.at}
      \/ chip' = chip /\ failed' = failed \cup {word.at}
  BY <1>3 DEF ServeWord
<1>5. ForgottenAreDac'
  <2>1. \A i \in 1 .. Len(queue') :
          req'[queue'[i]].wait # "wait" => req'[queue'[i]].word.at \notin Regs
    BY <1>2, ServeEffect DEF DriverInv, ForgottenAreDac
  <2>2. stage' # "none" /\ req'[mine'].wait # "wait" => req'[mine'].word.at \notin Regs
    BY <1>2, ServeEffect DEF DriverInv, ForgottenAreDac
  <2> QED BY <2>1, <2>2 DEF ForgottenAreDac
<1>6. CASE req[b].wait = "wait"
  <2>1. /\ stage = "waiting" /\ mine = b /\ stage' = stage /\ mine' = mine
        /\ req'[mine].word = req[mine].word /\ req'[mine].wait = "wait"
    BY <1>2, <1>6, ServeEffect
  <2>2. /\ word = RegWord(cursor) /\ cursor \in Regs /\ pc \in {"program", "read"}
        /\ restoring = "no" /\ (pc = "program" => cursor \in dirty)
    BY <1>6, <2>1 DEF DriverInv, WaitedIsCursor
  <2>3. word.at = cursor /\ word.val = regs[cursor]
    BY <2>2 DEF RegWord
  <2> HIDE DEF word
  <2>4. \/ chip' = [chip EXCEPT ![cursor] = regs[cursor]] /\ failed' = failed \ {cursor}
        \/ chip' = chip /\ failed' = failed \cup {cursor}
    BY <1>4, <2>2, <2>3 DEF ChipTakes
  <2>5. DriverShape'
    BY <1>1, <2>4 DEF DriverInv, DriverShape
  <2>6. CleanIsProgrammed' /\ (cursor \in failed' \/ chip'[cursor] = regs[cursor])
    BY <1>1, <2>2, <2>4 DEF DriverInv, DriverShape, CleanIsProgrammed
  <2>7. req'[mine'].word = RegWord(cursor)
    BY <2>1, <2>2 DEF word
  <2>8. WaitedIsCursor'
    BY <1>1, <2>2, <2>6, <2>7 DEF WaitedIsCursor, RegWord
  <2> QED BY <1>5, <2>5, <2>6, <2>8 DEF DriverInv
<1>7. CASE req[b].wait # "wait"
  <2>1. word.at \notin Regs
    BY <1>3, <1>7 DEF DriverInv, ForgottenAreDac
  <2>2. stage' = stage /\ mine' = mine /\ (stage # "none" => req'[mine] = req[mine])
    BY <1>2, <1>7, ServeEffect
  <2> HIDE DEF word
  <2>3. chip' = chip /\ \A r \in Regs : r \in failed' <=> r \in failed
    BY <1>4, <2>1 DEF ChipTakes
  <2>4. DriverShape' /\ CleanIsProgrammed'
    BY <1>1, <2>3 DEF DriverInv, DriverShape, CleanIsProgrammed
  <2>5. WaitedIsCursor'
    BY <1>1, <2>2, <2>3 DEF DriverInv, WaitedIsCursor, RegWord
  <2> QED BY <1>5, <2>4, <2>5 DEF DriverInv
<1> QED BY <1>6, <1>7

LEMMA NextKeepsDriverInv ==
  ASSUME HwInv, DriverInv, [Next]_vars
  PROVE  DriverInv'
<1>1. CASE UNCHANGED vars
  BY <1>1 DEF vars, hwVars, driver, place, chips, DriverInv, DriverShape, ForgottenAreDac,
              WaitedIsCursor, CleanIsProgrammed, RegWord
<1>2. CASE Next
  BY <1>2, CommandsKeepDriverInv, AllocationsKeepDriverInv, SendKeepsDriverInv,
     ProgrammedKeepsDriverInv, StoreReadKeepsDriverInv, SearchKeepsDriverInv,
     ServeKeepsDriverInv DEF Next, Main, Transfers
<1> QED BY <1>1, <1>2

LEMMA DriverHolds == Spec => [](HwInv /\ DriverInv)
<1>1. Init => DriverInv
  BY DriverStarts
<1>2. HwInv /\ DriverInv /\ [Next]_vars => DriverInv'
  BY NextKeepsDriverInv
<1> QED BY <1>1, <1>2, RequestsHold, PTL DEF Spec

\* Whatever is requested and whichever transfers fail, a register the driver
\* takes for sent is in the chip, unless its last transfer failed
\* (lmx2820.cpp:677-686, 825-849).
THEOREM CleanStaysProgrammed == Spec => []CleanIsProgrammed
<1>1. DriverInv => CleanIsProgrammed
  BY DEF DriverInv
<1> QED BY <1>1, DriverHolds, PTL

-----------------------------------------------------------------------------
(* The calibration: while R0 is not to be sent, nothing it depends on is.  *)

On == [fcal |-> "on", powerdown |-> "off"]
Current == calibrated = <<chip[VCO], chip[PLL]>>

\* What is left to send is below the register that is on its way.
Ahead(r) == r < cursor \/ (r = cursor /\ stage # "none" /\ req[mine].wait = "wait")

CalibrationInv ==
  /\ pc = "program" => \A r \in dirty : Ahead(r)
  /\ suspect = "no" =>
       /\ \A r \in Regs : r \in failed => r \in dirty
       /\ R0 \notin dirty => VCO \notin dirty /\ PLL \notin dirty
       /\ restoring = "no" /\ R0 \notin dirty /\ chip[R0] = On => Current
       /\ stage = "waiting" /\ req[mine].answer # "none" =>
            /\ cursor \notin failed
            /\ cursor = R0 /\ chip[R0] = On => Current

LEMMA CalibrationStarts == Init => CalibrationInv
BY DEF Init, HwInit, CalibrationInv

LEMMA RegsAreNumbers == /\ Regs = {R0, VCO, PLL, MUX, PWR} /\ PWR \in Int
                        /\ R0 # VCO /\ R0 # PLL /\ VCO # PLL
                        /\ \A r \in Regs : r \in Int /\ r < PWR + 1
BY DEF Regs, R0, VCO, PLL, MUX, PWR

LEMMA CommandsKeepCalibration ==
  ASSUME DriverInv, CalibrationInv, Commands
  PROVE  CalibrationInv'
<1>1. Command
  BY DEF Commands, Tune, Setup, Reprogram, SetDrive, SetPowerdown, Read, SetVoltage
<1>2. /\ stage' = "none" /\ pc = "idle"
      /\ UNCHANGED <<chip, calibrated, failed, restoring>>
  BY <1>1 DEF Command, hwVars, chips
<1>3. /\ dirty \subseteq dirty' /\ dirty' \subseteq Regs
      /\ R0 \in dirty' \/ dirty' \subseteq dirty \cup {PWR}
  BY RegsAreNumbers DEF Commands, Tune, Setup, SetupRegs, Reprogram, SetDrive, SetPowerdown,
     Read, SetVoltage, driver, DriverInv, DriverShape
<1>4. suspect' = suspect \/ dirty' = Regs
  BY DEF Commands, Tune, Setup, Reprogram, SetDrive, SetPowerdown, Read, SetVoltage
<1>5. pc' = "program" => cursor' = PWR + 1
  BY <1>2 DEF Commands, Tune, Setup, Reprogram, SetDrive, SetPowerdown, Read, SetVoltage,
              StartProgram
<1>6. pc' = "program" => \A r \in dirty' : Ahead(r)'
  BY <1>3, <1>5, RegsAreNumbers DEF Ahead
<1>7. VCO # PWR /\ PLL # PWR
  BY DEF VCO, PLL, PWR
<1>8. CASE suspect' = suspect
  BY <1>2, <1>3, <1>6, <1>7, <1>8 DEF CalibrationInv, Current
<1>9. CASE dirty' = Regs
  BY <1>2, <1>6, <1>9, RegsAreNumbers DEF CalibrationInv
<1> QED BY <1>4, <1>8, <1>9

\* The steps of the main thread that neither take an answer nor are commands.
LEMMA TransfersKeepCalibration ==
  ASSUME HwInv, DriverInv, CalibrationInv,
         Program \/ ReadReg \/ SetSpan \/ SetCode \/ SendRequest \/ Approximate \/ SetFraction
  PROVE  CalibrationInv'
<1>1. UNCHANGED <<chip, calibrated, failed, suspect>>
  BY DEF Program, ReadReg, SetSpan, SetCode, SendRequest, Approximate, SetFraction, chips
<1>2. stage' = "waiting" => \/ req'[mine'].answer = "none"
                            \/ stage = "waiting" /\ UNCHANGED <<req, mine, cursor>>
  <2>1. CASE Program \/ ReadReg \/ SetSpan \/ SetCode
    <3>1. stage' = "allocated" \/ (UNCHANGED hwVars /\ stage = "none")
      BY <2>1, AllocateEffect DEF Program, ReadReg, SetSpan, SetCode
    <3> QED BY <3>1 DEF hwVars
  <2>2. CASE SendRequest
    <3>1. stage = "allocated" /\ req' = req /\ (stage' # "none" => mine' = mine)
      BY <2>2, SendEffect DEF SendRequest
    <3>2. req[mine].answer = "none"
      BY <3>1 DEF HwInv
    <3> QED BY <3>1, <3>2
  <2>3. CASE Approximate \/ SetFraction
    <3>1. UNCHANGED hwVars /\ pc = "search"
      BY <2>3 DEF Approximate, SetFraction
    <3>2. stage = "waiting" => pc \in {"program", "read"}
      BY DEF HwInv, DriverInv, WaitedIsCursor
    <3> QED BY <3>1, <3>2 DEF hwVars
  <2> QED BY <2>1, <2>2, <2>3
<1>3. pc' = "program" => \A r \in dirty' : Ahead(r)'
  <2>1. CASE Program /\ DirtyBelow # {}
    <3>1. /\ pc = "program" /\ dirty' = dirty /\ stage = "none"
          /\ cursor' = Highest(DirtyBelow) /\ Allocate(RegWord(Highest(DirtyBelow)), "wait")
      BY <2>1 DEF Program, driver
    <3>2. DirtyBelow \in SUBSET Regs
      BY DEF DirtyBelow, DriverInv, DriverShape
    <3>3. \A r \in DirtyBelow : r <= cursor' /\ r \in Int /\ cursor' \in Int
      BY <2>1, <3>1, <3>2, HighestIsHighest, RegsAreNumbers
    <3>4. \A r \in dirty : r \in DirtyBelow
      BY <3>1 DEF CalibrationInv, Ahead, DirtyBelow
    <3>5. stage' = "allocated" /\ req'[mine'].wait = "wait"
      BY <3>1, AllocateEffect
    <3> QED BY <3>1, <3>3, <3>4, <3>5 DEF Ahead
  <2>2. CASE Program /\ DirtyBelow = {}
    BY <2>2 DEF Program
  <2>3. CASE SetCode
    <3>1. /\ pc' = "program" => dirty' = Regs /\ cursor' = PWR + 1
      BY <2>3 DEF SetCode, SetupRegs, StartProgram
    <3> QED BY <3>1, RegsAreNumbers DEF Ahead
  <2>4. CASE SetFraction
    <3>1. dirty' = dirty /\ cursor' = PWR + 1
      BY <2>4 DEF SetFraction, StartProgram
    <3> QED BY <3>1, RegsAreNumbers DEF DriverInv, DriverShape, Ahead
  <2>5. CASE ReadReg \/ SetSpan \/ Approximate
    <3>1. pc' # "program"
      BY <2>5 DEF ReadReg, SetSpan, Approximate, place
    <3> QED BY <3>1
  <2>6. CASE SendRequest
    <3>1. UNCHANGED <<dirty, cursor, pc>>
      BY <2>6 DEF SendRequest, driver, place
    <3>2. /\ req' = req /\ (stage' # "none" => mine' = mine)
          /\ req[mine].wait = "wait" => stage' = "waiting"
      BY <2>6, SendEffect DEF SendRequest
    <3> QED BY <3>1, <3>2 DEF CalibrationInv, Ahead
  <2> QED BY <2>1, <2>2, <2>3, <2>4, <2>5, <2>6
<1>4. \/ dirty' = dirty /\ (restoring' = "no" => restoring = "no")
      \/ dirty' = Regs /\ stage' # "waiting"
  <2>1. CASE SetCode
    <3>1. stage' = "allocated"
      BY <2>1, AllocateEffect DEF SetCode
    <3> QED BY <2>1, <3>1 DEF SetCode, SetupRegs
  <2>2. CASE Program \/ ReadReg \/ SetSpan \/ SendRequest \/ Approximate \/ SetFraction
    BY <2>2 DEF Program, ReadReg, SetSpan, SendRequest, Approximate, SetFraction, driver, place
  <2> QED BY <2>1, <2>2
<1>5. CASE dirty' = dirty /\ (restoring' = "no" => restoring = "no")
  <2>1. stage' = "waiting" /\ req'[mine'].answer # "none" =>
          stage = "waiting" /\ req[mine].answer # "none" /\ cursor' = cursor
    BY <1>2
  <2> QED BY <1>1, <1>3, <1>5, <2>1 DEF CalibrationInv, Current
<1>6. CASE dirty' = Regs /\ stage' # "waiting"
  BY <1>1, <1>3, <1>6, RegsAreNumbers DEF CalibrationInv
<1> QED BY <1>4, <1>5, <1>6

\* R0 becomes clean last.
LEMMA ProgrammedKeepsCalibration ==
  ASSUME HwInv, DriverInv, CalibrationInv, Programmed
  PROVE  CalibrationInv'
<1>1. /\ pc = "program" /\ dirty' = dirty \ {cursor} /\ stage' = "none"
      /\ stage = "waiting" /\ req[mine].answer # "none" /\ req[mine].wait = "wait"
      /\ UNCHANGED <<pc, cursor, restoring, chip, calibrated, failed, suspect>>
  BY WakeEffect DEF Programmed, place, chips
<1>2. cursor \in Regs /\ restoring = "no"
  BY <1>1 DEF DriverInv, WaitedIsCursor
<1>3. \A r \in dirty : r < cursor \/ r = cursor
  BY <1>1 DEF CalibrationInv, Ahead
<1>4. CASE suspect = "no"
  <2>1. /\ \A r \in Regs : r \in failed => r \in dirty
        /\ cursor \notin failed
        /\ R0 \notin dirty => VCO \notin dirty /\ PLL \notin dirty
    BY <1>1, <1>4 DEF CalibrationInv
  <2>2. cursor = R0 => VCO \notin dirty /\ PLL \notin dirty
    BY <1>3 DEF R0, VCO, PLL
  <2>3. R0 \notin dirty' /\ chip[R0] = On => Current
    BY <1>1, <1>2, <1>4 DEF CalibrationInv
  <2> QED BY <1>1, <1>3, <2>1, <2>2, <2>3 DEF CalibrationInv, Current, Ahead
<1>5. CASE suspect # "no"
  BY <1>1, <1>3, <1>5 DEF CalibrationInv, Ahead
<1> QED BY <1>4, <1>5

LEMMA StoreReadKeepsCalibration ==
  ASSUME StoreRead
  PROVE  CalibrationInv'
BY DEF StoreRead, CalibrationInv

\* A register that R0 depends on reaches the chip only while R0 is to follow,
\* or the chip has it already.
LEMMA ServeKeepsCalibration ==
  ASSUME HwInv, DriverInv, CalibrationInv, ServeWord
  PROVE  CalibrationInv'
<1> DEFINE b == queue[1]
           word == req[b].word
<1>1. UNCHANGED <<regs, dirty, pc, cursor, restoring>>
  BY DEF ServeWord, driver, place
<1>2. PICK answered \in {"ok", "failed"} : Serve(answered)
  BY DEF ServeWord
<1>3. Head(queue) = b /\ 1 \in 1 .. Len(queue) /\ stage' = stage /\ mine' = mine
  BY <1>2, ServeEffect
<1>4. \/ ChipTakes(word) /\ failed' = failed \ {word.at} /\ suspect' = suspect
      \/ suspect' = "yes"
  BY <1>3 DEF ServeWord
<1>5. pc' = "program" => \A r \in dirty' : Ahead(r)'
  <2>1. stage # "none" /\ req[mine].wait = "wait" => req'[mine].wait = "wait"
    BY <1>2, ServeEffect
  <2> QED BY <1>1, <1>3, <2>1 DEF CalibrationInv, Ahead
<1>8. CASE suspect' = "yes"
  BY <1>1, <1>5, <1>8 DEF CalibrationInv
<1>6. CASE /\ ChipTakes(word) /\ failed' = failed \ {word.at} /\ suspect' = suspect
           /\ req[b].wait = "wait"
  <2>1. stage = "waiting" /\ mine = b
    BY <1>2, <1>6, ServeEffect
  <2>2. /\ word = RegWord(cursor) /\ cursor \in Regs /\ restoring = "no"
        /\ pc \in {"program", "read"}
    BY <1>6, <2>1 DEF DriverInv, WaitedIsCursor
  <2>3. word.at = cursor /\ word.val = regs[cursor]
    BY <2>2 DEF RegWord
  <2> HIDE DEF word
  <2>4. /\ chip' = [chip EXCEPT ![cursor] = regs[cursor]]
        /\ calibrated' = IF cursor = R0 /\ regs[cursor] = On
                            THEN <<chip[VCO], chip[PLL]>> ELSE calibrated
    BY <1>6, <2>2, <2>3 DEF ChipTakes, On
  <2>5. \A r \in Regs : chip'[r] = IF r = cursor THEN regs[r] ELSE chip[r]
    BY <2>2, <2>4 DEF DriverInv, DriverShape
  <2>6. cursor \notin failed'
    BY <1>6, <2>3
  <2>7. cursor = R0 /\ chip'[R0] = On => Current'
    BY <2>2, <2>4, <2>5, RegsAreNumbers DEF Current
  <2>8. CASE suspect = "no"
    <3>1. ASSUME R0 \notin dirty, chip'[R0] = On, cursor # R0 PROVE Current'
      <4>1. VCO \notin dirty /\ PLL \notin dirty /\ VCO \notin failed /\ PLL \notin failed
        BY <2>8, <3>1, RegsAreNumbers DEF CalibrationInv
      <4>2. chip[VCO] = regs[VCO] /\ chip[PLL] = regs[PLL]
        BY <2>2, <4>1, RegsAreNumbers DEF DriverInv, CleanIsProgrammed
      <4>3. chip'[VCO] = chip[VCO] /\ chip'[PLL] = chip[PLL] /\ chip'[R0] = chip[R0]
        BY <2>5, <3>1, <4>2, RegsAreNumbers
      <4>4. Current
        BY <2>2, <2>8, <3>1, <4>3 DEF CalibrationInv
      <4> QED BY <2>4, <3>1, <4>3, <4>4 DEF Current
    <3>2. \A r \in Regs : r \in failed' => r \in dirty
      BY <1>6, <2>8 DEF CalibrationInv
    <3> QED BY <1>1, <1>5, <2>6, <2>7, <2>8, <3>1, <3>2 DEF CalibrationInv
  <2>9. CASE suspect # "no"
    BY <1>1, <1>5, <1>6, <2>9 DEF CalibrationInv
  <2> QED BY <2>8, <2>9
<1>7. CASE /\ ChipTakes(word) /\ failed' = failed \ {word.at} /\ suspect' = suspect
           /\ req[b].wait # "wait"
  <2>1. word.at \notin Regs
    BY <1>3, <1>7 DEF DriverInv, ForgottenAreDac
  <2>2. stage # "none" => req'[mine] = req[mine]
    BY <1>2, <1>7, ServeEffect
  <2> HIDE DEF word
  <2>3. chip' = chip /\ calibrated' = calibrated
    BY <1>7, <2>1 DEF ChipTakes
  <2>4. \A r \in Regs : r \in failed' <=> r \in failed
    BY <1>7, <2>1
  <2>5. stage = "waiting" => cursor \in Regs
    BY DEF HwInv, DriverInv, WaitedIsCursor
  <2> QED BY <1>1, <1>3, <1>5, <1>7, <2>2, <2>3, <2>4, <2>5 DEF CalibrationInv, Current
<1> QED BY <1>4, <1>6, <1>7, <1>8

LEMMA NextKeepsCalibration ==
  ASSUME HwInv, DriverInv, CalibrationInv, [Next]_vars
  PROVE  CalibrationInv'
<1>1. CASE UNCHANGED vars
  BY <1>1 DEF vars, hwVars, driver, place, chips, CalibrationInv, Current, Ahead
<1>2. CASE Next
  BY <1>2, CommandsKeepCalibration, TransfersKeepCalibration, ProgrammedKeepsCalibration,
     StoreReadKeepsCalibration, ServeKeepsCalibration DEF Next, Main, Transfers
<1> QED BY <1>1, <1>2

\* With everything sent, no failure and no register read since, the
\* synthesizer is calibrated for the frequency its registers hold
\* (lmx2820.cpp:641, 681).
THEOREM CalibrationIsCurrent == Spec => []CalibratedIsTuned
<1>1. Init => CalibrationInv
  BY CalibrationStarts
<1>2. HwInv /\ DriverInv /\ CalibrationInv /\ [Next]_vars => CalibrationInv'
  BY NextKeepsCalibration
<1>3. DriverInv /\ CalibrationInv => CalibratedIsTuned
  BY DEF DriverInv, DriverShape, CalibrationInv, CalibratedIsTuned, On, Current
<1> QED BY <1>1, <1>2, <1>3, DriverHolds, PTL DEF Spec

-----------------------------------------------------------------------------
(* The DAC: the last request for a channel has the voltage that was set.   *)

At(b, c) == req[b].word.at = c
Writing(c) == pc \in {"span", "code"} /\ channel = c
Unrestored(c) == restoring = "Q" \/ (restoring = "lmx" /\ c = Q)
Settled(c) == ~Writing(c) /\ ~Unrestored(c)
OnHand(c) == stage = "allocated" /\ At(mine, c)
LastInQueue(i, c) == At(queue[i], c) /\ \A j \in 1 .. Len(queue) : j > i => ~At(queue[j], c)

LatestIsSet(c) ==
  /\ OnHand(c) => req[mine].word.val = volt[c]
  /\ ~OnHand(c) => \A i \in 1 .. Len(queue) :
                     LastInQueue(i, c) => req[queue[i]].word.val = volt[c]
  /\ ~OnHand(c) /\ (\A i \in 1 .. Len(queue) : ~At(queue[i], c)) =>
       dac[c] = volt[c] \/ c \in failed

DacInv ==
  /\ dac = [c \in Channels |-> dac[c]] /\ volt = [c \in Channels |-> volt[c]]
  /\ restoring = "Q" => channel = I
  /\ restoring = "lmx" => channel = Q
  /\ \A c \in Channels : Settled(c) => LatestIsSet(c)

LEMMA ChannelsAreNot == /\ I \in Channels /\ Q \in Channels /\ I # Q
                        /\ \A c \in Channels : c \notin Regs /\ c # SPAN /\ (c = I \/ c = Q)
BY DEF Channels, I, Q, SPAN, Regs, R0, PWR

LEMMA DacStarts == Init => DacInv
BY DEF Init, DacInv, Settled, Unrestored

\* Nothing of the DAC moves.
LEMMA DacStutters ==
  ASSUME DacInv, UNCHANGED <<dac, volt, failed, queue, restoring, channel>>,
         \A i \in 1 .. Len(queue) : req'[queue[i]] = req[queue[i]],
         \A c \in Channels : OnHand(c)' <=> OnHand(c),
         \A c \in Channels : OnHand(c) => req'[mine'] = req[mine],
         pc' \in {"span", "code"} <=> pc \in {"span", "code"}
  PROVE  DacInv'
<1>1. ASSUME NEW c \in Channels, Settled(c)' PROVE LatestIsSet(c)'
  <2>1. LatestIsSet(c)
    BY <1>1 DEF DacInv, Settled, Writing, Unrestored
  <2>2. \A i \in 1 .. Len(queue) : At(queue[i], c)' <=> At(queue[i], c)
    BY DEF At
  <2>3. \A i \in 1 .. Len(queue) : LastInQueue(i, c)' <=> LastInQueue(i, c)
    BY <2>2 DEF LastInQueue
  <2>4. OnHand(c)' <=> OnHand(c)
    OBVIOUS
  <2>5. OnHand(c) => req'[mine'].word = req[mine].word
    OBVIOUS
  <2> QED BY <2>1, <2>2, <2>3, <2>4, <2>5 DEF LatestIsSet
<1> QED BY <1>1 DEF DacInv

LEMMA QuietStepsKeepDac ==
  ASSUME HwInv, DriverInv, DacInv,
         \/ Tune \/ Setup \/ Reprogram \/ SetDrive \/ SetPowerdown \/ Read
         \/ Program \/ ReadReg \/ SetSpan \/ Programmed \/ StoreRead
         \/ Approximate \/ SetFraction
  PROVE  DacInv'
<1>1. UNCHANGED <<dac, volt, failed, restoring, channel>>
  BY DEF Tune, Setup, Reprogram, SetDrive, SetPowerdown, Read, Program, ReadReg, SetSpan,
         Programmed, StoreRead, Approximate, SetFraction, Command, driver, place, chips
<1>2. pc' \in {"span", "code"} <=> pc \in {"span", "code"}
  BY DEF Tune, Setup, Reprogram, SetDrive, SetPowerdown, Read, Program, ReadReg, SetSpan,
         Programmed, StoreRead, Approximate, SetFraction, Command, StartProgram, place
<1>3. /\ queue' = queue /\ \A i \in 1 .. Len(queue) : req'[queue[i]] = req[queue[i]]
      /\ \A c \in Channels : /\ OnHand(c)' <=> OnHand(c)
                             /\ OnHand(c) => req'[mine'] = req[mine]
  <2>1. CASE Tune \/ Setup \/ Reprogram \/ SetDrive \/ SetPowerdown \/ Read
    <3>1. UNCHANGED <<queue, req, stage>> /\ stage = "none"
      BY <2>1 DEF Tune, Setup, Reprogram, SetDrive, SetPowerdown, Read, Command, hwVars
    <3> QED BY <3>1 DEF OnHand
  <2>2. CASE ReadReg \/ SetSpan \/ (Program /\ DirtyBelow # {})
    <3>1. \E word : /\ word.at \in Regs \cup {SPAN}
                    /\ Allocate(word, "wait") \/ Allocate(word, "forget")
      <4>1. CASE Program /\ DirtyBelow # {}
        <5>1. Highest(DirtyBelow) \in Regs
          BY <4>1, HighestIsHighest DEF DirtyBelow, DriverInv, DriverShape
        <5> QED BY <4>1, <5>1 DEF Program, RegWord
      <4>2. CASE ReadReg
        BY <4>2 DEF ReadReg, RegWord, DriverInv, DriverShape
      <4>3. CASE SetSpan
        BY <4>3 DEF SetSpan, SpanWord
      <4> QED BY <2>2, <4>1, <4>2, <4>3
    <3>2. PICK word : /\ word.at \in Regs \cup {SPAN}
                      /\ Allocate(word, "wait") \/ Allocate(word, "forget")
      BY <3>1
    <3>3. /\ stage = "none" /\ queue' = queue /\ req'[mine'].word = word
          /\ \A i \in 1 .. Len(queue) : req'[queue[i]] = req[queue[i]]
      BY <3>2, AllocateEffect
    <3>4. \A c \in Channels : word.at # c
      BY <3>2, ChannelsAreNot
    <3> QED BY <3>3, <3>4 DEF OnHand, At
  <2>3. CASE Program /\ DirtyBelow = {}
    <3>1. UNCHANGED <<queue, req, stage>> /\ stage = "none"
      BY <2>3 DEF Program, hwVars
    <3> QED BY <3>1 DEF OnHand
  <2>4. CASE Programmed \/ StoreRead
    <3>1. /\ stage = "waiting" /\ stage' = "none" /\ queue' = queue
          /\ \A i \in 1 .. Len(queue) : req'[queue[i]] = req[queue[i]]
      BY <2>4, WakeEffect DEF Programmed, StoreRead
    <3> QED BY <3>1 DEF OnHand
  <2>5. CASE Approximate \/ SetFraction
    <3>1. UNCHANGED <<queue, req, stage, mine>>
      BY <2>5 DEF Approximate, SetFraction, hwVars
    <3> QED BY <3>1 DEF OnHand, At
  <2> QED BY <2>1, <2>2, <2>3, <2>4, <2>5
<1>4. \A i \in 1 .. Len(queue) : req'[queue[i]] = req[queue[i]]
  BY <1>3
<1>5. \A c \in Channels : OnHand(c)' <=> OnHand(c)
  BY <1>3
<1>6. \A c \in Channels : OnHand(c) => req'[mine'] = req[mine]
  BY <1>3
<1>7. UNCHANGED <<dac, volt, failed, queue, restoring, channel>>
  BY <1>1, <1>3
<1> QED BY <1>2, <1>4, <1>5, <1>6, <1>7, DacStutters

\* A new voltage: the channel is being written until its request is on hand.
LEMMA SetVoltageKeepsDac ==
  ASSUME DacInv, DriverInv, SetVoltage
  PROVE  DacInv'
<1>1. PICK c \in Channels, v \in Volts : volt' = [volt EXCEPT ![c] = v] /\ channel' = c
  BY DEF SetVoltage
<1>2. /\ UNCHANGED <<dac, failed, restoring, queue, req, stage, mine>> /\ restoring = "no"
      /\ pc' = "span" /\ stage = "none"
      /\ pc = "idle"
  BY DEF SetVoltage, Command, hwVars, chips, DriverInv, DriverShape
<1>3. ASSUME NEW x \in Channels, Settled(x)' PROVE LatestIsSet(x)'
  <2>1. x # c
    BY <1>1, <1>2, <1>3 DEF Settled, Writing
  <2>2. volt'[x] = volt[x]
    BY <1>1, <2>1 DEF DacInv
  <2>3. LatestIsSet(x)
    BY <1>2 DEF DacInv, Settled, Writing, Unrestored
  <2> QED BY <1>2, <2>2, <2>3 DEF LatestIsSet, OnHand, LastInQueue, At
<1>4. volt' = [x \in Channels |-> volt'[x]]
  BY <1>1 DEF DacInv
<1> QED BY <1>2, <1>3, <1>4 DEF DacInv

\* The request for the voltage is put together.
LEMMA SetCodeKeepsDac ==
  ASSUME HwInv, DriverInv, DacInv, SetCode
  PROVE  DacInv'
<1>1. /\ pc = "code" /\ Allocate(DacWord(channel), "forget")
      /\ UNCHANGED <<dac, volt, failed>>
  BY DEF SetCode, chips
<1>2. /\ stage = "none" /\ stage' = "allocated" /\ queue' = queue
      /\ req'[mine'].word = DacWord(channel)
      /\ \A i \in 1 .. Len(queue) : req'[queue[i]] = req[queue[i]]
  BY <1>1, AllocateEffect
<1>3. \/ restoring = "Q" /\ restoring' = "lmx" /\ channel' = Q /\ pc' = "span"
      \/ restoring = "lmx" /\ restoring' = "no" /\ pc' = "program"
      \/ restoring = "no" /\ restoring' = "no" /\ pc' = "idle"
  BY DEF SetCode, StartProgram
<1>4. ASSUME NEW c \in Channels, Settled(c)' PROVE LatestIsSet(c)'
  <2>1. CASE c = channel
    <3>1. OnHand(c)' /\ req'[mine'].word.val = volt[c]
      BY <1>2, <2>1 DEF OnHand, At, DacWord
    <3> QED BY <1>1, <3>1 DEF LatestIsSet
  <2>2. CASE c # channel
    <3>1. Settled(c)
      BY <1>3, <1>4, <2>2, ChannelsAreNot DEF DacInv, Settled, Writing, Unrestored
    <3>2. LatestIsSet(c) /\ ~OnHand(c)
      BY <1>2, <3>1 DEF DacInv, OnHand
    <3>3. ~OnHand(c)'
      BY <1>2, <2>2 DEF OnHand, At, DacWord
    <3> QED BY <1>1, <1>2, <3>2, <3>3 DEF LatestIsSet, LastInQueue, At
  <2> QED BY <2>1, <2>2
<1> QED BY <1>1, <1>3, <1>4 DEF DacInv

\* The request on hand becomes the last of the queue.
LEMMA SendKeepsDac ==
  ASSUME HwInv, DacInv, SendRequest
  PROVE  DacInv'
<1>1. Send /\ UNCHANGED <<dac, volt, failed, restoring, channel, pc>>
  BY DEF SendRequest, driver, place, chips
<1> DEFINE n == Len(queue)
<1>2. /\ stage = "allocated" /\ req' = req /\ Len(queue') = n + 1 /\ n \in Nat
      /\ queue'[n + 1] = mine /\ \A i \in 1 .. n : queue'[i] = queue[i]
  BY <1>1, SendEffect
<1>3. stage' # "allocated"
  BY <1>1 DEF Send
<1>4. ASSUME NEW c \in Channels, Settled(c)' PROVE LatestIsSet(c)'
  <2>1. LatestIsSet(c)
    BY <1>1, <1>4 DEF DacInv, Settled, Writing, Unrestored
  <2>2. ~OnHand(c)'
    BY <1>3 DEF OnHand
  <2>3. \A i \in 1 .. n + 1 : i \in 1 .. n \/ i = n + 1
    BY <1>2
  <2>4. CASE At(mine, c)
    <3>1. req[mine].word.val = volt[c]
      BY <1>2, <2>1, <2>4 DEF LatestIsSet, OnHand
    <3>2. req'[queue'[n + 1]].word.at = c /\ n + 1 \in 1 .. Len(queue')
      BY <1>2, <2>4 DEF At
    <3>3. \A i \in 1 .. Len(queue') : LastInQueue(i, c)' => i = n + 1
      BY <1>2, <2>3, <3>2 DEF LastInQueue, At
    <3>4. \A i \in 1 .. Len(queue') : LastInQueue(i, c)' => req'[queue'[i]].word.val = volt'[c]
      BY <1>1, <1>2, <3>1, <3>3
    <3> QED BY <2>2, <3>2, <3>4 DEF LatestIsSet, At
  <2>5. CASE ~At(mine, c)
    <3>1. ~OnHand(c)
      BY <2>5 DEF OnHand
    <3>2. \A i \in 1 .. n : /\ i \in 1 .. Len(queue') 
                           /\ req'[queue'[i]].word = req[queue[i]].word
      BY <1>2
    <3>3. req'[queue'[n + 1]].word.at # c
      BY <1>2, <2>5 DEF At
    <3>4. \A i \in 1 .. Len(queue') : LastInQueue(i, c)' => i \in 1 .. n /\ LastInQueue(i, c)
      BY <1>2, <2>3, <3>2, <3>3 DEF LastInQueue, At
    <3>5. \A i \in 1 .. Len(queue') : LastInQueue(i, c)' => req'[queue'[i]].word.val = volt'[c]
      BY <1>1, <2>1, <3>1, <3>2, <3>4 DEF LatestIsSet
    <3>6. (\A i \in 1 .. Len(queue') : req'[queue'[i]].word.at # c)
            => \A i \in 1 .. n : ~At(queue[i], c)
      BY <3>2 DEF At
    <3> QED BY <1>1, <2>1, <2>2, <3>1, <3>5, <3>6 DEF LatestIsSet, At
  <2> QED BY <2>4, <2>5
<1> QED BY <1>1, <1>4 DEF DacInv

\* The last request for a channel leaves its voltage in the DAC, or a failure.
LEMMA ServeKeepsDac ==
  ASSUME HwInv, DacInv, ServeWord
  PROVE  DacInv'
<1> DEFINE n == Len(queue)
           word == req[queue[1]].word
<1>1. UNCHANGED <<volt, pc, channel, restoring>>
  BY DEF ServeWord, driver, place
<1>2. PICK answered \in {"ok", "failed"} : Serve(answered)
  BY DEF ServeWord
<1>3. /\ Head(queue) = queue[1] /\ n \in Nat /\ n >= 1 /\ Len(queue') = n - 1
      /\ stage' = stage /\ mine' = mine
      /\ \A i \in 1 .. Len(queue') : i + 1 \in 1 .. n /\ req'[queue'[i]] = req[queue[i + 1]]
  BY <1>2, ServeEffect
<1>4. stage = "allocated" => req'[mine] = req[mine]
  BY <1>2, ServeEffect
<1>5. \/ ChipTakes(word) /\ failed' = failed \ {word.at}
      \/ dac' = dac /\ failed' = failed \cup {word.at}
  BY <1>3 DEF ServeWord
<1> HIDE DEF word
<1>6. /\ dac' = [c \in Channels |-> dac'[c]]
      /\ \A c \in Channels :
           IF c = word.at THEN dac'[c] = word.val \/ c \in failed'
                          ELSE dac'[c] = dac[c] /\ (c \in failed => c \in failed')
  BY <1>5, ChannelsAreNot DEF ChipTakes, DacInv
<1>7. ASSUME NEW c \in Channels, Settled(c)' PROVE LatestIsSet(c)'
  <2>1. LatestIsSet(c)
    BY <1>1, <1>7 DEF DacInv, Settled, Writing, Unrestored
  <2>2. OnHand(c)' <=> OnHand(c)
    BY <1>3, <1>4 DEF OnHand, At
  <2>3. OnHand(c)' => req'[mine'].word.val = volt'[c]
    BY <1>1, <1>3, <1>4, <2>1, <2>2 DEF LatestIsSet, OnHand
  <2>4. ASSUME ~OnHand(c)', NEW i \in 1 .. Len(queue'), LastInQueue(i, c)'
        PROVE  req'[queue'[i]].word.val = volt'[c]
    <3>1. i + 1 \in 1 .. n /\ req[queue[i + 1]].word.at = c
      BY <1>3, <2>4 DEF LastInQueue, At
    <3>2. ASSUME NEW j \in 1 .. n, j > i + 1 PROVE ~At(queue[j], c)
      <4>1. j - 1 \in 1 .. Len(queue') /\ j - 1 > i /\ (j - 1) + 1 = j
        BY <1>3, <3>2
      <4>2. req'[queue'[j - 1]] = req[queue[j]]
        BY <1>3, <4>1
      <4> QED BY <2>4, <4>1, <4>2 DEF LastInQueue, At
    <3>3. LastInQueue(i + 1, c)
      BY <3>1, <3>2 DEF LastInQueue, At
    <3> QED BY <1>1, <1>3, <2>1, <2>2, <2>4, <3>1, <3>3 DEF LatestIsSet
  <2>5. ASSUME ~OnHand(c)', \A i \in 1 .. Len(queue') : req'[queue'[i]].word.at # c
        PROVE  dac'[c] = volt'[c] \/ c \in failed'
    <3>1. ASSUME NEW j \in 2 .. n PROVE ~At(queue[j], c)
      <4>1. j - 1 \in 1 .. Len(queue') /\ (j - 1) + 1 = j
        BY <1>3
      <4>2. req'[queue'[j - 1]] = req[queue[j]]
        BY <1>3, <4>1
      <4> QED BY <2>5, <4>1, <4>2 DEF At
    <3>2. CASE c = word.at
      <4>1. LastInQueue(1, c) /\ 1 \in 1 .. n
        BY <1>3, <3>1, <3>2 DEF LastInQueue, At, word
      <4>2. word.val = volt[c]
        BY <2>1, <2>2, <2>5, <4>1 DEF LatestIsSet, word
      <4> QED BY <1>1, <1>6, <3>2, <4>2
    <3>3. CASE c # word.at
      <4>1. \A j \in 1 .. n : j = 1 \/ j \in 2 .. n
        BY <1>3
      <4>2. \A j \in 1 .. n : ~At(queue[j], c)
        BY <3>1, <3>3, <4>1 DEF At, word
      <4>3. dac[c] = volt[c] \/ c \in failed
        BY <2>1, <2>2, <2>5, <4>2 DEF LatestIsSet
      <4> QED BY <1>1, <1>6, <3>3, <4>3
    <3> QED BY <3>2, <3>3
  <2> QED BY <2>3, <2>4, <2>5 DEF LatestIsSet, At
<1> QED BY <1>1, <1>6, <1>7 DEF DacInv

LEMMA NextKeepsDac ==
  ASSUME HwInv, DriverInv, DacInv, [Next]_vars
  PROVE  DacInv'
<1>1. CASE UNCHANGED vars
  BY <1>1 DEF vars, hwVars, driver, place, chips, DacInv, Settled, Writing, Unrestored,
              LatestIsSet, OnHand, LastInQueue, At
<1>2. CASE Next
  BY <1>2, QuietStepsKeepDac, SetVoltageKeepsDac, SetCodeKeepsDac, SendKeepsDac, ServeKeepsDac
  DEF Next, Commands, Main, Transfers
<1> QED BY <1>1, <1>2

\* Nobody waits for a voltage, and still the last one set is the one that
\* reaches the DAC, unless its transfer fails (ltc2668.cpp:22-27).
THEOREM VoltagesArrive == Spec => []DacFollows
<1>1. Init => DacInv
  BY DacStarts
<1>2. HwInv /\ DriverInv /\ DacInv /\ [Next]_vars => DacInv'
  BY NextKeepsDac
<1>3. HwInv /\ DacInv => DacFollows
  <2> SUFFICES ASSUME HwInv, DacInv, NEW c \in Channels \ failed,
                      ~Writing(c), ~Unrestored(c), dac[c] # volt[c]
               PROVE  \E b \in Outstanding \ {NoBlock} : req[b].word.at = c
    BY DEF DacFollows, Writing, Unrestored
  <2>1. LatestIsSet(c)
    BY DEF DacInv, Settled
  <2>2. CASE OnHand(c)
    <3>1. mine \in Blocks
      BY <2>2 DEF OnHand, HwInv, BlocksAreAccounted
    <3> QED BY <2>2, <3>1, BlocksAreNot DEF OnHand, At, Outstanding
  <2>3. CASE ~OnHand(c)
    <3>1. PICK i \in 1 .. Len(queue) : At(queue[i], c)
      BY <2>1, <2>3 DEF LatestIsSet
    <3>2. queue[i] \in Blocks
      BY <3>1 DEF HwInv, HwShape
    <3> QED BY <3>1, <3>2, BlocksAreNot DEF At, Outstanding
  <2> QED BY <2>2, <2>3
<1> QED BY <1>1, <1>2, <1>3, DriverHolds, PTL DEF Spec

-----------------------------------------------------------------------------
(* The values of the registers.                                            *)

RegsInv ==
  /\ regs[R0] \in R0Values
  /\ regs[VCO] \in Cores \cup {Noise}
  /\ regs[PLL] \in PllValues \cup {Noise}
  /\ regs[MUX] \in Outputs \cup {Noise}
  /\ regs[PWR] \in Nat \cup {Noise}
  /\ pc = "search" => regs[PLL] \in PllValues
  /\ volt \in [Channels -> Volts]

LEMMA RegsDiffer == /\ R0 # VCO /\ R0 # PLL /\ R0 # MUX /\ R0 # PWR
                    /\ VCO # PLL /\ VCO # MUX /\ VCO # PWR
                    /\ PLL # MUX /\ PLL # PWR /\ MUX # PWR
BY DEF R0, VCO, PLL, MUX, PWR

LEMMA RegsStart == Init => RegsInv
<1> SUFFICES ASSUME Init PROVE RegsInv
  OBVIOUS
<1> DEFINE cleared(r) == CASE r = R0 -> [fcal |-> "off", powerdown |-> "off"]
                           [] r = VCO -> "none"
                           [] r = PLL -> [n |-> 0, frac |-> None]
                           [] r = MUX -> "divider"
                           [] r = PWR -> 0
<1>1. regs = [r \in Regs |-> cleared(r)]
  BY Zenon DEF Init
<1>3. /\ cleared(R0) = [fcal |-> "off", powerdown |-> "off"] /\ cleared(VCO) = "none"
      /\ cleared(PLL) = [n |-> 0, frac |-> None] /\ cleared(MUX) = "divider"
      /\ cleared(PWR) = 0
  BY RegsDiffer, Zenon
<1> HIDE DEF cleared
<1>4. /\ regs[R0] = [fcal |-> "off", powerdown |-> "off"] /\ regs[VCO] = "none"
      /\ regs[PLL] = [n |-> 0, frac |-> None] /\ regs[MUX] = "divider"
      /\ regs[PWR] = 0
  BY <1>1, <1>3, RegsAreNumbers
<1>5. volt \in [Channels -> Volts] /\ pc = "span"
  BY BoardAssumption DEF Init
<1> QED BY <1>4, <1>5 DEF RegsInv, R0Values, Cores, PllValues, Outputs, None, Fraction

\* The steps that change one kind of register at a time.
LEMMA SetupKeepsRegs ==
  ASSUME RegsInv, DriverShape, SetupRegs, volt' = volt, pc' # "search"
  PROVE  RegsInv'
<1> DEFINE on == [regs[R0] EXCEPT !.fcal = "on"]
<1>1. regs' = [regs EXCEPT ![R0] = on, ![VCO] = "high", ![MUX] = "direct",
                           ![PLL] = [n |-> 500, frac |-> Whole], ![PWR] = 7]
  BY DEF SetupRegs
<1>2. on \in R0Values
  BY DEF RegsInv, R0Values
<1> HIDE DEF on
<1>3. /\ regs'[R0] = on /\ regs'[VCO] = "high" /\ regs'[MUX] = "direct"
      /\ regs'[PLL] = [n |-> 500, frac |-> Whole] /\ regs'[PWR] = 7
  BY <1>1, RegsAreNumbers, RegsDiffer DEF DriverShape
<1> QED BY <1>2, <1>3 DEF RegsInv, Cores, Outputs, PllValues, Whole, Fraction

LEMMA TuneKeepsRegs ==
  ASSUME RegsInv, DriverShape, Tune
  PROVE  RegsInv'
<1>1. PICK f \in Frequencies, frac \in {Whole, None} :
        regs' = [regs EXCEPT ![MUX] = f.mux, ![VCO] = f.core, ![PLL] = [n |-> f.n, frac |-> frac]]
  BY DEF Tune
<1>2. f.mux \in Outputs /\ f.core \in Cores /\ f.n \in Nat /\ frac \in Fraction
  BY BoardAssumption DEF Whole, None, Fraction
<1>3. volt' = volt
  BY DEF Tune
<1>4. /\ regs'[R0] = regs[R0] /\ regs'[VCO] = f.core /\ regs'[MUX] = f.mux
      /\ regs'[PLL] = [n |-> f.n, frac |-> frac] /\ regs'[PWR] = regs[PWR]
  BY <1>1, RegsAreNumbers, RegsDiffer DEF DriverShape
<1> QED BY <1>2, <1>3, <1>4 DEF RegsInv, PllValues

LEMMA NextKeepsRegs ==
  ASSUME RegsInv, DriverInv, SearchInv, [Next]_vars
  PROVE  RegsInv'
<1>1. DriverShape
  BY DEF DriverInv
<1>2. CASE UNCHANGED <<regs, volt>> /\ (pc' = "search" => pc = "search")
  BY <1>2 DEF RegsInv
<1>3. CASE Tune
  BY <1>1, <1>3, TuneKeepsRegs
<1>4. CASE SetupRegs /\ volt' = volt /\ pc' # "search"
  BY <1>1, <1>4, SetupKeepsRegs
<1>5. CASE SetDrive
  <2>1. PICK v \in Powers : regs' = [regs EXCEPT ![PWR] = v]
    BY <1>5 DEF SetDrive
  <2>2. v \in Nat
    BY BoardAssumption
  <2>3. volt' = volt /\ pc' = "program"
    BY <1>5 DEF SetDrive, StartProgram
  <2>4. regs'[PWR] = v /\ \A r \in Regs \ {PWR} : regs'[r] = regs[r]
    BY <1>1, <2>1, RegsAreNumbers DEF DriverShape
  <2> QED BY <2>2, <2>3, <2>4, RegsAreNumbers, RegsDiffer DEF RegsInv
<1>6. CASE SetPowerdown
  <2>1. PICK v \in {"off", "on"} : regs' = [regs EXCEPT ![R0].powerdown = v]
    BY <1>6 DEF SetPowerdown
  <2> DEFINE new == [regs[R0] EXCEPT !.powerdown = v]
  <2>2. regs' = [regs EXCEPT ![R0] = new]
    BY <2>1
  <2>3. new \in R0Values
    BY DEF RegsInv, R0Values
  <2> HIDE DEF new
  <2>4. volt' = volt /\ pc' = "program"
    BY <1>6 DEF SetPowerdown, StartProgram
  <2>5. regs'[R0] = new /\ \A r \in Regs \ {R0} : regs'[r] = regs[r]
    BY <1>1, <2>2, RegsAreNumbers DEF DriverShape
  <2> QED BY <2>3, <2>4, <2>5, RegsAreNumbers, RegsDiffer DEF RegsInv
<1>7. CASE SetVoltage
  BY <1>7 DEF SetVoltage, RegsInv
<1>8. CASE SetFraction
  <2> DEFINE new == [regs[PLL] EXCEPT !.frac = result]
  <2>1. regs' = [regs EXCEPT ![PLL] = new] /\ volt' = volt /\ pc = "search" /\ pc' = "program"
    BY <1>8 DEF SetFraction, StartProgram
  <2>2. new \in PllValues
    <3>1. regs[PLL] \in PllValues /\ result \in Fraction
      BY <2>1 DEF RegsInv, SearchInv, SearchTypeOK
    <3> QED BY <3>1 DEF PllValues
  <2> HIDE DEF new
  <2>3. regs'[PLL] = new /\ \A r \in Regs \ {PLL} : regs'[r] = regs[r]
    BY <1>1, <2>1, RegsAreNumbers DEF DriverShape
  <2> QED BY <2>1, <2>2, <2>3, RegsAreNumbers, RegsDiffer DEF RegsInv
<1>9. CASE StoreRead
  <2>1. volt' = volt /\ pc' = "idle" /\ cursor \in Regs
    BY <1>1, <1>9 DEF StoreRead, DriverShape
  <2>2. CASE cursor \in dirty
    BY <1>9, <2>1, <2>2 DEF StoreRead, RegsInv
  <2>3. CASE cursor \notin dirty
    <3>1. PICK v \in ReadBack(cursor) : regs' = [regs EXCEPT ![cursor] = v]
      BY <1>9, <2>3 DEF StoreRead
    <3>2. regs'[cursor] = v /\ \A r \in Regs \ {cursor} : regs'[r] = regs[r]
      BY <1>1, <2>1, <3>1 DEF DriverShape
    <3>3. v = regs[cursor] \/ (cursor = R0 /\ v \in R0Values) \/ (cursor # R0 /\ v = Noise)
      BY DEF ReadBack
    <3>4. /\ regs'[R0] = regs[R0] \/ regs'[R0] \in R0Values
          /\ \A r \in {VCO, PLL, MUX, PWR} : regs'[r] = regs[r] \/ regs'[r] = Noise
      <4>1. ASSUME NEW r \in Regs, r # R0 PROVE regs'[r] = regs[r] \/ regs'[r] = Noise
        BY <3>2, <3>3, <4>1
      <4>2. regs'[R0] = regs[R0] \/ regs'[R0] \in R0Values
        BY <3>2, <3>3, RegsAreNumbers
      <4> QED BY <4>1, <4>2, RegsAreNumbers, RegsDiffer
    <3> QED BY <2>1, <3>4 DEF RegsInv
  <2> QED BY <2>2, <2>3
<1> QED
  <2>1. CASE UNCHANGED vars
    BY <1>2, <2>1 DEF vars, driver, place
  <2>2. CASE Setup \/ SetCode
    BY <1>2, <1>4, <2>2 DEF Setup, SetCode, Command, StartProgram
  <2>3. CASE Reprogram \/ Read \/ Program \/ ReadReg \/ SetSpan \/ SendRequest \/ Programmed
             \/ Approximate \/ ServeWord
    BY <1>2, <2>3 DEF Reprogram, Read, Program, ReadReg, SetSpan, SendRequest, Programmed,
                      Approximate, ServeWord, StartProgram, driver, place
  <2> QED BY <1>3, <1>5, <1>6, <1>7, <1>8, <1>9, <2>1, <2>2, <2>3 DEF Next, Commands, Main, Transfers

\* Every register keeps a value it can have, whatever is read back into it.
THEOREM BoardTypeCorrect == Spec => []TypeOK
<1>1. Init => RegsInv
  BY RegsStart
<1>2. RegsInv /\ DriverInv /\ SearchInv /\ [Next]_vars => RegsInv'
  BY NextKeepsRegs
<1>3. RegsInv /\ HwInv /\ DriverInv /\ SearchInv => TypeOK
  BY DEF RegsInv, HwInv, HwShape, DriverInv, DriverShape, PcValues, SearchInv, SearchTypeOK, TypeOK
<1> QED BY <1>1, <1>2, <1>3, DriverHolds, SearchHolds, PTL DEF Spec
=============================================================================
