--------------------------- MODULE ConsoleProofs ---------------------------
(***************************************************************************)
(* Theorems about the console, for every size of its windows and of its     *)
(* command queue and whatever is typed: its type, that the terminal shows   *)
(* what the windows hold, and that commands come in the order of typing.    *)
(***************************************************************************)
EXTENDS Console, SequenceTheorems, WellFoundedInduction, TLAPS

-----------------------------------------------------------------------------
(* Least elements, and with them what Printed returns.                     *)

LEMMA LeastNumber ==
  ASSUME NEW T, T \subseteq Nat, T # {}
  PROVE  \E x \in T : \A y \in T : x <= y
<1> DEFINE Less == {p \in Nat \X Nat : p[1] < p[2]}
<1>1. IsWellFoundedOn(Less, Nat)
  BY NatLessThanWellFounded DEF OpToRel
<1> HIDE DEF Less
<1>2. PICK x \in T : \A y \in T : <<y, x>> \notin Less
  BY <1>1, WFMin
<1>3. \A y \in T : x <= y
  <2> TAKE y \in T
  <2>1. x \in Nat /\ y \in Nat
    OBVIOUS
  <2>2. ~(y < x)
    BY <1>2, <2>1 DEF Less
  <2> QED
    BY <2>1, <2>2
<1> QED
  BY <1>3

LEMMA PrintedType ==
  ASSUME NEW S, NEW keys \in Seq(S)
  PROVE  Printed(keys) \in Seq(S)
<1> DEFINE n0 == Len(keys)
           Step(g, n) == IF script[keys[n]] \in Printables THEN Append(g[n - 1], keys[n])
                                                          ELSE g[n - 1]
           Prefix(g, n) == /\ g \in [0 .. n -> Seq(S)] /\ g[0] = <<>>
                           /\ \A i \in 1 .. n : g[i] = Step(g, i)
           None == {n \in 0 .. n0 : ~ \E g : Prefix(g, n)}
           Is(f) == f = [n \in 0 .. n0 |-> IF n = 0 THEN <<>> ELSE Step(f, n)]
<1>0. n0 \in Nat /\ keys \in [1 .. n0 -> S]
  BY LenProperties
<1> HIDE DEF n0
<1>1. None = {}
  <2> SUFFICES ASSUME None # {} PROVE FALSE
    OBVIOUS
  <2> None \subseteq Nat
    BY <1>0
  <2> HIDE DEF None
  <2>1. PICK n \in None : \A m \in None : n <= m
    BY LeastNumber
  <2> USE DEF None
  <2>2. n # 0
    <3>1. Prefix([i \in 0 .. 0 |-> <<>>], 0)
      OBVIOUS
    <3> QED
      BY <3>1
  <2>3. n - 1 \in 0 .. n0 /\ n - 1 \notin None
    <3>1. n \in 0 .. n0 /\ n - 1 \in 0 .. n0 /\ ~(n <= n - 1)
      BY <1>0, <2>2
    <3> HIDE DEF None
    <3> QED
      BY <2>1, <3>1
  <2>4. PICK g : Prefix(g, n - 1)
    BY <2>3
  <2> DEFINE h == [i \in 0 .. n |-> IF i < n THEN g[i] ELSE Step(g, n)]
  <2>5. keys[n] \in S /\ g[n - 1] \in Seq(S)
    BY <1>0, <2>1, <2>2, <2>4, ElementOfSeq
  <2>6. h \in [0 .. n -> Seq(S)] /\ h[0] = <<>>
    BY <1>0, <2>2, <2>4, <2>5
  <2>7. \A i \in 1 .. n : h[i] = Step(h, i)
    <3> TAKE i \in 1 .. n
    <3>1. n \in Nat /\ i \in Int /\ i - 1 \in 0 .. n /\ i \in 0 .. n
      BY <1>0
    <3>2. h[i - 1] = g[i - 1]
      BY <3>1
    <3>3. CASE i < n
      <4>1. h[i] = g[i] /\ i \in 1 .. n - 1
        BY <3>1, <3>3
      <4> QED
        BY <2>4, <3>2, <4>1
    <3>4. CASE i = n
      BY <3>1, <3>2, <3>4
    <3> QED
      BY <3>1, <3>3, <3>4
  <2> QED
    BY <2>1, <2>6, <2>7
<1>2. PICK g : Prefix(g, n0)
  <2> HIDE DEF None
  <2>1. n0 \notin None
    BY <1>1
  <2>2. n0 \in 0 .. n0
    BY <1>0
  <2> HIDE DEF Prefix
  <2> QED
    BY <2>1, <2>2 DEF None
<1>3. Is(g)
  <2> SUFFICES ASSUME NEW n \in 0 .. n0
               PROVE  g[n] = IF n = 0 THEN <<>> ELSE Step(g, n)
    BY <1>2
  <2>1. CASE n = 0
    BY <1>2, <2>1
  <2>2. CASE n # 0
    <3>1. n \in 1 .. n0
      BY <1>0, <2>2
    <3> QED
      BY <1>2, <2>2, <3>1
  <2> QED
    BY <2>1, <2>2
<1> DEFINE f == CHOOSE f : Is(f)
<1>4. Is(f)
  BY <1>3
<1> HIDE DEF f
<1> DEFINE Bad == {n \in 0 .. n0 : f[n] \notin Seq(S)}
<1>5. Bad = {}
  <2> SUFFICES ASSUME Bad # {} PROVE FALSE
    OBVIOUS
  <2> Bad \subseteq Nat
    BY <1>0
  <2> HIDE DEF Bad
  <2>1. PICK n \in Bad : \A m \in Bad : n <= m
    BY LeastNumber
  <2> USE DEF Bad
  <2>2. n # 0
    BY <1>0, <1>4
  <2>3. n - 1 \in 0 .. n0 /\ n - 1 \notin Bad
    BY <1>0, <2>1, <2>2
  <2>4. f[n] = Step(f, n)
    BY <1>4, <2>2
  <2>5. keys[n] \in S /\ f[n - 1] \in Seq(S)
    BY <1>0, <2>1, <2>2, <2>3, ElementOfSeq
  <2>6. Step(f, n) \in Seq(S)
    BY <2>5, AppendProperties
  <2> QED
    BY <2>4, <2>6
<1>6. f[n0] \in Seq(S)
  BY <1>0, <1>5
<1>7. Printed(keys) = f[n0]
  BY DEF Printed, f, n0
<1> QED
  BY <1>6, <1>7
-----------------------------------------------------------------------------
(* Keys: what the terminals hold and what they have sent.                  *)

Numbers == Nat \ {0}
Holders == {"raw", "field", "frame"}
Live == vt = "TEXT" \/ (vt = "DLE" /\ saved = "TEXT")
Held == [h \in Holders |-> CASE h = "raw" -> rawbuf
                             [] h = "field" -> field
                             [] h = "frame" -> IF Live THEN frame ELSE <<>>]

\* Increasing and up to m, in order of typing.
UpTo(s, m) == /\ s \in Seq(Numbers)
              /\ \A i \in 1 .. Len(s) : s[i] <= m
              /\ \A i, j \in 1 .. Len(s) : i < j => s[i] < s[j]
Apart(s, t) == \A i \in 1 .. Len(s), j \in 1 .. Len(t) : s[i] # t[j]

\* m is the last key that a terminal has looked at: all it holds is not after
\* it, and all that is queued is after it.
HeldInv(held, m) ==
  \A h \in Holders : /\ UpTo(held[h], m)
                     /\ \A g \in Holders : g # h => Apart(held[h], held[g])
PushedInv(list, held, m) ==
  /\ list \in Seq([keys : Seq(Numbers), end : Numbers])
  /\ \A i \in 1 .. Len(list) :
       /\ UpTo(list[i].keys, list[i].end - 1)
       /\ list[i].end <= m
       /\ \A h \in Holders : Apart(list[i].keys, held[h])
       /\ \A j \in 1 .. Len(list) : j # i => Apart(list[i].keys, list[j].keys)
       /\ \A j \in 1 .. Len(list) : i < j => list[i].end < list[j].end
Looked(list, held, m) == HeldInv(held, m) /\ PushedInv(list, held, m)
After(q, m) == \A i \in 1 .. Len(q) : m < q[i]
Queued(m) == After(rawq, m) /\ After(cookq, m)
OrderInv ==
  /\ typed \in Nat
  /\ UpTo(rawq, typed) /\ UpTo(cookq, typed) /\ Apart(rawq, cookq)
  /\ \E m \in 0 .. typed : Looked(pushed, Held, m) /\ Queued(m)

LEMMA LookOn ==
  ASSUME NEW list, NEW held, NEW m \in Nat, NEW k \in Nat, m <= k, Looked(list, held, m)
  PROVE  Looked(list, held, k)
<1>1. \A s : UpTo(s, m) => UpTo(s, k)
  <2> SUFFICES ASSUME NEW s, UpTo(s, m) PROVE \A i \in 1 .. Len(s) : s[i] <= k
    BY DEF UpTo
  <2> TAKE i \in 1 .. Len(s)
  <2>1. s[i] \in Nat /\ s[i] <= m
    BY ElementOfSeq DEF UpTo, Numbers
  <2> QED
    BY <2>1
<1>2. ASSUME NEW i \in 1 .. Len(list) PROVE list[i].end <= k
  <2>1. list[i] \in [keys : Seq(Numbers), end : Numbers]
    BY ElementOfSeq DEF Looked, PushedInv
  <2>2. list[i].end \in Nat /\ list[i].end <= m
    BY <2>1 DEF Looked, PushedInv, Numbers
  <2> QED
    BY <2>2
<1> QED
  BY <1>1, <1>2 DEF Looked, HeldInv, PushedInv

LEMMA TakeKey ==
  ASSUME NEW list, NEW held \in [Holders -> Seq(Numbers)], NEW m \in Nat,
         NEW k \in Numbers, m < k, NEW h \in Holders, Looked(list, held, m)
  PROVE  Looked(list, [held EXCEPT ![h] = Append(held[h], k)], k)
<1> DEFINE s == held[h]
           t == Append(s, k)
           new == [held EXCEPT ![h] = t]
<1>0. Looked(list, held, k)
  BY LookOn DEF Numbers
<1>1. /\ t \in Seq(Numbers) /\ Len(t) = Len(s) + 1 /\ Len(s) \in Nat
      /\ t[Len(s) + 1] = k
      /\ \A i \in 1 .. Len(s) : t[i] = s[i]
      /\ \A i \in 1 .. Len(t) : i = Len(s) + 1 \/ i \in 1 .. Len(s)
  BY AppendProperties, LenProperties
<1>2. \A i \in 1 .. Len(s) : s[i] \in Nat /\ s[i] <= m /\ s[i] < k
  BY ElementOfSeq DEF Looked, HeldInv, UpTo, Numbers
<1>3. UpTo(t, k)
  <2>1. \A i, j \in 1 .. Len(s) : i < j => s[i] < s[j]
    BY DEF Looked, HeldInv, UpTo
  <2>2. ASSUME NEW i \in 1 .. Len(t), NEW j \in 1 .. Len(t), i < j PROVE t[i] < t[j]
    <3>1. i \in 1 .. Len(s)
      BY <1>1, <2>2
    <3> QED
      BY <1>1, <1>2, <2>1, <2>2, <3>1
  <2>3. \A i \in 1 .. Len(t) : t[i] <= k
    BY <1>1, <1>2 DEF Numbers
  <2> QED
    BY <1>1, <2>2, <2>3 DEF UpTo
<1>4. ASSUME NEW u, UpTo(u, m), Apart(u, s) PROVE Apart(u, t)
  <2> SUFFICES ASSUME NEW i \in 1 .. Len(u), NEW j \in 1 .. Len(t) PROVE u[i] # t[j]
    BY DEF Apart
  <2>1. u[i] \in Nat /\ u[i] <= m
    BY <1>4, ElementOfSeq DEF UpTo, Numbers
  <2>2. CASE j \in 1 .. Len(s)
    BY <1>1, <1>4, <2>2 DEF Apart
  <2>3. CASE j = Len(s) + 1
    BY <1>1, <2>1, <2>3 DEF Numbers
  <2> QED
    BY <1>1, <2>2, <2>3
<1>5. \A u, v : Apart(u, v) <=> Apart(v, u)
  BY DEF Apart
<1>6. HeldInv(new, k)
  <2> SUFFICES ASSUME NEW g \in Holders
               PROVE  /\ UpTo(new[g], k)
                      /\ \A f \in Holders : f # g => Apart(new[g], new[f])
    BY DEF HeldInv
  <2>1. UpTo(new[g], k)
    BY <1>0, <1>3 DEF Looked, HeldInv
  <2>2. ASSUME NEW f \in Holders, f # g PROVE Apart(new[g], new[f])
    <3>1. Apart(held[g], held[f]) /\ UpTo(held[f], m) /\ UpTo(held[g], m)
      BY <2>2 DEF Looked, HeldInv
    <3> QED
      BY <1>4, <1>5, <2>2, <3>1
  <2> QED
    BY <2>1, <2>2
<1>7. PushedInv(list, new, k)
  <2> SUFFICES ASSUME NEW i \in 1 .. Len(list), NEW g \in Holders
               PROVE  Apart(list[i].keys, new[g])
    BY <1>0 DEF Looked, PushedInv
  <2>1. Apart(list[i].keys, held[g]) /\ UpTo(list[i].keys, list[i].end - 1)
    BY DEF Looked, PushedInv
  <2>2. list[i] \in [keys : Seq(Numbers), end : Numbers] /\ list[i].end <= m
    BY ElementOfSeq DEF Looked, PushedInv
  <2>3. UpTo(list[i].keys, m)
    <3> SUFFICES ASSUME NEW j \in 1 .. Len(list[i].keys) PROVE list[i].keys[j] <= m
      BY <2>1 DEF UpTo
    <3>1. /\ list[i].keys[j] \in Nat /\ list[i].end \in Nat
          /\ list[i].keys[j] <= list[i].end - 1
      BY <2>1, <2>2, ElementOfSeq DEF UpTo, Numbers
    <3> QED
      BY <2>2, <3>1
  <2> QED
    BY <1>4, <2>1, <2>3
<1> QED
  BY <1>6, <1>7 DEF Looked

\* A holder may lose its last keys, or all.
LEMMA LoseKeys ==
  ASSUME NEW list, NEW held \in [Holders -> Seq(Numbers)], NEW m \in Nat,
         NEW h \in Holders, Looked(list, held, m),
         NEW t \in Seq(Numbers), Len(t) <= Len(held[h]),
         \A i \in 1 .. Len(t) : t[i] = held[h][i]
  PROVE  Looked(list, [held EXCEPT ![h] = t], m)
<1> DEFINE s == held[h]
           new == [held EXCEPT ![h] = t]
<1>1. Len(s) \in Nat /\ Len(t) \in Nat /\ \A i \in 1 .. Len(t) : i \in 1 .. Len(s)
  BY LenProperties
<1>2. UpTo(t, m)
  <2>1. UpTo(s, m)
    BY DEF Looked, HeldInv
  <2> QED
    BY <1>1, <2>1 DEF UpTo
<1>3. \A u : Apart(u, s) => Apart(u, t)
  BY <1>1 DEF Apart
<1>4. \A u, v : Apart(u, v) <=> Apart(v, u)
  BY DEF Apart
<1>5. HeldInv(new, m)
  <2> SUFFICES ASSUME NEW g \in Holders
               PROVE  /\ UpTo(new[g], m)
                      /\ \A f \in Holders : f # g => Apart(new[g], new[f])
    BY DEF HeldInv
  <2>1. UpTo(new[g], m)
    BY <1>2 DEF Looked, HeldInv
  <2>2. ASSUME NEW f \in Holders, f # g PROVE Apart(new[g], new[f])
    <3>1. Apart(held[g], held[f])
      BY <2>2 DEF Looked, HeldInv
    <3> QED
      BY <1>3, <1>4, <2>2, <3>1
  <2> QED
    BY <2>1, <2>2
<1>6. PushedInv(list, new, m)
  BY <1>3 DEF Looked, PushedInv
<1> QED
  BY <1>5, <1>6 DEF Looked

LEMMA DropKeys ==
  ASSUME NEW list, NEW held \in [Holders -> Seq(Numbers)], NEW m \in Nat,
         NEW h \in Holders, Looked(list, held, m)
  PROVE  Looked(list, [held EXCEPT ![h] = <<>>], m)
<1> DEFINE t == <<>>
<1>1. /\ t \in Seq(Numbers) /\ Len(t) <= Len(held[h])
      /\ \A i \in 1 .. Len(t) : t[i] = held[h][i]
  <2>1. t \in Seq(Numbers) /\ Len(t) = 0 /\ Len(held[h]) \in Nat
    BY EmptySeq, LenProperties
  <2> QED
    BY <2>1
<1> HIDE DEF t
<1>2. Looked(list, [held EXCEPT ![h] = t], m)
  BY <1>1, LoseKeys
<1> QED
  BY <1>2 DEF t

LEMMA FinishCommand ==
  ASSUME NEW list, NEW held \in [Holders -> Seq(Numbers)], NEW m \in Nat,
         NEW k \in Numbers, m < k, NEW h \in Holders, Looked(list, held, m)
  PROVE  Looked(Append(list, [keys |-> held[h], end |-> k]), [held EXCEPT ![h] = <<>>], k)
<1> DEFINE s == held[h]
           cmd == [keys |-> s, end |-> k]
           more == Append(list, cmd)
           new == [held EXCEPT ![h] = <<>>]
<1>0. Looked(list, new, k)
  <2>1. Looked(list, new, m)
    BY DropKeys
  <2>2. k \in Nat /\ m <= k
    BY DEF Numbers
  <2> QED
    BY <2>1, <2>2, LookOn
<1>1. cmd \in [keys : Seq(Numbers), end : Numbers]
  OBVIOUS
<1>2. /\ more \in Seq([keys : Seq(Numbers), end : Numbers])
      /\ Len(more) = Len(list) + 1 /\ Len(list) \in Nat
      /\ more[Len(list) + 1] = cmd
      /\ \A i \in 1 .. Len(list) : more[i] = list[i]
      /\ \A i \in 1 .. Len(more) : i = Len(list) + 1 \/ i \in 1 .. Len(list)
  BY <1>1, AppendProperties, LenProperties DEF Looked, PushedInv
<1>3. UpTo(s, k - 1)
  <2>1. UpTo(s, m)
    BY DEF Looked, HeldInv
  <2> SUFFICES ASSUME NEW i \in 1 .. Len(s) PROVE s[i] <= k - 1
    BY <2>1 DEF UpTo
  <2>2. s[i] \in Nat /\ s[i] <= m
    BY <2>1, ElementOfSeq DEF UpTo, Numbers
  <2> QED
    BY <2>2 DEF Numbers
<1>4. \A i \in 1 .. Len(list) : Apart(list[i].keys, s) /\ Apart(s, list[i].keys)
  BY DEF Looked, PushedInv, Apart
<1>5. \A g \in Holders : Apart(s, new[g])
  <2>1. Apart(s, <<>>)
    BY EmptySeq DEF Apart
  <2> QED
    BY <2>1 DEF Looked, HeldInv
<1>6. \A i \in 1 .. Len(list) : list[i].end \in Nat /\ list[i].end < k
  <2> TAKE i \in 1 .. Len(list)
  <2>1. list[i] \in [keys : Seq(Numbers), end : Numbers] /\ list[i].end <= m
    BY ElementOfSeq DEF Looked, PushedInv
  <2> QED
    BY <2>1 DEF Numbers
<1>7. PushedInv(more, new, k)
  <2> SUFFICES ASSUME NEW i \in 1 .. Len(more)
               PROVE  /\ UpTo(more[i].keys, more[i].end - 1)
                      /\ more[i].end <= k
                      /\ \A g \in Holders : Apart(more[i].keys, new[g])
                      /\ \A j \in 1 .. Len(more) : j # i => Apart(more[i].keys, more[j].keys)
                      /\ \A j \in 1 .. Len(more) : i < j => more[i].end < more[j].end
    BY <1>2 DEF PushedInv
  <2>1. CASE i = Len(list) + 1
    <3>1. more[i].keys = s /\ more[i].end = k
      BY <1>2, <2>1
    <3>2. \A j \in 1 .. Len(more) : j # i => Apart(s, more[j].keys)
      BY <1>2, <1>4, <2>1
    <3>3. \A j \in 1 .. Len(more) : ~(i < j)
      BY <1>2, <2>1
    <3> QED
      BY <1>3, <1>5, <3>1, <3>2, <3>3 DEF Numbers
  <2>2. CASE i \in 1 .. Len(list)
    <3>1. more[i] = list[i]
      BY <1>2, <2>2
    <3>2. /\ UpTo(list[i].keys, list[i].end - 1)
          /\ list[i].end <= k
          /\ \A g \in Holders : Apart(list[i].keys, new[g])
      BY <1>0, <2>2 DEF Looked, PushedInv
    <3>3. ASSUME NEW j \in 1 .. Len(more), j # i PROVE Apart(list[i].keys, more[j].keys)
      <4>1. CASE j = Len(list) + 1
        BY <1>2, <1>4, <2>2, <4>1
      <4>2. CASE j \in 1 .. Len(list)
        BY <1>2, <2>2, <3>3, <4>2 DEF Looked, PushedInv
      <4> QED
        BY <1>2, <4>1, <4>2
    <3>4. ASSUME NEW j \in 1 .. Len(more), i < j PROVE list[i].end < more[j].end
      <4>1. CASE j = Len(list) + 1
        BY <1>2, <1>6, <2>2, <4>1
      <4>2. CASE j \in 1 .. Len(list)
        BY <1>2, <2>2, <3>4, <4>2 DEF Looked, PushedInv
      <4> QED
        BY <1>2, <4>1, <4>2
    <3> QED
      BY <3>1, <3>2, <3>3, <3>4
  <2> QED
    BY <1>2, <2>1, <2>2
<1> QED
  BY <1>0, <1>7 DEF Looked

-----------------------------------------------------------------------------
(* What the actions do to the keys.                                        *)

\* A key is passed over, kept, makes a holder lose keys, or ends a command.
Lose(h, t) == /\ t \in Seq(Numbers) /\ Len(t) <= Len(Held[h])
              /\ \A i \in 1 .. Len(t) : t[i] = Held[h][i]
              /\ Held' = [Held EXCEPT ![h] = t]
              /\ pushed' = pushed
Look(k) ==
  \/ Held' = Held /\ pushed' = pushed
  \/ \E h \in Holders : /\ Held' = [Held EXCEPT ![h] = Append(Held[h], k)]
                         /\ pushed' = pushed
  \/ \E h \in Holders : \E t : Lose(h, t)
  \/ \E h \in Holders : /\ Held' = [Held EXCEPT ![h] = <<>>]
                         /\ pushed' = Append(pushed, [keys |-> Held[h], end |-> k])

HeldType == /\ rawbuf \in Seq(Numbers) /\ field \in Seq(Numbers)
            /\ Live => frame \in Seq(Numbers)

LEMMA HeldSeqs == OrderInv => HeldType /\ Held \in [Holders -> Seq(Numbers)]
<1> SUFFICES ASSUME OrderInv PROVE HeldType /\ Held \in [Holders -> Seq(Numbers)]
  OBVIOUS
<1>1. \A h \in Holders : Held[h] \in Seq(Numbers)
  BY DEF OrderInv, Looked, HeldInv, UpTo
<1>2. Held["raw"] = rawbuf /\ Held["field"] = field /\ (Live => Held["frame"] = frame)
  BY DEF Held, Holders
<1> QED
  BY <1>1, <1>2 DEF Held, Holders, HeldType

LEMMA LookKeepsOrder ==
  ASSUME NEW m \in Nat, NEW k \in Numbers, m < k,
         HeldType, Held \in [Holders -> Seq(Numbers)],
         Looked(pushed, Held, m), Look(k)
  PROVE  Looked(pushed', Held', k)
<1>1. k \in Nat /\ m <= k
  BY DEF Numbers
<1>2. CASE Held' = Held /\ pushed' = pushed
  BY <1>1, <1>2, LookOn
<1>3. CASE \E h \in Holders : /\ Held' = [Held EXCEPT ![h] = Append(Held[h], k)]
                              /\ pushed' = pushed
  <2>1. PICK h \in Holders : /\ Held' = [Held EXCEPT ![h] = Append(Held[h], k)]
                             /\ pushed' = pushed
    BY <1>3
  <2>2. Looked(pushed, [Held EXCEPT ![h] = Append(Held[h], k)], k)
    BY TakeKey
  <2> QED
    BY <2>1, <2>2
<1>4. CASE \E h \in Holders : \E t : Lose(h, t)
  <2>0. PICK h \in Holders : \E t : Lose(h, t)
    BY <1>4
  <2>1. PICK t : Lose(h, t)
    BY <2>0
  <2>2. Looked(pushed, [Held EXCEPT ![h] = t], m)
    BY <2>1, LoseKeys DEF Lose
  <2>3. Looked(pushed', Held', m)
    BY <2>1, <2>2 DEF Lose
  <2> QED
    BY <1>1, <2>3, LookOn
<1>5. CASE \E h \in Holders :
             /\ Held' = [Held EXCEPT ![h] = <<>>]
             /\ pushed' = Append(pushed, [keys |-> Held[h], end |-> k])
  <2>1. PICK h \in Holders :
             /\ Held' = [Held EXCEPT ![h] = <<>>]
             /\ pushed' = Append(pushed, [keys |-> Held[h], end |-> k])
    BY <1>5
  <2>2. Looked(Append(pushed, [keys |-> Held[h], end |-> k]), [Held EXCEPT ![h] = <<>>], k)
    BY FinishCommand
  <2> QED
    BY <2>1, <2>2
<1> QED
  BY <1>2, <1>3, <1>4, <1>5 DEF Look

\* Only writing to the input window changes the input line.
LEMMA OutputOnly ==
  ASSUME NEW new, Change(InOutput(new))
  PROVE  field' = field
BY DEF Change, InOutput, field, Windows

LEMMA InputLine ==
  ASSUME NEW keys, NEW cells, Change(InInput(Field(keys, cells)))
  PROVE  field' = keys
BY DEF Change, InInput, Field, field, Windows

LEMMA RawLooks ==
  ASSUME HeldType, RawGets
  PROVE  Look(Head(rawq))
<1> DEFINE k == Head(rawq)
<1>1. Live' = Live /\ frame' = frame
  BY DEF RawGets, cooking, Live
<1>2. CASE mode = "RAW" /\ script[k] = "nl"
  <2>1. field' = field /\ rawbuf' = <<>>
    BY <1>2, OutputOnly DEF RawGets
  <2>2. Held' = [Held EXCEPT !["raw"] = <<>>] /\ Held["raw"] = rawbuf
    BY <1>1, <2>1 DEF Held, Holders
  <2>3. pushed' = Append(pushed, [keys |-> rawbuf, end |-> k])
    BY <1>2 DEF RawGets, Push
  <2> QED
    BY <2>2, <2>3 DEF Look, Holders
<1>3. CASE ~(mode = "RAW" /\ script[k] = "nl")
  <2>1. field' = field /\ pushed' = pushed
    BY <1>3 DEF RawGets, field
  <2>2. rawbuf' = Append(rawbuf, k) \/ rawbuf' = rawbuf
    BY <1>3 DEF RawGets
  <2>3. CASE rawbuf' = Append(rawbuf, k)
    <3>1. Held' = [Held EXCEPT !["raw"] = Append(Held["raw"], k)]
      BY <1>1, <2>1, <2>3 DEF Held, Holders
    <3> QED
      BY <2>1, <3>1 DEF Look, Holders
  <2>4. CASE rawbuf' = rawbuf
    BY <1>1, <2>1, <2>4 DEF Look, Held
  <2> QED
    BY <2>2, <2>3, <2>4
<1> QED
  BY <1>2, <1>3

LEMMA InputLooks ==
  ASSUME NEW k, HeldType, OnInput(k), UNCHANGED <<rawbuf, cooking>>
  PROVE  Look(k)
<1>0. "nl" \notin Printables /\ "bs" \notin Printables
  BY DEF Printables, Letters
<1>1. Live' = Live /\ frame' = frame /\ rawbuf' = rawbuf
  BY DEF cooking, Live
<1>2. Held["field"] = field
  BY DEF Held, Holders
<1>3. ASSUME NEW t, field' = t PROVE Held' = [Held EXCEPT !["field"] = t]
  BY <1>1, <1>3 DEF Held, Holders
<1>4. field' = field => Held' = Held
  BY <1>1 DEF Held
<1>5. CASE script[k] = "nl" /\ field # <<>>
  <2> DEFINE new == [w \in Windows |-> IF w = "output" THEN Shown(field)
                                                    ELSE Field(<<>>, Cells("input"))]
  <2>1. Change(new) /\ pushed' = Append(pushed, [keys |-> field, end |-> k])
    BY <1>0, <1>5 DEF OnInput, Push
  <2>2. field' = <<>>
    BY <2>1 DEF Change, Windows, Field, field
  <2> QED
    BY <1>2, <1>3, <2>1, <2>2 DEF Look, Holders
<1>6. CASE script[k] = "nl" /\ field = <<>>
  <2>1. Change(InInput(Field(<<>>, Cells("input")))) /\ pushed' = pushed
    BY <1>0, <1>6 DEF OnInput
  <2>2. field' = <<>>
    BY <2>1, InputLine
  <2> QED
    BY <1>4, <1>6, <2>1, <2>2 DEF Look
<1>7. CASE script[k] = "bs" /\ field # <<>>
  <2> DEFINE t == SubSeq(field, 1, Len(field) - 1)
  <2>1. Change(InInput(Field(t, {<<1, Len(field)>>}))) /\ pushed' = pushed
    BY <1>0, <1>7 DEF OnInput
  <2>2. field' = t
    BY <2>1, InputLine
  <2>3. /\ t \in Seq(Numbers) /\ Len(t) <= Len(field)
        /\ \A i \in 1 .. Len(t) : t[i] = field[i]
    BY <1>7, SubSeqProperties, LenProperties, EmptySeq DEF HeldType
  <2>4. Lose("field", t)
    BY <1>2, <1>3, <2>1, <2>2, <2>3 DEF Lose
  <2> QED
    BY <2>4 DEF Look, Holders
<1>8. CASE script[k] \in Printables /\ Fits(field)
  <2> DEFINE t == Append(field, k)
  <2>1. Change(InInput(Field(t, {<<1, Len(field) + 1>>}))) /\ pushed' = pushed
    BY <1>0, <1>8 DEF OnInput
  <2>2. field' = t
    BY <2>1, InputLine
  <2> QED
    BY <1>2, <1>3, <2>1, <2>2 DEF Look, Holders
<1>9. CASE /\ ~(script[k] = "nl" /\ field # <<>>) /\ ~(script[k] = "nl" /\ field = <<>>)
           /\ ~(script[k] = "bs" /\ field # <<>>) /\ ~(script[k] \in Printables /\ Fits(field))
  <2>1. Silent
    BY <1>9 DEF OnInput
  <2>2. field' = field /\ pushed' = pushed
    BY <2>1 DEF Silent, field
  <2> QED
    BY <1>4, <2>2 DEF Look
<1> QED
  BY <1>5, <1>6, <1>7, <1>8, <1>9

LEMMA ProcessLooks ==
  ASSUME NEW k, HeldType, Process(k), UNCHANGED rawbuf
  PROVE  Look(k)
<1> DEFINE c == script[k]
<1>1. ASSUME field' = field, Live' = Live, Live => frame' = frame PROVE Held' = Held
  BY <1>1 DEF Held
<1>2. ASSUME NEW t, field' = field, (IF Live' THEN frame' ELSE <<>>) = t
      PROVE  Held' = [Held EXCEPT !["frame"] = t]
  BY <1>2 DEF Held, Holders
<1>3. Held["frame"] = IF Live THEN frame ELSE <<>>
  BY DEF Held, Holders
<1>4. Silent => field' = field /\ pushed' = pushed
  BY DEF Silent, field
<1>5. ASSUME field' = field, pushed' = pushed, ~Live' PROVE Look(k)
  <2>1. Held' = [Held EXCEPT !["frame"] = <<>>]
    BY <1>2, <1>5
  <2>2. /\ <<>> \in Seq(Numbers) /\ Len(<<>>) <= Len(Held["frame"])
        /\ \A i \in 1 .. Len(<<>>) : <<>>[i] = Held["frame"][i]
    BY <1>3, EmptySeq, LenProperties DEF HeldType
  <2>3. Lose("frame", <<>>)
    BY <1>5, <2>1, <2>2 DEF Lose
  <2> QED
    BY <2>3 DEF Look, Holders
<1>6. CASE vt = "GROUND"
  <2>1. CASE c \in {"esc", "dle"}
    BY <1>4, <1>5, <1>6, <2>1 DEF Process, Live
  <2>2. CASE c \notin {"esc", "dle"}
    BY <1>6, <2>2, InputLooks DEF Process
  <2> QED
    BY <2>1, <2>2
<1>7. CASE vt = "ESC"
  BY <1>4, <1>5, <1>7 DEF Process, Live
<1>8. CASE vt = "CSI"
  <2>1. vt' \in {"CSI", "GROUND"}
    BY <1>8 DEF Process
  <2>2. Silent \/ (Change(InOutput(WithLine(Report))) /\ pushed' = pushed)
    BY <1>8 DEF Process
  <2> QED
    BY <1>4, <1>5, <2>1, <2>2, OutputOnly DEF Live
<1>9. CASE vt = "DLE"
  <2>1. CASE c = "stx" /\ saved = "GROUND"
    <3>1. vt' = "TEXT" /\ frame' = <<>> /\ Silent
      BY <1>9, <2>1 DEF Process
    <3>2. Held' = [Held EXCEPT !["frame"] = <<>>] /\ Held["frame"] = <<>>
      BY <1>2, <1>3, <1>4, <1>9, <2>1, <3>1 DEF Live
    <3>3. Held' = Held
      BY <3>2 DEF Held
    <3> QED
      BY <1>4, <3>1, <3>3 DEF Look
  <2>2. CASE c = "etx" /\ saved = "TEXT"
    <3>1. /\ vt' = "GROUND" /\ Change(InOutput(Shown(frame)))
          /\ pushed' = Append(pushed, [keys |-> frame, end |-> k])
      BY <1>9, <2>2 DEF Process, Push
    <3>2. Held' = [Held EXCEPT !["frame"] = <<>>] /\ Held["frame"] = frame
      BY <1>2, <1>3, <1>9, <2>2, <3>1, OutputOnly DEF Live
    <3> QED
      BY <3>1, <3>2 DEF Look, Holders
  <2>3. CASE ~(c = "stx" /\ saved = "GROUND") /\ ~(c = "etx" /\ saved = "TEXT")
    BY <1>4, <1>5, <1>9, <2>3 DEF Process, Live
  <2> QED
    BY <2>1, <2>2, <2>3
<1>10. CASE vt = "TEXT"
  <2>1. frame' = Append(frame, k) /\ Silent /\ Live /\ Live'
    BY <1>10 DEF Process, Live
  <2>2. Held' = [Held EXCEPT !["frame"] = Append(Held["frame"], k)]
    BY <1>2, <1>3, <1>4, <2>1
  <2> QED
    BY <1>4, <2>1, <2>2 DEF Look, Holders
<1> QED
  BY <1>6, <1>7, <1>8, <1>9, <1>10 DEF Process

LEMMA NextKey ==
  ASSUME NEW q, NEW other, NEW n \in Nat, UpTo(q, n), UpTo(other, n), Apart(q, other),
         Turn(q, other)
  PROVE  /\ Head(q) \in Numbers /\ Head(q) = q[1] /\ 1 \in 1 .. Len(q) /\ Head(q) <= n
         /\ UpTo(Tail(q), n) /\ Apart(Tail(q), other)
         /\ After(Tail(q), Head(q)) /\ After(other, Head(q))
<1>1. /\ q \in Seq(Numbers) /\ Len(q) \in Nat /\ Len(q) # 0
      /\ Head(q) = q[1] /\ q[1] \in Numbers
      /\ Tail(q) \in Seq(Numbers) /\ Len(Tail(q)) = Len(q) - 1
      /\ \A i \in 1 .. Len(Tail(q)) : Tail(q)[i] = q[i + 1] /\ i + 1 \in 1 .. Len(q)
  <2>1. q \in Seq(Numbers) /\ q # <<>>
    BY DEF UpTo, Turn
  <2>2. Len(q) \in Nat /\ Len(q) # 0
    BY <2>1, LenProperties, EmptySeq
  <2>3. /\ Head(q) = q[1] /\ Tail(q) \in Seq(Numbers) /\ Len(Tail(q)) = Len(q) - 1
        /\ \A i \in 1 .. Len(Tail(q)) : Tail(q)[i] = q[i + 1]
    BY <2>1, HeadTailProperties
  <2>4. q[1] \in Numbers
    BY <2>1, <2>2, ElementOfSeq
  <2> QED
    BY <2>1, <2>2, <2>3, <2>4
<1>2. \A i, j \in 1 .. Len(q) : i < j => q[i] < q[j]
  BY DEF UpTo
<1>3. UpTo(Tail(q), n)
  BY <1>1, <1>2 DEF UpTo
<1>4. Apart(Tail(q), other)
  BY <1>1 DEF Apart
<1>5. After(Tail(q), Head(q))
  BY <1>1, <1>2 DEF After
<1>6. After(other, Head(q))
  <2>1. DOMAIN other = 1 .. Len(other)
    BY LenProperties DEF UpTo
  <2> QED
    BY <2>1 DEF After, Turn
<1>7. Head(q) <= n /\ 1 \in 1 .. Len(q)
  BY <1>1 DEF UpTo
<1> QED
  BY <1>1, <1>3, <1>4, <1>5, <1>6, <1>7

LEMMA KeyArrives ==
  ASSUME NEW q, NEW other, NEW n \in Nat, UpTo(q, n), UpTo(other, n), Apart(q, other),
         NEW m \in 0 .. n, After(q, m)
  PROVE  LET more == Append(q, n + 1)
         IN  /\ UpTo(more, n + 1) /\ UpTo(other, n + 1) /\ Apart(more, other)
             /\ Apart(other, more) /\ After(more, m)
<1> DEFINE more == Append(q, n + 1)
<1>1. /\ more \in Seq(Numbers) /\ Len(more) = Len(q) + 1 /\ Len(q) \in Nat
      /\ more[Len(q) + 1] = n + 1
      /\ \A i \in 1 .. Len(q) : more[i] = q[i]
      /\ \A i \in 1 .. Len(more) : i = Len(q) + 1 \/ i \in 1 .. Len(q)
  <2>1. n + 1 \in Numbers
    BY DEF Numbers
  <2>2. q \in Seq(Numbers) /\ Len(q) \in Nat
    BY LenProperties DEF UpTo
  <2>3. /\ more \in Seq(Numbers) /\ Len(more) = Len(q) + 1 /\ more[Len(q) + 1] = n + 1
        /\ \A i \in 1 .. Len(q) : more[i] = q[i]
    BY <2>1, <2>2, AppendProperties
  <2> QED
    BY <2>2, <2>3
<1>2. \A i \in 1 .. Len(q) : q[i] \in Nat /\ q[i] <= n
  BY ElementOfSeq DEF UpTo, Numbers
<1>3. \A i \in 1 .. Len(other) : other[i] \in Nat /\ other[i] <= n
  BY ElementOfSeq DEF UpTo, Numbers
<1>4. UpTo(more, n + 1)
  <2>1. \A i, j \in 1 .. Len(q) : i < j => q[i] < q[j]
    BY DEF UpTo
  <2>2. ASSUME NEW i \in 1 .. Len(more), NEW j \in 1 .. Len(more), i < j
        PROVE  more[i] < more[j]
    <3>1. i \in 1 .. Len(q)
      BY <1>1, <2>2
    <3> QED
      BY <1>1, <1>2, <2>1, <2>2, <3>1
  <2>3. \A i \in 1 .. Len(more) : more[i] <= n + 1
    BY <1>1, <1>2
  <2> QED
    BY <1>1, <2>2, <2>3 DEF UpTo
<1>5. UpTo(other, n + 1)
  BY <1>3 DEF UpTo
<1>6. Apart(more, other) /\ Apart(other, more)
  BY <1>1, <1>2, <1>3 DEF Apart
<1>7. After(more, m)
  BY <1>1 DEF After
<1> QED
  BY <1>4, <1>5, <1>6, <1>7

LEMMA OrderKept == OrderInv /\ [Next]_vars => OrderInv'
<1> SUFFICES ASSUME OrderInv, [Next]_vars PROVE OrderInv'
  OBVIOUS
<1>0. /\ typed \in Nat /\ UpTo(rawq, typed) /\ UpTo(cookq, typed)
      /\ Apart(rawq, cookq) /\ Apart(cookq, rawq)
  BY DEF OrderInv, Apart
<1>1. PICK m \in 0 .. typed : Looked(pushed, Held, m) /\ Queued(m)
  BY DEF OrderInv
<1>2. HeldType /\ Held \in [Holders -> Seq(Numbers)]
  BY HeldSeqs
<1>3. ASSUME Held' = Held, UNCHANGED <<pushed, typed, rawq, cookq>> PROVE OrderInv'
  BY <1>0, <1>1, <1>3 DEF OrderInv, Queued
<1>4. CASE OnChar
  <2>1. Held' = Held /\ pushed' = pushed
    BY <1>4 DEF OnChar, Held, screenVars, cooking, commands, Live, field
  <2>2. typed' = typed + 1 /\ m \in 0 .. typed' /\ typed' \in Nat
    BY <1>0, <1>4 DEF OnChar
  <2>3. CASE rawq' = Append(rawq, typed + 1) /\ cookq' = cookq
    BY <1>0, <1>1, <2>1, <2>2, <2>3, KeyArrives DEF OrderInv, Queued
  <2>4. CASE cookq' = Append(cookq, typed + 1) /\ rawq' = rawq
    BY <1>0, <1>1, <2>1, <2>2, <2>4, KeyArrives DEF OrderInv, Queued
  <2> QED
    BY <1>4, <2>2, <2>3, <2>4 DEF OnChar
<1>5. CASE RawGets
  <2> DEFINE k == Head(rawq)
  <2>1. rawq' = Tail(rawq) /\ cookq' = cookq /\ typed' = typed /\ Turn(rawq, cookq)
    BY <1>5 DEF RawGets, typing
  <2>2. /\ k \in Numbers /\ k = rawq[1] /\ 1 \in 1 .. Len(rawq) /\ k <= typed
        /\ UpTo(rawq', typed) /\ Apart(rawq', cookq)
        /\ After(rawq', k) /\ After(cookq, k)
    BY <1>0, <2>1, NextKey
  <2>3. m \in Nat /\ m < k /\ k \in 0 .. typed
    BY <1>0, <1>1, <2>2 DEF Queued, After, Numbers
  <2>4. Looked(pushed', Held', k)
    BY <1>1, <1>2, <1>5, <2>2, <2>3, RawLooks, LookKeepsOrder
  <2> QED
    BY <1>0, <2>1, <2>2, <2>3, <2>4 DEF OrderInv, Queued
<1>6. CASE CookedGets
  <2> DEFINE k == Head(cookq)
  <2>1. /\ cookq' = Tail(cookq) /\ rawq' = rawq /\ typed' = typed /\ Turn(cookq, rawq)
        /\ rawbuf' = rawbuf
    BY <1>6 DEF CookedGets, typing
  <2>2. /\ k \in Numbers /\ k = cookq[1] /\ 1 \in 1 .. Len(cookq) /\ k <= typed
        /\ UpTo(cookq', typed) /\ Apart(cookq', rawq)
        /\ After(cookq', k) /\ After(rawq, k)
    BY <1>0, <2>1, NextKey
  <2>3. m \in Nat /\ m < k /\ k \in 0 .. typed
    BY <1>0, <1>1, <2>2 DEF Queued, After, Numbers
  <2>4. Look(k)
    <3>1. CASE mode = "COOKED"
      BY <1>2, <1>6, <2>1, <3>1, ProcessLooks DEF CookedGets
    <3>2. CASE mode # "COOKED"
      BY <1>6, <2>1, <3>2 DEF CookedGets, Silent, cooking, Look, Held, Live, field
    <3> QED
      BY <3>1, <3>2
  <2>5. Looked(pushed', Held', k)
    BY <1>1, <1>2, <2>2, <2>3, <2>4, LookKeepsOrder
  <2>6. Apart(rawq, cookq')
    BY <2>2 DEF Apart
  <2> QED
    BY <1>0, <2>1, <2>2, <2>3, <2>5, <2>6 DEF OrderInv, Queued
<1>7. CASE Main
  <2>1. UNCHANGED <<pushed, typed, rawq, cookq, rawbuf, cooking>>
    BY <1>7 DEF Main, Take, Answer, typing, commands
  <2>2. field' = field
    <3>1. CASE Take
      BY <3>1, OutputOnly DEF Take, Unwritten, field
    <3>2. CASE Answer
      BY <3>2, OutputOnly DEF Answer
    <3> QED
      BY <1>7, <3>1, <3>2 DEF Main
  <2>3. Held' = Held
    BY <2>1, <2>2 DEF Held, cooking, Live
  <2> QED
    BY <1>3, <2>1, <2>3
<1>8. CASE RefreshThread
  <2>1. UNCHANGED <<pushed, typed, rawq, cookq, rawbuf, cooking>>
    BY <1>8 DEF RefreshThread, typing, commands
  <2>2. text' = text
    BY <1>8 DEF RefreshThread, Refresh, ReceiveRedraw, DirtyAll, Timeout, Begin, DrawLine,
                DrawChar, EndLine, DrawNothing
  <2>3. Held' = Held
    BY <2>1, <2>2 DEF Held, cooking, Live, field
  <2> QED
    BY <1>3, <2>1, <2>3
<1>9. CASE UNCHANGED vars
  <2>1. Held' = Held /\ UNCHANGED <<pushed, typed, rawq, cookq>>
    BY <1>9 DEF vars, screenVars, typing, cooking, commands, Held, Live, field
  <2> QED
    BY <1>3, <2>1
<1> QED
  BY <1>4, <1>5, <1>6, <1>7, <1>8, <1>9 DEF Next, Terminals

LEMMA OrderBegins == Init => OrderInv
<1> SUFFICES ASSUME Init PROVE OrderInv
  OBVIOUS
<1>1. field = <<>>
  BY DEF Init, ScreenInit, field, Windows, Rows
<1>2. \A h \in Holders : Held[h] = <<>>
  BY <1>1 DEF Init, Held, Holders, Live
<1>3. \A s, m : UpTo(<<>>, m) /\ Apart(<<>>, s) /\ After(<<>>, m)
  BY EmptySeq DEF UpTo, Apart, After
<1>4. HeldInv(Held, 0)
  BY <1>2, <1>3 DEF HeldInv
<1>5. PushedInv(pushed, Held, 0)
  BY EmptySeq DEF Init, PushedInv
<1>6. 0 \in 0 .. typed /\ typed \in Nat
  BY DEF Init
<1> QED
  BY <1>3, <1>4, <1>5, <1>6 DEF Init, OrderInv, Looked, Queued

LEMMA OrderSuffices == OrderInv => CommandsInOrder
<1> SUFFICES ASSUME OrderInv, NEW i \in DOMAIN pushed
             PROVE  LET cmd == pushed[i] IN
                    /\ \A a, b \in DOMAIN cmd.keys : a < b => cmd.keys[a] < cmd.keys[b]
                    /\ \A a \in DOMAIN cmd.keys : cmd.keys[a] < cmd.end
                    /\ \A j \in DOMAIN pushed \ {i} :
                         \A a \in DOMAIN cmd.keys, b \in DOMAIN pushed[j].keys :
                           cmd.keys[a] # pushed[j].keys[b]
                    /\ \A j \in DOMAIN pushed : i < j => cmd.end < pushed[j].end
  BY DEF CommandsInOrder
<1>1. PICK m \in Nat : PushedInv(pushed, Held, m)
  BY DEF OrderInv, Looked
<1>2. DOMAIN pushed = 1 .. Len(pushed)
  BY <1>1, LenProperties DEF PushedInv
<1>3. \A j \in DOMAIN pushed :
         /\ pushed[j].keys \in Seq(Numbers) /\ pushed[j].end \in Nat
         /\ DOMAIN pushed[j].keys = 1 .. Len(pushed[j].keys)
         /\ UpTo(pushed[j].keys, pushed[j].end - 1)
  <2> TAKE j \in DOMAIN pushed
  <2>1. pushed[j] \in [keys : Seq(Numbers), end : Numbers]
    BY <1>1, <1>2, ElementOfSeq DEF PushedInv
  <2> QED
    BY <1>1, <1>2, <2>1, LenProperties DEF PushedInv, Numbers
<1>4. \A a \in DOMAIN pushed[i].keys : pushed[i].keys[a] < pushed[i].end
  <2> TAKE a \in DOMAIN pushed[i].keys
  <2>1. pushed[i].keys[a] \in Nat /\ pushed[i].keys[a] <= pushed[i].end - 1
    BY <1>3, ElementOfSeq DEF UpTo, Numbers
  <2> QED
    BY <1>3, <2>1
<1>5. \A a, b \in DOMAIN pushed[i].keys : a < b => pushed[i].keys[a] < pushed[i].keys[b]
  BY <1>3 DEF UpTo
<1>6. \A j \in DOMAIN pushed \ {i} :
        \A a \in DOMAIN pushed[i].keys, b \in DOMAIN pushed[j].keys :
          pushed[i].keys[a] # pushed[j].keys[b]
  BY <1>1, <1>2, <1>3 DEF PushedInv, Apart
<1>7. \A j \in DOMAIN pushed : i < j => pushed[i].end < pushed[j].end
  BY <1>1, <1>2 DEF PushedInv
<1> QED
  BY <1>4, <1>5, <1>6, <1>7

\* Commands come in the order they were finished in, and no key is in two of
\* them or after its command's end, whatever is typed and however often the
\* terminals are switched in between.
THEOREM CommandsStayInOrder == Spec => []CommandsInOrder
<1>1. Init => OrderInv
  BY OrderBegins
<1>2. OrderInv /\ [Next]_vars => OrderInv'
  BY OrderKept
<1>3. OrderInv => CommandsInOrder
  BY OrderSuffices
<1> QED
  BY <1>1, <1>2, <1>3, PTL DEF Spec

-----------------------------------------------------------------------------
(* The screen: what the refresh thread has drawn, and what it has yet to.  *)

Chars == Int \ {Blank}
IsRow(s) == s \in Seq(Chars) /\ Len(s) <= Width
CharIn(t, c) == IF c[2] <= Len(t[c[1]]) THEN t[c[1]][c[2]] ELSE Blank

\* A set of cells that is a rectangle, or empty.
IsBox(w, S) ==
  /\ S \subseteq Cells(w)
  /\ \A c \in Cells(w) : (/\ \E a, b \in S : a[1] <= c[1] /\ c[1] <= b[1]
                          /\ \E a, b \in S : a[2] <= c[2] /\ c[2] <= b[2])
                         => c \in S

\* A row has text from its start on, and nothing is below the cursor.
TextInv ==
  /\ \A w \in Windows : /\ DOMAIN text[w] = Rows(w)
                        /\ \A r \in Rows(w) : IsRow(text[w][r])
  /\ line \in 1 .. Height
  /\ \A r \in Rows("output") : line <= r => text["output"][r] = <<>>
ScreenShape ==
  /\ mode \in {"RAW", "COOKED"} /\ at \in {"known", "lost"}
  /\ DOMAIN screen = Windows /\ DOMAIN dirty = Windows
  /\ \A w \in Windows : DOMAIN screen[w] = Cells(w) /\ IsBox(w, dirty[w])
  /\ redraws \in Nat /\ raced \subseteq Windows
DrawInv ==
  /\ pc \in {"wait", "cleared", "next", "line", "char"}
  /\ win \in Windows /\ IsBox(win, rect) /\ row \in Rows(win) /\ col \in 1 .. Width + 1
  /\ pc \in {"line", "char"} => \E c \in rect : c[1] = row
  /\ pc = "char" => \E c \in rect : c[2] <= col
  /\ pc \notin {"line", "char"} => rect = {} /\ row = 1

\* When no redraw is due, what is not dirty is shown; in the window that is
\* being drawn, the rows above are shown, and of this row what is left of the
\* cursor, the rest of it is blank.
Synced == mode = "COOKED" /\ redraws = 0 /\ pc # "cleared"
Match(w, c) == screen[w][c] = CharAt(w, c)
CleanInv == \A w \in Windows \ raced : \A c \in Cells(w) \ dirty[w] : Match(w, c)
AboveInv ==
  pc \in {"line", "char"} /\ win \notin raced =>
    dirty[win] = rect /\ \A c \in rect : c[1] < row => Match(win, c)
RowInv ==
  pc = "char" =>
    /\ at = "known"
    /\ win \notin raced =>
         \A c \in rect : c[1] = row =>
           IF c[2] < col THEN Match(win, c) ELSE screen[win][c] = Blank
SyncInv == Synced => CleanInv /\ AboveInv /\ RowInv

ScreenInv == TextInv /\ ScreenShape /\ DrawInv /\ SyncInv

LEMMA CellShape ==
  /\ Height \in Nat /\ Width \in Nat /\ Height >= 2 /\ Width >= 1
  /\ \A w \in Windows : Rows(w) \subseteq 1 .. Height /\ 1 \in Rows(w)
  /\ \A w \in Windows : \A c \in Cells(w) :
       c = <<c[1], c[2]>> /\ c[1] \in Rows(w) /\ c[2] \in 1 .. Width
  /\ \A w \in Windows : \A r \in Rows(w), k \in 1 .. Width : <<r, k>> \in Cells(w)
  /\ \A w \in Windows : \A r \in Rows(w), d \in Rows(w) : r < d => r + 1 \in Rows(w)
BY ScreenAssumption DEF Windows, Rows, Cells

LEMMA WholeBoxes == \A w \in Windows : IsBox(w, {}) /\ IsBox(w, Cells(w))
BY DEF IsBox

LEMMA BoxCorner ==
  ASSUME NEW w \in Windows, NEW S, IsBox(w, S), NEW a \in S, NEW b \in S
  PROVE  <<a[1], b[2]>> \in S
<1> DEFINE c == <<a[1], b[2]>>
<1>1. /\ a \in Cells(w) /\ b \in Cells(w) /\ a[1] \in Int /\ b[2] \in Int
      /\ c \in Cells(w) /\ c[1] = a[1] /\ c[2] = b[2]
  BY CellShape DEF IsBox
<1>2. /\ \E x, y \in S : x[1] <= c[1] /\ c[1] <= y[1]
      /\ \E x, y \in S : x[2] <= c[2] /\ c[2] <= y[2]
  BY <1>1
<1> QED
  BY <1>1, <1>2 DEF IsBox

LEMMA HullIsBox ==
  ASSUME NEW w \in Windows, NEW old, NEW new, old \subseteq Cells(w), new \subseteq Cells(w)
  PROVE  /\ IsBox(w, Hull(w, old, new))
         /\ old \subseteq Hull(w, old, new) /\ new \subseteq Hull(w, old, new)
<1> DEFINE S == old \cup new
           H == Hull(w, old, new)
<1>1. \A c \in Cells(w) : c[1] \in Int /\ c[2] \in Int
  BY CellShape
<1>2. S \subseteq H
  <2> SUFFICES ASSUME NEW c \in S PROVE c \in H
    OBVIOUS
  <2>1. c \in Cells(w) /\ c[1] <= c[1] /\ c[2] <= c[2]
    BY <1>1
  <2> QED
    BY <2>1 DEF Hull
<1>3. H \subseteq Cells(w)
  BY DEF Hull
<1>4. ASSUME NEW c \in Cells(w),
             \E a, b \in H : a[1] <= c[1] /\ c[1] <= b[1],
             \E a, b \in H : a[2] <= c[2] /\ c[2] <= b[2]
      PROVE  c \in H
  <2>1. PICK a, b \in H : a[1] <= c[1] /\ c[1] <= b[1]
    BY <1>4
  <2>2. PICK a1 \in S : a1[1] <= a[1]
    BY DEF Hull
  <2>3. PICK b1 \in S : b[1] <= b1[1]
    BY DEF Hull
  <2>4. a1[1] <= c[1] /\ c[1] <= b1[1]
    BY <1>1, <1>3, <2>1, <2>2, <2>3
  <2>5. PICK d, e \in H : d[2] <= c[2] /\ c[2] <= e[2]
    BY <1>4
  <2>6. PICK d1 \in S : d1[2] <= d[2]
    BY DEF Hull
  <2>7. PICK e1 \in S : e[2] <= e1[2]
    BY DEF Hull
  <2>8. d1[2] <= c[2] /\ c[2] <= e1[2]
    BY <1>1, <1>3, <2>5, <2>6, <2>7
  <2> QED
    BY <2>4, <2>8 DEF Hull
<1> QED
  BY <1>2, <1>3, <1>4 DEF IsBox

LEMMA LeastRow ==
  ASSUME NEW w \in Windows, NEW S, IsBox(w, S), S # {}
  PROVE  \E r \in Rows(w) : (\E c \in S : c[1] = r) /\ (\A c \in S : r <= c[1])
<1> DEFINE T == {c[1] : c \in S}
<1>1. T \subseteq Nat /\ T # {} /\ \A c \in S : c[1] \in Rows(w)
  BY CellShape DEF IsBox
<1> HIDE DEF T
<1>2. PICK r \in T : \A x \in T : r <= x
  BY <1>1, LeastNumber
<1> QED
  BY <1>1, <1>2 DEF T

LEMMA LeastColumn ==
  ASSUME NEW w \in Windows, NEW S, IsBox(w, S), NEW r, \E c \in S : c[1] = r
  PROVE  \E k \in 1 .. Width : <<r, k>> \in S /\ \A c \in S : k <= c[2]
<1> DEFINE T == {c[2] : c \in S}
<1>1. T \subseteq Nat /\ T # {} /\ \A c \in S : c[2] \in 1 .. Width
  BY CellShape DEF IsBox
<1> HIDE DEF T
<1>2. PICK k \in T : \A x \in T : k <= x
  BY <1>1, LeastNumber
<1>3. <<r, k>> \in S
  BY <1>2, BoxCorner DEF T
<1> QED
  BY <1>1, <1>2, <1>3 DEF T

\* The refresh thread's steps.
LEMMA ReceiveRedrawScreen == ScreenInv /\ ReceiveRedraw => ScreenInv'
<1> SUFFICES ASSUME ScreenInv, ReceiveRedraw PROVE ScreenInv'
  OBVIOUS
<1>1. TextInv'
  BY DEF ScreenInv, ReceiveRedraw, TextInv
<1>2. ScreenShape'
  BY DEF ScreenInv, ReceiveRedraw, ScreenShape, NoChar, IsBox
<1>3. DrawInv'
  BY DEF ScreenInv, ReceiveRedraw, DrawInv, IsBox
<1>4. SyncInv'
  BY DEF ReceiveRedraw, SyncInv, Synced
<1> QED
  BY <1>1, <1>2, <1>3, <1>4 DEF ScreenInv

LEMMA DirtyAllScreen == ScreenInv /\ DirtyAll => ScreenInv'
<1> SUFFICES ASSUME ScreenInv, DirtyAll PROVE ScreenInv'
  OBVIOUS
<1>1. TextInv'
  BY DEF ScreenInv, DirtyAll, TextInv
<1>2. ScreenShape'
  BY WholeBoxes DEF ScreenInv, DirtyAll, ScreenShape, IsBox
<1>3. DrawInv'
  BY CellShape, WholeBoxes DEF ScreenInv, DirtyAll, DrawInv, Windows, IsBox
<1>4. SyncInv'
  BY DEF DirtyAll, SyncInv, CleanInv, AboveInv, RowInv
<1> QED
  BY <1>1, <1>2, <1>3, <1>4 DEF ScreenInv

LEMMA TimeoutScreen == ScreenInv /\ Timeout => ScreenInv'
<1> SUFFICES ASSUME ScreenInv, Timeout PROVE ScreenInv'
  OBVIOUS
<1>0. UNCHANGED <<text, line, screen, dirty, raced, mode, redraws>> /\ pc = "wait" /\ pc' = "next"
  BY DEF Timeout
<1>1. TextInv'
  BY <1>0 DEF ScreenInv, TextInv
<1>2. ScreenShape'
  BY DEF ScreenInv, Timeout, ScreenShape, IsBox
<1>3. DrawInv'
  BY CellShape, WholeBoxes DEF ScreenInv, Timeout, DrawInv, Windows, IsBox
<1>4. SyncInv'
  BY <1>0 DEF ScreenInv, SyncInv, Synced, CleanInv, AboveInv, RowInv, Match, CharAt
<1> QED
  BY <1>1, <1>2, <1>3, <1>4 DEF ScreenInv

LEMMA BeginScreen == ScreenInv /\ Begin => ScreenInv'
<1> SUFFICES ASSUME ScreenInv, Begin PROVE ScreenInv'
  OBVIOUS
<1>0. UNCHANGED <<text, line, screen, dirty, raced, mode, redraws, at>> /\ pc = "next"
  BY DEF Begin
<1>1. TextInv'
  BY <1>0 DEF ScreenInv, TextInv
<1>2. ScreenShape'
  BY <1>0 DEF ScreenInv, ScreenShape, IsBox
<1>a. CleanInv => CleanInv'
  BY <1>0 DEF CleanInv, Match, CharAt
<1>b. Synced' => Synced
  BY <1>0 DEF Synced
<1>3. CASE dirty[win] = {}
  <2>1. /\ rect' = {} /\ row' = 1 /\ col' = 1 /\ win' \in Windows
        /\ pc' \in {"next", "wait"}
    BY <1>3 DEF Begin, Leave, Windows
  <2>2. DrawInv'
    BY <2>1, CellShape, WholeBoxes DEF DrawInv
  <2>3. SyncInv'
    BY <1>a, <1>b, <2>1 DEF ScreenInv, SyncInv, AboveInv, RowInv
  <2> QED
    BY <1>1, <1>2, <2>2, <2>3 DEF ScreenInv
<1>4. CASE dirty[win] # {}
  <2>1. /\ rect' = dirty[win] /\ win' = win /\ col' = col /\ pc' = "line"
        /\ row' = CHOOSE r \in Rows(win) : /\ \E c \in rect' : c[1] = r
                                           /\ \A c \in rect' : r <= c[1]
    BY <1>4 DEF Begin
  <2>2. win \in Windows /\ IsBox(win, dirty[win])
    BY DEF ScreenInv, DrawInv, ScreenShape
  <2>3. /\ row' \in Rows(win) /\ \E c \in rect' : c[1] = row'
        /\ \A c \in rect' : row' <= c[1]
    BY <1>4, <2>1, <2>2, LeastRow
  <2>4. DrawInv'
    BY <2>1, <2>2, <2>3 DEF ScreenInv, DrawInv, IsBox
  <2>5. \A c \in rect' : ~(c[1] < row')
    BY <2>1, <2>2, <2>3, CellShape DEF IsBox
  <2>6. AboveInv' /\ RowInv'
    BY <1>0, <2>1, <2>5 DEF AboveInv, RowInv
  <2> QED
    BY <1>1, <1>2, <1>a, <1>b, <2>4, <2>6 DEF ScreenInv, SyncInv
<1> QED
  BY <1>3, <1>4

LEMMA DrawLineScreen == ScreenInv /\ DrawLine => ScreenInv'
<1> SUFFICES ASSUME ScreenInv, DrawLine PROVE ScreenInv'
  OBVIOUS
<1>0. /\ UNCHANGED <<text, line, dirty, raced, mode, redraws, win, rect, row>>
      /\ pc = "line" /\ pc' = "char" /\ at' = "known"
      /\ screen' = [screen EXCEPT ![win] =
                      [c \in Cells(win) |-> IF c \in rect /\ c[1] = row THEN Blank ELSE @[c]]]
      /\ col' = CHOOSE k \in 1 .. Width : /\ <<row, k>> \in rect
                                          /\ \A c \in rect : k <= c[2]
  BY DEF DrawLine
<1>1. TextInv'
  BY <1>0 DEF ScreenInv, TextInv
<1>2. win \in Windows /\ IsBox(win, rect) /\ \E c \in rect : c[1] = row
  BY <1>0 DEF ScreenInv, DrawInv
<1>3. col' \in 1 .. Width /\ <<row, col'>> \in rect /\ \A c \in rect : col' <= c[2]
  BY <1>0, <1>2, LeastColumn
<1>4. /\ DOMAIN screen' = Windows /\ DOMAIN screen'[win] = Cells(win)
      /\ \A w \in Windows : w # win => screen'[w] = screen[w]
      /\ \A c \in Cells(win) : screen'[win][c] = IF c \in rect /\ c[1] = row THEN Blank
                                                    ELSE screen[win][c]
  BY <1>0, <1>2 DEF ScreenInv, ScreenShape
<1>5. ScreenShape'
  BY <1>0, <1>4 DEF ScreenInv, ScreenShape, IsBox
<1>6. DrawInv'
  <2>1. <<row, col'>>[2] <= col' /\ col' \in 1 .. Width + 1
    BY <1>3, CellShape
  <2> QED
    BY <1>0, <1>2, <1>3, <2>1 DEF ScreenInv, DrawInv, IsBox
<1>7. ASSUME Synced' PROVE CleanInv' /\ AboveInv' /\ RowInv'
  <2>1. Synced /\ CleanInv /\ AboveInv
    BY <1>0, <1>7 DEF ScreenInv, SyncInv, Synced
  <2>2. \A w, c : CharAt(w, c)' = CharAt(w, c)
    BY <1>0 DEF CharAt
  <2>3. win \notin raced => dirty[win] = rect
    BY <1>0, <2>1 DEF AboveInv
  <2>4. CleanInv'
    <3> SUFFICES ASSUME NEW w \in Windows \ raced, NEW c \in Cells(w) \ dirty[w]
                 PROVE  screen'[w][c] = screen[w][c]
      BY <1>0, <2>1, <2>2 DEF CleanInv, Match
    <3> QED
      BY <1>4, <2>3
  <2>5. AboveInv'
    <3> SUFFICES ASSUME win \notin raced, NEW c \in rect, c[1] < row
                 PROVE  screen'[win][c] = screen[win][c]
      BY <1>0, <2>1, <2>2, <2>3 DEF AboveInv, Match
    <3>1. c \in Cells(win) /\ c[1] # row
      BY <1>2, CellShape DEF IsBox, ScreenInv, DrawInv
    <3> QED
      BY <1>4, <3>1
  <2>6. RowInv'
    <3> SUFFICES ASSUME NEW c \in rect, c[1] = row
                 PROVE  ~(c[2] < col') /\ screen'[win][c] = Blank
      BY <1>0 DEF RowInv
    <3>1. c \in Cells(win) /\ col' <= c[2] /\ c[2] \in Int
      BY <1>2, <1>3, CellShape DEF IsBox
    <3> QED
      BY <1>3, <1>4, <3>1
  <2> QED
    BY <2>4, <2>5, <2>6
<1> QED
  BY <1>1, <1>5, <1>6, <1>7 DEF ScreenInv, SyncInv

LEMMA DrawCharScreen == ScreenInv /\ DrawChar => ScreenInv'
<1> SUFFICES ASSUME ScreenInv, DrawChar PROVE ScreenInv'
  OBVIOUS
<1> DEFINE here == <<row, col>>
<1>0. /\ UNCHANGED <<text, line, dirty, raced, mode, redraws, win, rect, row, at, pc>>
      /\ pc = "char" /\ here \in rect /\ col' = col + 1
      /\ screen' = IF at = "known" THEN [screen EXCEPT ![win][here] = CharAt(win, here)]
                                   ELSE screen
  BY DEF DrawChar, MoreChars
<1>1. TextInv'
  BY <1>0 DEF ScreenInv, TextInv
<1>2. /\ win \in Windows /\ IsBox(win, rect) /\ here \in Cells(win)
      /\ row \in Int /\ col \in 1 .. Width /\ here[1] = row /\ here[2] = col
  BY <1>0, CellShape DEF ScreenInv, DrawInv, IsBox
<1>3. /\ DOMAIN screen' = Windows /\ \A w \in Windows : DOMAIN screen'[w] = Cells(w)
      /\ \A w \in Windows : w # win => screen'[w] = screen[w]
      /\ \A c \in Cells(win) : c # here => screen'[win][c] = screen[win][c]
      /\ at = "known" => screen'[win][here] = CharAt(win, here)
  BY <1>0, <1>2 DEF ScreenInv, ScreenShape
<1>4. ScreenShape'
  BY <1>0, <1>3 DEF ScreenInv, ScreenShape, IsBox
<1>5. DrawInv'
  <2>1. col' \in 1 .. Width + 1 /\ \E c \in rect : c[2] <= col'
    BY <1>0, <1>2, CellShape
  <2> QED
    BY <1>0, <2>1 DEF ScreenInv, DrawInv, IsBox
<1>6. ASSUME Synced' PROVE CleanInv' /\ AboveInv' /\ RowInv'
  <2>1. Synced /\ CleanInv /\ AboveInv /\ RowInv
    BY <1>0, <1>6 DEF ScreenInv, SyncInv, Synced
  <2>2. \A w, c : CharAt(w, c)' = CharAt(w, c)
    BY <1>0 DEF CharAt
  <2>3. win \notin raced => dirty[win] = rect
    BY <1>0, <2>1 DEF AboveInv
  <2>4. at = "known"
    BY <1>0, <2>1 DEF RowInv
  <2>5. CleanInv'
    <3> SUFFICES ASSUME NEW w \in Windows \ raced, NEW c \in Cells(w) \ dirty[w]
                 PROVE  screen'[w][c] = screen[w][c]
      BY <1>0, <2>1, <2>2 DEF CleanInv, Match
    <3> QED
      BY <1>0, <1>3, <2>3
  <2>6. AboveInv'
    <3> SUFFICES ASSUME win \notin raced, NEW c \in rect, c[1] < row
                 PROVE  screen'[win][c] = screen[win][c]
      BY <1>0, <2>1, <2>2, <2>3 DEF AboveInv, Match
    <3>1. c \in Cells(win) /\ c # here
      BY <1>2, CellShape DEF IsBox
    <3> QED
      BY <1>3, <3>1
  <2>7. RowInv'
    <3> SUFFICES ASSUME win \notin raced, NEW c \in rect, c[1] = row
                 PROVE  IF c[2] < col' THEN Match(win, c)' ELSE screen'[win][c] = Blank
      BY <1>0, <2>4 DEF RowInv
    <3>1. c \in Cells(win) /\ c = <<row, c[2]>> /\ c[2] \in Int
      BY <1>2, CellShape DEF IsBox
    <3>2. CASE c = here
      <4>1. c[2] < col' /\ screen'[win][c] = CharAt(win, c)
        BY <1>0, <1>2, <1>3, <2>4, <3>2
      <4> QED
        BY <1>0, <2>2, <4>1 DEF Match
    <3>3. CASE c # here
      <4>1. c[2] # col
        BY <3>1, <3>3
      <4>2. c[2] < col' <=> c[2] < col
        BY <1>0, <1>2, <3>1, <4>1
      <4>3. IF c[2] < col THEN Match(win, c) ELSE screen[win][c] = Blank
        BY <1>0, <2>1 DEF RowInv
      <4> QED
        BY <1>0, <1>3, <2>2, <3>1, <3>3, <4>2, <4>3 DEF Match
    <3> QED
      BY <3>2, <3>3
  <2> QED
    BY <2>5, <2>6, <2>7
<1> QED
  BY <1>1, <1>4, <1>5, <1>6 DEF ScreenInv, SyncInv

\* When nothing is left to draw in a row, all of it is shown: behind the
\* rectangle is none of its cells, and behind a NUL only NULs.
LEMMA RowIsDrawn ==
  ASSUME ScreenInv, Synced, pc = "char", ~MoreChars, win \notin raced,
         NEW c \in rect, c[1] = row
  PROVE  Match(win, c)
<1>1. /\ win \in Windows /\ c \in Cells(win) /\ c = <<row, c[2]>> /\ IsBox(win, rect)
      /\ row \in Rows(win) /\ c[2] \in 1 .. Width /\ col \in 1 .. Width + 1
  BY CellShape DEF ScreenInv, DrawInv, IsBox
<1>2. IF c[2] < col THEN Match(win, c) ELSE screen[win][c] = Blank
  BY DEF ScreenInv, SyncInv, RowInv
<1>3. CASE c[2] < col
  BY <1>2, <1>3
<1>4. CASE col <= c[2]
  <2>0. col \in 1 .. Width /\ <<row, col>> \in Cells(win)
    BY <1>1, <1>4, CellShape
  <2>1. <<row, col>> \in rect
    <3>1. PICK a \in rect : a[2] <= col
      BY DEF ScreenInv, DrawInv
    <3> DEFINE here == <<row, col>>
    <3>2. /\ here[1] = row /\ here[2] = col /\ row <= row
          /\ c[1] <= here[1] /\ here[1] <= c[1] /\ a[2] <= here[2] /\ here[2] <= c[2]
      BY <1>1, <1>4, <3>1, CellShape
    <3> QED
      BY <1>1, <2>0, <3>1, <3>2 DEF IsBox
  <2>2. CharAt(win, <<row, col>>) = Blank
    BY <2>1 DEF MoreChars
  <2>3. /\ text[win][row] \in Seq(Chars) /\ Len(text[win][row]) \in Nat
    BY <1>1, LenProperties DEF ScreenInv, TextInv, IsRow
  <2>4. ~(col <= Len(text[win][row]))
    <3> SUFFICES ASSUME col <= Len(text[win][row]) PROVE FALSE
      OBVIOUS
    <3>1. text[win][row][col] \in Chars
      BY <2>0, <2>3, ElementOfSeq
    <3> QED
      BY <2>2, <3>1 DEF CharAt, Chars
  <2>5. CharAt(win, c) = Blank
    BY <1>1, <1>4, <2>0, <2>3, <2>4 DEF CharAt
  <2>6. ~(c[2] < col)
    BY <1>1, <1>4
  <2> QED
    BY <1>2, <2>5, <2>6 DEF Match
<1> QED
  BY <1>1, <1>3, <1>4

LEMMA EndLineScreen == ScreenInv /\ EndLine => ScreenInv'
<1> SUFFICES ASSUME ScreenInv, EndLine PROVE ScreenInv'
  OBVIOUS
<1>0. /\ UNCHANGED <<text, line, screen, raced, mode, redraws, at>>
      /\ pc = "char" /\ ~MoreChars
  BY DEF EndLine
<1>1. TextInv'
  BY <1>0 DEF ScreenInv, TextInv
<1>2. /\ win \in Windows /\ IsBox(win, rect) /\ row \in Rows(win)
      /\ \E c \in rect : c[1] = row
      /\ \A c \in rect : c \in Cells(win) /\ c[1] \in Rows(win) /\ c[1] \in Int /\ row \in Int
  BY <1>0, CellShape DEF ScreenInv, DrawInv, IsBox
<1>3. \A w, c : Match(w, c)' = Match(w, c)
  BY <1>0 DEF Match, CharAt
<1>4. ASSUME Synced, win \notin raced, NEW c \in rect, c[1] <= row PROVE Match(win, c)
  <2>1. c[1] < row \/ c[1] = row
    BY <1>2, <1>4
  <2>2. c[1] < row => Match(win, c)
    BY <1>0, <1>4 DEF ScreenInv, SyncInv, AboveInv
  <2> QED
    BY <1>0, <1>4, <2>1, <2>2, RowIsDrawn
<1>5. Synced' => Synced
  BY <1>0 DEF Synced
<1>6. CASE \E c \in rect : c[1] > row
  <2>1. row' = row + 1 /\ pc' = "line" /\ UNCHANGED <<dirty, win, rect, col>>
    BY <1>6 DEF EndLine
  <2>2. ScreenShape'
    BY <1>0, <2>1 DEF ScreenInv, ScreenShape, IsBox
  <2>3. row' \in Rows(win) /\ \E c \in rect : c[1] = row'
    <3>1. PICK c \in rect : c[1] > row
      BY <1>6
    <3>2. PICK a \in rect : a[1] = row
      BY <1>2
    <3>3. row + 1 \in Rows(win)
      BY <1>2, <3>1, CellShape
    <3> DEFINE d == <<row + 1, c[2]>>
    <3>4. d \in Cells(win) /\ d[1] = row + 1 /\ d[2] = c[2]
      BY <1>2, <3>3, CellShape
    <3>5. /\ a[1] <= d[1] /\ d[1] <= c[1]
          /\ c[2] <= d[2] /\ d[2] <= c[2]
      BY <1>2, <3>1, <3>2, <3>4, CellShape
    <3>6. d \in rect
      BY <1>2, <3>4, <3>5 DEF IsBox
    <3> QED
      BY <2>1, <3>3, <3>4, <3>6
  <2>4. DrawInv'
    BY <2>1, <2>3 DEF ScreenInv, DrawInv, IsBox
  <2>5. Synced' => CleanInv' /\ AboveInv' /\ RowInv'
    <3> SUFFICES ASSUME Synced' PROVE CleanInv' /\ AboveInv' /\ RowInv'
      OBVIOUS
    <3>1. CleanInv /\ AboveInv
      BY <1>5 DEF ScreenInv, SyncInv
    <3>2. CleanInv'
      BY <1>0, <1>3, <2>1, <3>1 DEF CleanInv
    <3>3. \A c \in rect : c[1] < row' => c[1] <= row
      BY <1>2, <2>1
    <3>4. AboveInv'
      BY <1>0, <1>3, <1>4, <1>5, <2>1, <3>1, <3>3 DEF AboveInv
    <3> QED
      BY <2>1, <3>2, <3>4 DEF RowInv
  <2> QED
    BY <1>1, <2>2, <2>4, <2>5 DEF ScreenInv, SyncInv
<1>7. CASE ~ \E c \in rect : c[1] > row
  <2>1. Leave /\ dirty' = [dirty EXCEPT ![win] = {}]
    BY <1>7 DEF EndLine
  <2>2. /\ rect' = {} /\ row' = 1 /\ col' = 1 /\ win' \in Windows
        /\ pc' \in {"next", "wait"}
    BY <2>1 DEF Leave, Windows
  <2>3. ScreenShape'
    BY <1>0, <1>2, <2>1, WholeBoxes DEF ScreenInv, ScreenShape, IsBox
  <2>4. DrawInv'
    BY <2>2, CellShape, WholeBoxes DEF DrawInv
  <2>5. Synced' => CleanInv'
    <3> SUFFICES ASSUME Synced', NEW w \in Windows \ raced, NEW c \in Cells(w) \ dirty'[w]
                 PROVE  Match(w, c)
      BY <1>0, <1>3 DEF CleanInv
    <3>1. CleanInv /\ AboveInv
      BY <1>5 DEF ScreenInv, SyncInv
    <3>2. CASE c \notin dirty[w]
      BY <3>1, <3>2 DEF CleanInv
    <3>3. CASE c \in dirty[w]
      <4>1. w = win
        BY <2>1, <3>3 DEF ScreenInv, ScreenShape
      <4>2. c \in rect /\ c[1] <= row
        BY <1>0, <1>2, <1>7, <3>1, <3>3, <4>1 DEF AboveInv
      <4> QED
        BY <1>4, <1>5, <4>1, <4>2
    <3> QED
      BY <3>2, <3>3
  <2> QED
    BY <1>1, <2>2, <2>3, <2>4, <2>5 DEF ScreenInv, SyncInv, AboveInv, RowInv
<1> QED
  BY <1>6, <1>7

LEMMA DrawNothingScreen == ScreenInv /\ DrawNothing => ScreenInv'
<1> SUFFICES ASSUME ScreenInv, DrawNothing PROVE ScreenInv'
  OBVIOUS
<1>1. TextInv'
  BY DEF ScreenInv, DrawNothing, TextInv
<1>2. ScreenShape'
  BY WholeBoxes DEF ScreenInv, DrawNothing, ScreenShape, IsBox
<1>3. DrawInv'
  BY CellShape, WholeBoxes DEF DrawNothing, DrawInv, Windows
<1>4. SyncInv'
  BY DEF DrawNothing, SyncInv, Synced
<1> QED
  BY <1>1, <1>2, <1>3, <1>4 DEF ScreenInv

LEMMA RefreshScreen == ScreenInv /\ Refresh => ScreenInv'
BY ReceiveRedrawScreen, DirtyAllScreen, TimeoutScreen, BeginScreen, DrawLineScreen,
   DrawCharScreen, EndLineScreen, DrawNothingScreen DEF Refresh

\* The other threads' steps.  A write marks every cell it changes.
GoodWrite(w, new) ==
  /\ DOMAIN new.text = Rows(w) /\ \A r \in Rows(w) : IsRow(new.text[r])
  /\ new.cells \subseteq Cells(w)
  /\ \A c \in Cells(w) \ new.cells : CharIn(new.text, c) = CharAt(w, c)
BelowIsEmpty(t, cursor) ==
  cursor \in 1 .. Height /\ \A r \in Rows("output") : cursor <= r => t[r] = <<>>

LEMMA ChangeScreen ==
  ASSUME ScreenInv, NEW new, Change(new), \A w \in DOMAIN new : GoodWrite(w, new[w]),
         DOMAIN new \subseteq Windows, BelowIsEmpty(text'["output"], line'),
         UNCHANGED refresh
  PROVE  /\ TextInv' /\ DrawInv'
         /\ UNCHANGED <<mode, redraws, screen, at>> => ScreenInv'
<1>1. TextInv'
  <2>1. \A w \in Windows : DOMAIN text'[w] = Rows(w) /\ \A r \in Rows(w) : IsRow(text'[w][r])
    BY DEF Change, GoodWrite, ScreenInv, TextInv
  <2> QED
    BY <2>1 DEF TextInv, BelowIsEmpty
<1>2. DrawInv'
  BY DEF ScreenInv, DrawInv, refresh, IsBox
<1>3. ASSUME UNCHANGED <<mode, redraws, screen, at>> PROVE ScreenInv'
  <2>1. ASSUME NEW w \in Windows
        PROVE  IsBox(w, dirty'[w]) /\ dirty[w] \subseteq dirty'[w]
    <3>1. CASE w \in DOMAIN new
      <4>1. dirty'[w] = Hull(w, dirty[w], new[w].cells)
        BY <3>1 DEF Change
      <4>2. dirty[w] \subseteq Cells(w) /\ new[w].cells \subseteq Cells(w)
        BY <3>1 DEF ScreenInv, ScreenShape, IsBox, GoodWrite
      <4> QED
        BY <4>1, <4>2, HullIsBox
    <3>2. CASE w \notin DOMAIN new
      BY <3>2 DEF Change, ScreenInv, ScreenShape
    <3> QED
      BY <3>1, <3>2
  <2>2. ScreenShape'
    <3>1. DOMAIN dirty' = Windows /\ raced' \subseteq Windows
      BY DEF Change, ScreenInv, ScreenShape
    <3> QED
      BY <1>3, <2>1, <3>1 DEF ScreenInv, ScreenShape, IsBox
  <2>3. ASSUME Synced' PROVE CleanInv' /\ AboveInv' /\ RowInv'
    <3>0. Synced /\ CleanInv /\ AboveInv /\ RowInv /\ raced \subseteq raced'
      BY <1>3, <2>3 DEF ScreenInv, SyncInv, Synced, refresh, Change
    <3>1. CleanInv'
      <4> SUFFICES ASSUME NEW w \in Windows \ raced', NEW c \in Cells(w) \ dirty'[w]
                   PROVE  screen[w][c] = CharAt(w, c)'
        BY <1>3 DEF CleanInv, Match
      <4>1. screen[w][c] = CharAt(w, c)
        BY <2>1, <3>0 DEF CleanInv, Match
      <4>2. CASE w \in DOMAIN new
        <5>1. text'[w] = new[w].text
          BY <4>2 DEF Change
        <5>2. c \notin new[w].cells
          <6>1. dirty'[w] = Hull(w, dirty[w], new[w].cells)
            BY <4>2 DEF Change
          <6>2. dirty[w] \subseteq Cells(w) /\ new[w].cells \subseteq Cells(w)
            BY <4>2 DEF ScreenInv, ScreenShape, IsBox, GoodWrite
          <6> QED
            BY <6>1, <6>2, HullIsBox
        <5>3. CharIn(new[w].text, c) = CharAt(w, c)
          BY <4>2, <5>2 DEF GoodWrite
        <5> QED
          BY <4>1, <5>1, <5>3 DEF CharIn, CharAt
      <4>3. CASE w \notin DOMAIN new
        BY <4>1, <4>3 DEF Change, CharAt
      <4> QED
        BY <4>2, <4>3
    <3>2. ASSUME pc \in {"line", "char"}, win \notin raced'
          PROVE  /\ win \notin raced /\ dirty'[win] = dirty[win]
                 /\ \A c : CharAt(win, c)' = CharAt(win, c)
      <4>1. win \notin raced /\ win \notin DOMAIN new
        BY <3>2 DEF Change, Drawing
      <4>2. text'[win] = text[win] /\ dirty'[win] = dirty[win] /\ win' = win
        BY <4>1 DEF Change, ScreenInv, DrawInv, refresh
      <4> QED
        BY <4>1, <4>2 DEF CharAt
    <3>3. AboveInv'
      BY <1>3, <3>0, <3>2 DEF AboveInv, Match, refresh
    <3>4. RowInv'
      BY <1>3, <3>0, <3>2 DEF RowInv, Match, refresh
    <3> QED
      BY <3>1, <3>3, <3>4
  <2> QED
    BY <1>1, <1>2, <2>2, <2>3 DEF ScreenInv, SyncInv
<1> QED
  BY <1>1, <1>2, <1>3

LEMMA GoodLine ==
  ASSUME ScreenInv, NEW t \in Seq(Chars)
  PROVE  GoodWrite("output", WithLine(t)) /\ BelowIsEmpty(WithLine(t).text, NextLine)
<1> DEFINE cut == SubSeq(t, 1, IF Len(t) < Width THEN Len(t) ELSE Width)
           filled == [text["output"] EXCEPT ![line] = cut]
           moved == [r \in Rows("output") |-> IF r < Height THEN filled[r + 1] ELSE <<>>]
<1>0. /\ "output" \in Windows /\ Rows("output") = 1 .. Height /\ Height \in Nat
      /\ Width \in Nat /\ Height >= 2 /\ line \in 1 .. Height
      /\ DOMAIN text["output"] = 1 .. Height
      /\ \A r \in 1 .. Height : IsRow(text["output"][r])
      /\ \A r \in 1 .. Height : line <= r => text["output"][r] = <<>>
  BY ScreenAssumption DEF Windows, Rows, ScreenInv, TextInv
<1>1. IsRow(cut) /\ IsRow(<<>>) /\ Len(<<>>) = 0 /\ DOMAIN cut = 1 .. Len(cut) /\ Len(cut) \in Nat
  <2>1. Len(t) \in Nat
    BY LenProperties
  <2>2. cut \in Seq(Chars) /\ Len(cut) <= Width
    BY <1>0, <2>1, SubSeqProperties
  <2> QED
    BY <1>0, <2>2, EmptySeq, LenProperties DEF IsRow
<1> HIDE DEF cut
<1>2. /\ DOMAIN filled = 1 .. Height /\ filled[line] = cut
      /\ \A r \in 1 .. Height : r # line => filled[r] = text["output"][r]
      /\ \A r \in 1 .. Height : IsRow(filled[r])
  BY <1>0, <1>1
<1> HIDE DEF filled
<1>3. CASE line < Height
  <2> DEFINE new == [text |-> filled, cells |-> {<<line, c>> : c \in DOMAIN cut}]
  <2>1. WithLine(t) = new /\ NextLine = line + 1
    BY <1>3 DEF WithLine, NextLine, cut, filled
  <2>2. new.cells \subseteq Cells("output")
    <3>1. \A c \in DOMAIN cut : c \in 1 .. Width
      BY <1>0, <1>1 DEF IsRow
    <3> QED
      BY <1>0, <3>1, CellShape
  <2>3. ASSUME NEW c \in Cells("output") \ new.cells
        PROVE  CharIn(filled, c) = CharAt("output", c)
    <3>1. c = <<c[1], c[2]>> /\ c[1] \in 1 .. Height /\ c[2] \in 1 .. Width
      BY <1>0, CellShape
    <3>2. CASE c[1] = line
      <4>1. c[2] \notin DOMAIN cut
        BY <2>3, <3>1, <3>2
      <4>2. ~(c[2] <= Len(cut)) /\ ~(c[2] <= 0)
        BY <1>1, <3>1, <4>1
      <4>3. text["output"][line] = <<>>
        BY <1>0
      <4> QED
        BY <1>1, <1>2, <3>2, <4>2, <4>3 DEF CharIn, CharAt
    <3>3. CASE c[1] # line
      BY <1>2, <3>1, <3>3 DEF CharIn, CharAt
    <3> QED
      BY <3>2, <3>3
  <2>4. BelowIsEmpty(filled, line + 1)
    BY <1>0, <1>2, <1>3 DEF BelowIsEmpty
  <2> QED
    BY <1>0, <1>2, <2>1, <2>2, <2>3, <2>4 DEF GoodWrite
<1>4. CASE ~(line < Height)
  <2>1. WithLine(t) = [text |-> moved, cells |-> Cells("output")] /\ NextLine = line
    BY <1>4 DEF WithLine, NextLine, cut, filled
  <2>2. DOMAIN moved = 1 .. Height /\ \A r \in 1 .. Height : IsRow(moved[r])
    BY <1>0, <1>1, <1>2
  <2>3. BelowIsEmpty(moved, line)
    BY <1>0, <1>4 DEF BelowIsEmpty
  <2> HIDE DEF moved
  <2>4. GoodWrite("output", [text |-> moved, cells |-> Cells("output")])
    BY <1>0, <2>2 DEF GoodWrite
  <2> QED
    BY <2>1, <2>3, <2>4
<1> QED
  BY <1>3, <1>4

LEMMA LineScreen ==
  ASSUME ScreenInv, NEW t \in Seq(Chars), Change(InOutput(WithLine(t))), line' = NextLine,
         UNCHANGED refresh
  PROVE  /\ TextInv' /\ DrawInv'
         /\ UNCHANGED <<mode, redraws, screen, at>> => ScreenInv'
<1> DEFINE new == InOutput(WithLine(t))
<1>1. DOMAIN new = {"output"} /\ new["output"] = WithLine(t)
  BY DEF InOutput
<1>2. GoodWrite("output", WithLine(t)) /\ BelowIsEmpty(WithLine(t).text, NextLine)
  BY GoodLine
<1> HIDE DEF new
<1>3. Change(new)
  BY DEF new
<1>4. text'["output"] = WithLine(t).text
  BY <1>1, <1>3 DEF Change, Windows
<1> QED
  BY <1>1, <1>2, <1>3, <1>4, ChangeScreen DEF Windows

LEMMA ClearScreen ==
  ASSUME ScreenInv, Change(InOutput(Cleared("output"))),
         UNCHANGED <<line, refresh, mode, redraws, screen, at>>
  PROVE  ScreenInv'
<1> DEFINE new == InOutput(Cleared("output"))
           blank == [r \in Rows("output") |-> <<>>]
<1>1. /\ DOMAIN new = {"output"}
      /\ new["output"] = [text |-> blank, cells |-> Cells("output")]
  BY DEF InOutput, Cleared
<1>2. IsRow(<<>>)
  BY EmptySeq, CellShape DEF IsRow
<1>3. GoodWrite("output", [text |-> blank, cells |-> Cells("output")])
  BY <1>2 DEF GoodWrite
<1>4. BelowIsEmpty(blank, line)
  BY DEF BelowIsEmpty, ScreenInv, TextInv
<1> HIDE DEF new, blank
<1>5. Change(new)
  BY DEF new
<1>6. text'["output"] = blank
  BY <1>1, <1>5 DEF Change, Windows
<1> QED
  BY <1>1, <1>3, <1>4, <1>5, <1>6, ChangeScreen DEF Windows

LEMMA FieldRow ==
  ASSUME ScreenInv
  PROVE  IsRow(field) /\ Len(field) \in Nat /\ Len(field) <= Width /\ field \in Seq(Chars)
<1>1. IsRow(field)
  BY DEF ScreenInv, TextInv, field, Windows, Rows
<1> QED
  BY <1>1, LenProperties DEF IsRow

\* A new input line, with the cells marked that differ.
LEMMA GoodField ==
  ASSUME ScreenInv, NEW t, IsRow(t), NEW cells \in SUBSET Cells("input"),
         \A k \in 1 .. Width : <<1, k>> \notin cells =>
           (IF k <= Len(t) THEN t[k] ELSE Blank) = (IF k <= Len(field) THEN field[k] ELSE Blank)
  PROVE  GoodWrite("input", Field(t, cells))
<1>1. /\ Field(t, cells).text = <<t>> /\ Field(t, cells).cells = cells
      /\ DOMAIN <<t>> = Rows("input") /\ <<t>>[1] = t /\ Rows("input") = {1}
  BY DEF Field, Rows
<1>2. ASSUME NEW c \in Cells("input") \ cells PROVE CharIn(<<t>>, c) = CharAt("input", c)
  <2>1. c = <<1, c[2]>> /\ c[1] = 1 /\ c[2] \in 1 .. Width
    BY CellShape DEF Windows, Rows
  <2>2. (IF c[2] <= Len(t) THEN t[c[2]] ELSE Blank)
          = (IF c[2] <= Len(field) THEN field[c[2]] ELSE Blank)
    BY <2>1
  <2> QED
    BY <1>1, <2>1, <2>2 DEF CharIn, CharAt, field
<1> QED
  BY <1>1, <1>2 DEF GoodWrite

LEMMA FieldScreen ==
  ASSUME ScreenInv, NEW t, NEW cells, GoodWrite("input", Field(t, cells)),
         Change(InInput(Field(t, cells))), UNCHANGED <<line, refresh, mode, redraws, screen, at>>
  PROVE  ScreenInv'
<1> DEFINE new == InInput(Field(t, cells))
<1>1. DOMAIN new = {"input"} /\ new["input"] = Field(t, cells)
  BY DEF InInput
<1> HIDE DEF new
<1>2. Change(new)
  BY DEF new
<1>3. text'["output"] = text["output"]
  BY <1>1, <1>2 DEF Change, Windows
<1>4. BelowIsEmpty(text'["output"], line')
  BY <1>3 DEF BelowIsEmpty, ScreenInv, TextInv
<1> QED
  BY <1>1, <1>2, <1>4, ChangeScreen DEF Windows

LEMMA SameScreen ==
  ASSUME ScreenInv, UNCHANGED <<text, line, dirty, raced, refresh, mode, redraws, screen, at>>
  PROVE  ScreenInv'
<1>1. TextInv'
  BY DEF ScreenInv, TextInv
<1>2. ScreenShape' /\ DrawInv'
  BY DEF ScreenInv, ScreenShape, DrawInv, IsBox, refresh
<1>3. SyncInv'
  BY DEF ScreenInv, SyncInv, Synced, CleanInv, AboveInv, RowInv, Match, CharAt, refresh
<1> QED
  BY <1>1, <1>2, <1>3 DEF ScreenInv

LEMMA ShownText == \A keys \in Seq(Numbers) : Printed(keys) \in Seq(Chars)
<1> TAKE keys \in Seq(Numbers)
<1>1. Numbers \subseteq Chars
  BY DEF Numbers, Chars, Blank
<1>2. keys \in Seq(Chars)
  BY <1>1, SeqMonotonic
<1> QED
  BY <1>2, PrintedType

LEMMA OnInputScreen ==
  ASSUME ScreenInv, NEW k \in Numbers, field \in Seq(Numbers), OnInput(k),
         UNCHANGED <<refresh, mode, redraws, screen, at>>
  PROVE  ScreenInv'
<1>0. "nl" \notin Printables /\ "bs" \notin Printables
  BY DEF Printables, Letters
<1>1. IsRow(field) /\ Len(field) \in Nat /\ Len(field) <= Width /\ field \in Seq(Chars)
  BY FieldRow
<1>2. GoodWrite("input", Field(<<>>, Cells("input")))
  <2>1. IsRow(<<>>) /\ \A n \in 1 .. Width : <<1, n>> \in Cells("input")
    BY EmptySeq, CellShape DEF IsRow, Windows
  <2>2. Cells("input") \in SUBSET Cells("input")
    OBVIOUS
  <2> HIDE DEF Cells
  <2> QED
    BY <2>1, <2>2, GoodField
<1>5. CASE script[k] = "nl" /\ field # <<>>
  <2> DEFINE new == [w \in Windows |-> IF w = "output" THEN Shown(field)
                                                    ELSE Field(<<>>, Cells("input"))]
  <2>1. Change(new) /\ line' = NextLine
    BY <1>0, <1>5 DEF OnInput
  <2>2. GoodWrite("output", Shown(field)) /\ BelowIsEmpty(Shown(field).text, NextLine)
    BY ShownText, GoodLine DEF Shown
  <2>3. /\ DOMAIN new = Windows /\ new["output"] = Shown(field)
        /\ \A w \in DOMAIN new : GoodWrite(w, new[w])
    BY <1>2, <2>2 DEF Windows
  <2> HIDE DEF new
  <2>4. text'["output"] = Shown(field).text
    BY <2>1, <2>3 DEF Change, Windows
  <2> QED
    BY <2>1, <2>2, <2>3, <2>4, ChangeScreen
<1>6. CASE script[k] = "nl" /\ field = <<>>
  <2>1. Change(InInput(Field(<<>>, Cells("input")))) /\ line' = line
    BY <1>0, <1>6 DEF OnInput
  <2> QED
    BY <1>2, <2>1, FieldScreen
<1>7. CASE script[k] = "bs" /\ field # <<>>
  <2> DEFINE t == SubSeq(field, 1, Len(field) - 1)
             cells == {<<1, Len(field)>>}
  <2>1. Change(InInput(Field(t, cells))) /\ line' = line
    BY <1>0, <1>7 DEF OnInput
  <2>2. /\ t \in Seq(Chars) /\ Len(t) = Len(field) - 1 /\ Len(field) # 0
        /\ \A i \in 1 .. Len(t) : t[i] = field[i]
    <3>1. Len(field) # 0
      BY <1>1, <1>7, EmptySeq
    <3> DEFINE n == Len(field) - 1
    <3>2. 1 \in Int /\ n \in Nat /\ \A i \in 1 .. n : field[i] \in Chars
      BY <1>1, <3>1, ElementOfSeq
    <3> HIDE DEF n
    <3>3. /\ SubSeq(field, 1, n) \in Seq(Chars) /\ Len(SubSeq(field, 1, n)) = n
          /\ \A i \in 1 .. n : SubSeq(field, 1, n)[i] = field[i]
      BY <3>2, SubSeqProperties
    <3> USE DEF n
    <3> QED
      BY <3>1, <3>3
  <2>3. IsRow(t)
    BY <1>1, <2>2, CellShape DEF IsRow
  <2>4. cells \in SUBSET Cells("input")
    BY <1>1, <2>2, CellShape DEF Windows
  <2>5. ASSUME NEW n \in 1 .. Width, <<1, n>> \notin cells
        PROVE  (IF n <= Len(t) THEN t[n] ELSE Blank) = (IF n <= Len(field) THEN field[n] ELSE Blank)
    <3>1. n # Len(field)
      BY <2>5
    <3>2. n <= Len(t) <=> n <= Len(field)
      BY <1>1, <2>2, <3>1
    <3> QED
      BY <1>1, <2>2, <3>2
  <2> HIDE DEF t, cells
  <2>6. GoodWrite("input", Field(t, cells))
    BY <2>3, <2>4, <2>5, GoodField
  <2> QED
    BY <2>1, <2>6, FieldScreen
<1>8. CASE script[k] \in Printables /\ Fits(field)
  <2> DEFINE t == Append(field, k)
             cells == {<<1, Len(field) + 1>>}
  <2>1. Change(InInput(Field(t, cells))) /\ line' = line
    BY <1>0, <1>8 DEF OnInput
  <2>2. /\ t \in Seq(Chars) /\ Len(t) = Len(field) + 1 /\ Len(field) < Width
        /\ \A i \in 1 .. Len(field) : t[i] = field[i]
    <3>1. k \in Chars
      BY DEF Numbers, Chars, Blank
    <3> QED
      BY <1>1, <1>8, <3>1, AppendProperties DEF Fits
  <2>3. IsRow(t)
    BY <1>1, <2>2, CellShape DEF IsRow
  <2>4. cells \in SUBSET Cells("input")
    BY <1>1, <2>2, CellShape DEF Windows
  <2>5. ASSUME NEW n \in 1 .. Width, <<1, n>> \notin cells
        PROVE  (IF n <= Len(t) THEN t[n] ELSE Blank) = (IF n <= Len(field) THEN field[n] ELSE Blank)
    <3>1. n # Len(field) + 1
      BY <2>5
    <3>2. n <= Len(t) <=> n <= Len(field)
      BY <1>1, <2>2, <3>1
    <3> QED
      BY <1>1, <2>2, <3>2
  <2> HIDE DEF t, cells
  <2>6. GoodWrite("input", Field(t, cells))
    BY <2>3, <2>4, <2>5, GoodField
  <2> QED
    BY <2>1, <2>6, FieldScreen
<1>9. CASE /\ ~(script[k] = "nl" /\ field # <<>>) /\ ~(script[k] = "nl" /\ field = <<>>)
           /\ ~(script[k] = "bs" /\ field # <<>>) /\ ~(script[k] \in Printables /\ Fits(field))
  <2>1. Silent
    BY <1>9 DEF OnInput
  <2> QED
    BY <2>1, SameScreen DEF Silent
<1> QED
  BY <1>5, <1>6, <1>7, <1>8, <1>9

-----------------------------------------------------------------------------
(* The console as a whole.                                                 *)

RestInv ==
  /\ script \in Seq(Symbols) /\ typed <= Len(script)
  /\ frame \in Seq(Numbers) /\ \A i \in 1 .. Len(frame) : frame[i] <= typed
  /\ vt \in {"GROUND", "ESC", "CSI", "DLE", "TEXT"} /\ saved \in {"GROUND", "TEXT"}
  /\ taken \in 0 .. Len(pushed)
  /\ main \in {"idle", "answer"} /\ answer \in {<<>>, Ok, Error}
  /\ redraws <= (IF main = "idle" THEN CmdQueueLen ELSE CmdQueueLen + 1)
ConsoleInv == OrderInv /\ ScreenInv /\ RestInv

LEMMA Lines == \A t \in {<<>>, Ok, Error, Report} : t \in Seq(Chars)
<1>1. \A a, b \in Chars : <<a, b>> \in Seq(Chars)
  OBVIOUS
<1>2. -2 \in Chars /\ -3 \in Chars /\ -4 \in Chars /\ -5 \in Chars /\ -6 \in Chars /\ -7 \in Chars
  BY DEF Chars, Blank
<1>3. Ok \in Seq(Chars) /\ Error \in Seq(Chars) /\ Report \in Seq(Chars)
  BY <1>1, <1>2 DEF Ok, Error, Report
<1> QED
  BY <1>3, EmptySeq

LEMMA RawGetsScreen == ScreenInv /\ HeldType /\ RawGets => ScreenInv'
<1> SUFFICES ASSUME ScreenInv, HeldType, RawGets PROVE ScreenInv'
  OBVIOUS
<1>1. UNCHANGED <<refresh, mode, redraws, screen, at>>
  BY DEF RawGets, Idle
<1>2. CASE mode = "RAW" /\ script[Head(rawq)] = "nl"
  <2>1. Change(InOutput(WithLine(Printed(rawbuf)))) /\ line' = NextLine
    BY <1>2 DEF RawGets, Shown
  <2> QED
    BY <1>1, <2>1, ShownText, LineScreen DEF HeldType
<1>3. CASE ~(mode = "RAW" /\ script[Head(rawq)] = "nl")
  BY <1>1, <1>3, SameScreen DEF RawGets
<1> QED
  BY <1>2, <1>3

LEMMA CookedGetsScreen ==
  ASSUME ScreenInv, HeldType, CookedGets, Head(cookq) \in Numbers
  PROVE  ScreenInv'
<1> DEFINE k == Head(cookq)
<1>1. UNCHANGED <<refresh, mode, redraws, screen, at>>
  BY DEF CookedGets, Idle
<1>2. Silent => ScreenInv'
  BY <1>1, SameScreen DEF Silent
<1>3. CASE mode = "COOKED"
  <2>0. Process(k)
    BY <1>3 DEF CookedGets
  <2>1. CASE Silent
    BY <1>2, <2>1
  <2>2. CASE OnInput(k)
    BY <1>1, <2>2, OnInputScreen DEF HeldType
  <2>3. CASE Change(InOutput(WithLine(Report))) /\ line' = NextLine
    BY <1>1, <2>3, Lines, LineScreen
  <2>4. CASE Live /\ Change(InOutput(Shown(frame))) /\ line' = NextLine
    BY <1>1, <2>4, ShownText, LineScreen DEF HeldType, Shown
  <2> QED
    <3>1. CASE vt = "GROUND"
      BY <2>0, <2>1, <2>2, <3>1 DEF Process
    <3>2. CASE vt = "ESC"
      BY <2>0, <2>1, <3>2 DEF Process
    <3>3. CASE vt = "CSI"
      BY <2>0, <2>1, <2>3, <3>3 DEF Process
    <3>4. CASE vt = "DLE"
      BY <2>0, <2>1, <2>4, <3>4 DEF Process, Live
    <3>5. CASE vt = "TEXT"
      BY <2>0, <2>1, <3>5 DEF Process
    <3> QED
      BY <2>0, <3>1, <3>2, <3>3, <3>4, <3>5 DEF Process
<1>4. CASE mode # "COOKED"
  BY <1>2, <1>4 DEF CookedGets
<1> QED
  BY <1>3, <1>4

LEMMA TakeScreen == ScreenInv /\ Take => ScreenInv'
<1> SUFFICES ASSUME ScreenInv, Take PROVE ScreenInv'
  OBVIOUS
<1>0. UNCHANGED <<line, refresh, screen, at>>
  BY DEF Take, refresh
<1>1. CASE Change(InOutput(Cleared("output"))) /\ UNCHANGED <<mode, redraws>>
  BY <1>0, <1>1, ClearScreen
<1>2. CASE Unwritten /\ UNCHANGED <<mode, redraws>>
  BY <1>0, <1>2, SameScreen DEF Unwritten
<1>3. ASSUME Unwritten, mode' \in {"RAW", "COOKED"}, redraws' \in Nat, ~Synced' PROVE ScreenInv'
  <2>1. TextInv'
    BY <1>0, <1>3 DEF ScreenInv, TextInv, Unwritten
  <2>2. ScreenShape' /\ DrawInv'
    BY <1>0, <1>3 DEF ScreenInv, ScreenShape, DrawInv, IsBox, refresh, Unwritten
  <2> QED
    BY <1>3, <2>1, <2>2 DEF ScreenInv, SyncInv
<1>4. redraws \in Nat /\ redraws + 1 \in Nat /\ redraws + 1 # 0
  BY DEF ScreenInv, ScreenShape
<1>5. CASE SetMode("RAW") /\ Unwritten
  <2>1. mode' = "RAW" /\ redraws' = redraws
    BY <1>5 DEF SetMode
  <2> QED
    BY <1>3, <1>4, <1>5, <2>1 DEF Synced
<1>6. CASE SetMode("COOKED") /\ Unwritten
  <2>1. CASE mode = "COOKED"
    BY <1>2, <1>6, <2>1 DEF SetMode
  <2>2. CASE mode # "COOKED"
    BY <1>3, <1>4, <1>6, <2>2 DEF SetMode, SendRedraw, Synced
  <2> QED
    BY <2>1, <2>2
<1>7. CASE SendRedraw /\ Unwritten /\ UNCHANGED mode
  BY <1>3, <1>4, <1>7 DEF SendRedraw, Synced, ScreenInv, ScreenShape
<1> QED
  BY <1>1, <1>2, <1>5, <1>6, <1>7 DEF Take

LEMMA AnswerScreen == ScreenInv /\ RestInv /\ Answer => ScreenInv'
<1> SUFFICES ASSUME ScreenInv, RestInv, Answer PROVE ScreenInv'
  OBVIOUS
<1>1. /\ answer \in Seq(Chars) /\ Change(InOutput(WithLine(answer))) /\ line' = NextLine
      /\ UNCHANGED <<mode, redraws, refresh>>
  BY Lines DEF Answer, RestInv
<1>2. /\ TextInv' /\ DrawInv'
      /\ UNCHANGED <<mode, redraws, screen, at>> => ScreenInv'
  BY <1>1, LineScreen
<1>3. CASE mode = "RAW"
  <2>1. ~Synced'
    BY <1>1, <1>3 DEF Synced
  <2>2. ScreenShape'
    <3>1. /\ DOMAIN screen' = Windows /\ \A w \in Windows : DOMAIN screen'[w] = Cells(w)
          /\ at' = "lost"
      BY <1>3 DEF Answer
    <3>2. /\ DOMAIN dirty' = Windows /\ raced' \subseteq Windows
      BY <1>1 DEF Change, InOutput, Windows, ScreenInv, ScreenShape
    <3>3. ASSUME NEW w \in Windows PROVE IsBox(w, dirty'[w])
      <4>1. CASE w = "output"
        <5>1. dirty'[w] = Hull(w, dirty[w], WithLine(answer).cells)
          BY <1>1, <4>1 DEF Change, InOutput
        <5>2. WithLine(answer).cells \subseteq Cells(w) /\ dirty[w] \subseteq Cells(w)
          BY <1>1, <4>1, GoodLine DEF GoodWrite, ScreenInv, ScreenShape, IsBox
        <5> QED
          BY <5>1, <5>2, HullIsBox
      <4>2. CASE w # "output"
        BY <1>1, <4>2 DEF Change, InOutput, ScreenInv, ScreenShape
      <4> QED
        BY <4>1, <4>2
    <3> QED
      BY <1>1, <3>1, <3>2, <3>3 DEF ScreenInv, ScreenShape, IsBox
  <2> QED
    BY <1>2, <2>1, <2>2 DEF ScreenInv, SyncInv
<1>4. CASE mode # "RAW"
  BY <1>1, <1>2, <1>4 DEF Answer, NoChar
<1> QED
  BY <1>3, <1>4

LEMMA ScreenKept == ConsoleInv /\ [Next]_vars => ScreenInv'
<1> SUFFICES ASSUME ConsoleInv, [Next]_vars PROVE ScreenInv'
  OBVIOUS
<1>0. ScreenInv /\ HeldType /\ RestInv /\ typed \in Nat /\ UpTo(cookq, typed)
  BY HeldSeqs DEF ConsoleInv, OrderInv
<1>1. CASE OnChar
  BY <1>0, <1>1, SameScreen DEF OnChar, screenVars
<1>2. CASE RawGets
  BY <1>0, <1>2, RawGetsScreen
<1>3. CASE CookedGets
  <2>1. cookq \in Seq(Numbers) /\ cookq # <<>>
    BY <1>0, <1>3 DEF CookedGets, Turn, UpTo
  <2>2. Head(cookq) \in Numbers
    BY <2>1, HeadTailProperties
  <2> QED
    BY <1>0, <1>3, <2>2, CookedGetsScreen
<1>4. CASE Main
  BY <1>0, <1>4, TakeScreen, AnswerScreen DEF Main
<1>5. CASE RefreshThread
  BY <1>0, <1>5, RefreshScreen DEF RefreshThread
<1>6. CASE UNCHANGED vars
  BY <1>0, <1>6, SameScreen DEF vars, screenVars
<1> QED
  BY <1>1, <1>2, <1>3, <1>4, <1>5, <1>6 DEF Next, Terminals

LEMMA FrameKept ==
  ASSUME ConsoleInv, CookedGets
  PROVE  frame' \in Seq(Numbers) /\ \A i \in 1 .. Len(frame') : frame'[i] <= typed
<1> DEFINE k == Head(cookq)
<1>1. /\ typed \in Nat /\ UpTo(cookq, typed) /\ frame \in Seq(Numbers)
      /\ \A i \in 1 .. Len(frame) : frame[i] <= typed
  BY DEF ConsoleInv, OrderInv, RestInv
<1>2. k \in Numbers /\ k <= typed
  <2>1. UpTo(rawq, typed) /\ Apart(cookq, rawq) /\ Turn(cookq, rawq)
    BY DEF ConsoleInv, OrderInv, Apart, CookedGets
  <2> QED
    BY <1>1, <2>1, NextKey
<1>3. frame' = frame \/ frame' = <<>> \/ frame' = Append(frame, k)
  <2>1. CASE mode = "COOKED"
    <3>1. OnInput(k) /\ UNCHANGED cooking => frame' = frame
      BY DEF cooking
    <3> QED
      BY <2>1, <3>1 DEF CookedGets, Process
  <2>2. CASE mode # "COOKED"
    BY <2>2 DEF CookedGets, cooking
  <2> QED
    BY <2>1, <2>2
<1>4. CASE frame' = frame
  BY <1>1, <1>4
<1>5. CASE frame' = <<>>
  BY <1>5, EmptySeq
<1>6. CASE frame' = Append(frame, k)
  <2>1. /\ frame' \in Seq(Numbers) /\ Len(frame') = Len(frame) + 1 /\ Len(frame) \in Nat
        /\ frame'[Len(frame) + 1] = k
        /\ \A i \in 1 .. Len(frame) : frame'[i] = frame[i]
    BY <1>1, <1>2, <1>6, AppendProperties, LenProperties
  <2>2. \A i \in 1 .. Len(frame') : i = Len(frame) + 1 \/ i \in 1 .. Len(frame)
    BY <2>1
  <2> QED
    BY <1>1, <1>2, <2>1, <2>2
<1> QED
  BY <1>3, <1>4, <1>5, <1>6

LEMMA PushedGrows ==
  ASSUME ConsoleInv, pushed' = pushed \/ \E s : pushed' = Append(pushed, s),
         taken' = taken
  PROVE  taken' \in 0 .. Len(pushed')
<1>1. pushed \in Seq([keys : Seq(Numbers), end : Numbers])
  BY DEF ConsoleInv, OrderInv, Looked, PushedInv
<1>2. Len(pushed) \in Nat /\ \A s : Len(Append(pushed, s)) = Len(pushed) + 1
  BY <1>1, LenProperties
<1> QED
  BY <1>2 DEF ConsoleInv, RestInv

LEMMA RestKept == ConsoleInv /\ [Next]_vars => RestInv'
<1> SUFFICES ASSUME ConsoleInv, [Next]_vars PROVE RestInv'
  OBVIOUS
<1>0. /\ RestInv /\ typed \in Nat /\ Len(script) \in Nat /\ redraws \in Nat
      /\ CmdQueueLen \in Nat
  BY LenProperties, ScreenAssumption DEF ConsoleInv, OrderInv, RestInv, ScreenInv, ScreenShape
<1>1. CASE OnChar
  <2>1. /\ typed' = typed + 1 /\ typed' <= Len(script)
        /\ UNCHANGED <<script, frame, vt, saved, taken, pushed, main, answer, redraws>>
    BY <1>0, <1>1 DEF OnChar, screenVars, cooking, commands, executing
  <2>2. \A i \in 1 .. Len(frame) : frame[i] <= typed'
    <3> TAKE i \in 1 .. Len(frame)
    <3>1. frame[i] \in Nat /\ frame[i] <= typed
      BY <1>0, ElementOfSeq DEF RestInv, Numbers
    <3> QED
      BY <1>0, <2>1, <3>1
  <2> QED
    BY <1>0, <2>1, <2>2 DEF RestInv
<1>2. CASE RawGets
  <2>1. UNCHANGED <<script, typed, frame, vt, saved, taken, main, answer, redraws>>
    BY <1>2 DEF RawGets, typing, cooking, executing, Idle
  <2>2. pushed' = pushed \/ \E s : pushed' = Append(pushed, s)
    BY <1>2 DEF RawGets, Push
  <2> QED
    BY <1>0, <2>1, <2>2, PushedGrows DEF RestInv
<1>3. CASE CookedGets
  <2>1. UNCHANGED <<script, typed, taken, main, answer, redraws>>
    BY <1>3 DEF CookedGets, typing, executing, Idle
  <2>2. pushed' = pushed \/ \E s : pushed' = Append(pushed, s)
    <3>1. HeldType
      BY HeldSeqs DEF ConsoleInv
    <3>2. CASE mode = "COOKED"
      <4>1. Look(Head(cookq))
        BY <1>3, <3>1, <3>2, ProcessLooks DEF CookedGets
      <4> QED
        BY <4>1 DEF Look, Lose
    <3>3. CASE mode # "COOKED"
      BY <1>3, <3>3 DEF CookedGets, Silent
    <3> QED
      BY <3>2, <3>3
  <2>3. vt' \in {"GROUND", "ESC", "CSI", "DLE", "TEXT"} /\ saved' \in {"GROUND", "TEXT"}
    BY <1>0, <1>3 DEF CookedGets, Process, cooking, RestInv
  <2> QED
    BY <1>0, <1>3, <2>1, <2>2, <2>3, FrameKept, PushedGrows DEF RestInv
<1>4. CASE Take
  <2>1. /\ UNCHANGED <<script, typed, frame, vt, saved, pushed>>
        /\ main = "idle" /\ main' = "answer" /\ answer' \in {Ok, Error}
        /\ taken' = taken + 1 /\ taken < Len(pushed)
    BY <1>4 DEF Take, typing, cooking
  <2>2. redraws' = redraws \/ redraws' = redraws + 1
    BY <1>4 DEF Take, SetMode, SendRedraw
  <2>3. taken' \in 0 .. Len(pushed) /\ redraws' <= CmdQueueLen + 1
    <3>1. Len(pushed) \in Nat
      BY LenProperties DEF ConsoleInv, OrderInv, Looked, PushedInv
    <3> QED
      BY <1>0, <2>1, <2>2, <3>1 DEF RestInv
  <2> QED
    BY <1>0, <2>1, <2>3 DEF RestInv
<1>5. CASE Answer
  BY <1>0, <1>5 DEF Answer, typing, cooking, commands, RestInv
<1>6. CASE RefreshThread
  <2>1. UNCHANGED <<script, typed, frame, vt, saved, taken, pushed, main, answer>>
    BY <1>6 DEF RefreshThread, typing, cooking, commands, executing
  <2>2. redraws' = redraws \/ redraws' = redraws - 1
    BY <1>6 DEF RefreshThread, Refresh, ReceiveRedraw, DirtyAll, Timeout, Begin, DrawLine,
                DrawChar, EndLine, DrawNothing
  <2>3. redraws' <= redraws
    BY <1>0, <2>2
  <2>4. redraws' \in Int
    BY <1>0, <2>2
  <2> QED
    BY <1>0, <2>1, <2>3, <2>4 DEF RestInv
<1>7. CASE UNCHANGED vars
  BY <1>0, <1>7 DEF vars, screenVars, typing, cooking, commands, executing, RestInv
<1> QED
  BY <1>1, <1>2, <1>3, <1>4, <1>5, <1>6, <1>7 DEF Next, Terminals, Main

LEMMA ConsoleBegins == Init => ConsoleInv
<1> SUFFICES ASSUME Init PROVE ConsoleInv
  OBVIOUS
<1>1. OrderInv
  BY OrderBegins
<1>2. TextInv
  <2>1. IsRow(<<>>)
    BY EmptySeq, CellShape DEF IsRow
  <2>2. \A w \in Windows : /\ DOMAIN text[w] = Rows(w)
                          /\ \A r \in Rows(w) : text[w][r] = <<>>
    BY DEF Init, ScreenInit
  <2>3. "output" \in Windows /\ line = 1 /\ 1 \in 1 .. Height
    BY CellShape DEF Init, ScreenInit, Windows
  <2> QED
    BY <2>1, <2>2, <2>3 DEF TextInv
<1>3. ScreenShape
  BY WholeBoxes DEF Init, ScreenInit, ScreenShape
<1>4. DrawInv
  BY WholeBoxes, CellShape DEF Init, ScreenInit, DrawInv, Windows
<1>5. SyncInv
  BY DEF Init, ScreenInit, SyncInv, Synced
<1>6. RestInv
  <2>1. script \in Seq(Symbols) /\ typed = 0 /\ Len(script) \in Nat
    BY ScriptsAssumption, LenProperties DEF Init
  <2>2. pushed = <<>> /\ frame = <<>> /\ taken = 0 /\ Len(<<>>) = 0 /\ <<>> \in Seq(Numbers)
    BY EmptySeq DEF Init
  <2> QED
    BY <2>1, <2>2, ScreenAssumption DEF Init, ScreenInit, RestInv
<1> QED
  BY <1>1, <1>2, <1>3, <1>4, <1>5, <1>6 DEF ConsoleInv, ScreenInv

LEMMA ConsoleInvHolds == Spec => []ConsoleInv
<1>1. ConsoleInv /\ [Next]_vars => ConsoleInv'
  BY OrderKept, ScreenKept, RestKept DEF ConsoleInv
<1> QED
  BY ConsoleBegins, <1>1, PTL DEF Spec

LEMMA TypeSuffices == ConsoleInv => TypeOK
<1> SUFFICES ASSUME ConsoleInv PROVE TypeOK
  OBVIOUS
<1>1. ScreenTypeOK
  <2>1. redraws \in 0 .. CmdQueueLen + 1
    BY ScreenAssumption DEF ConsoleInv, RestInv, ScreenInv, ScreenShape
  <2>2. \A w \in Windows : \A r \in Rows(w) : Len(text[w][r]) <= Width
    BY DEF ConsoleInv, ScreenInv, TextInv, IsRow
  <2> QED
    BY <2>1, <2>2 DEF ConsoleInv, ScreenInv, TextInv, ScreenShape, DrawInv, IsBox, ScreenTypeOK
<1>2. typed \in 0 .. Len(script) /\ Keys = 1 .. Len(script) /\ Len(script) \in Nat
  BY LenProperties DEF ConsoleInv, OrderInv, RestInv, Keys
<1>3. ASSUME NEW s \in Seq(Numbers), \A i \in 1 .. Len(s) : s[i] <= typed
      PROVE  \A i \in DOMAIN s : s[i] \in Keys
  <2> TAKE i \in DOMAIN s
  <2>1. i \in 1 .. Len(s) /\ s[i] \in Numbers
    BY LenProperties, ElementOfSeq
  <2> QED
    BY <1>2, <1>3, <2>1 DEF Numbers
<1>4. ASSUME NEW s \in {rawq, cookq, rawbuf, frame, field}
      PROVE  s \in Seq(Numbers) /\ \A i \in 1 .. Len(s) : s[i] <= typed
  <2>1. CASE s \in {rawq, cookq}
    BY <2>1 DEF ConsoleInv, OrderInv, UpTo
  <2>2. CASE s = frame
    BY <2>2 DEF ConsoleInv, RestInv
  <2>3. CASE s \in {rawbuf, field}
    <3>1. PICK m \in 0 .. typed : Looked(pushed, Held, m)
      BY DEF ConsoleInv, OrderInv
    <3>2. \E h \in Holders : s = Held[h]
      BY <2>3 DEF Held, Holders
    <3>3. UpTo(s, m)
      BY <3>1, <3>2 DEF Looked, HeldInv
    <3>4. \A i \in 1 .. Len(s) : s[i] \in Nat
      BY <3>3, ElementOfSeq DEF UpTo, Numbers
    <3> QED
      BY <1>2, <3>1, <3>3, <3>4 DEF UpTo
  <2> QED
    BY <2>1, <2>2, <2>3
<1>5. \A s \in {rawq, cookq, rawbuf, frame, field} : \A i \in DOMAIN s : s[i] \in Keys
  BY <1>3, <1>4
<1> QED
  BY <1>1, <1>2, <1>5 DEF TypeOK, ConsoleInv, RestInv

\* Windows, queues and buffers keep their shape; the input line never runs over
\* its right edge, and no more than one redraw waits for room in the queue.
THEOREM ConsoleTypeCorrect == Spec => []TypeOK
BY ConsoleInvHolds, TypeSuffices, PTL

\* In COOKED mode with no redraw due, the terminal shows what the windows hold
\* outside their dirty rectangles, but for a window written while it was drawn.
THEOREM ScreenStaysBuffer == Spec => []ScreenIsBuffer
<1>1. ConsoleInv => ScreenIsBuffer
  BY DEF ConsoleInv, ScreenInv, SyncInv, Synced, CleanInv, Match, ScreenIsBuffer
<1> QED
  BY ConsoleInvHolds, <1>1, PTL
=============================================================================
