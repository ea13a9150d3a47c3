------------------------- MODULE ConfigStoreProofs -------------------------
(***************************************************************************)
(* The invariants of ConfigStore, proved for every number of sectors, every *)
(* page size, header and record length, every number of saves, power        *)
(* failures and `config erase` included; and that ConfigStore implements    *)
(* KeyValueStore until half of the sectors are used.                        *)
(***************************************************************************)
EXTENDS ConfigStore, FiniteSetTheorems, WellFoundedInduction, TLAPS

Offsets == 0..(PAGE_SIZE - 1)
Serial(f, s) == f[Addr(s, 0)].val
InUse(f, s, o) == f[Addr(s, o)] # Erased
IsLastWord(w) == w.k = LenOf(w.tag) - 1

-----------------------------------------------------------------------------
(* What is in the flash f.                                                  *)

FlashType(f, c) ==
  /\ f \in [Area -> [tag : Tags \cup {"header", "erased"}, val : Nat, k : Nat]]
  /\ \A s \in Sectors, o \in Offsets : InUse(f, s, o) =>
       LET w == f[Addr(s, o)]
       IN /\ w.tag \in Tags \cup {"header"}
          /\ w.k <= LenOf(w.tag) - 1
          /\ w.tag \in Tags => w.val \in 1..c
          /\ o >= HeaderLen => c >= 1

(* A page is written from its start, record after record.                   *)
Packed(f, s) ==
  /\ \A o, p \in Offsets : o < p /\ InUse(f, s, p) => InUse(f, s, o)
  /\ \A p \in Offsets : InUse(f, s, p) => f[Addr(s, p)].k <= p
  /\ \A p \in Offsets : \A o \in 0..p :
       InUse(f, s, p) /\ p - o <= f[Addr(s, p)].k =>
         f[Addr(s, o)] = [f[Addr(s, p)] EXCEPT !.k = @ - (p - o)]
  /\ \A p \in Offsets : \A o \in 0..p :
       InUse(f, s, p) /\ f[Addr(s, o)].k + (p - o) < LenOf(f[Addr(s, o)].tag) =>
         f[Addr(s, p)] = [f[Addr(s, o)] EXCEPT !.k = @ + (p - o)]
  /\ \A p \in Offsets \ {0} :
       InUse(f, s, p) /\ f[Addr(s, p)].k = 0 => IsLastWord(f[Addr(s, p - 1)])

(* A header is at the start of the page, a record between it and the last   *)
(* halfword.                                                                *)
Placed(f, s) ==
  \A o \in Offsets : InUse(f, s, o) =>
    LET w == f[Addr(s, o)]
    IN /\ o < HeaderLen => w.tag = "header" /\ w.k = o
       /\ w.tag \in Tags => o - w.k + LenOf(w.tag) < PAGE_SIZE

SerialsDiffer(f) ==
  \A s, u \in Sectors :
    HasHeader(f, s) /\ HasHeader(f, u) /\ Serial(f, s) = Serial(f, u) => s = u

LastIsDone(f, d) ==
  \A s \in Sectors, o \in Offsets :
    f[Addr(s, o)].tag \in Tags /\ IsLastWord(f[Addr(s, o)]) => f[Addr(s, o)].val \in d

FlashInv ==
  /\ FlashType(flash, count)
  /\ \A s \in Sectors : Packed(flash, s) /\ Placed(flash, s)
  /\ SerialsDiffer(flash)
  /\ LastIsDone(flash, done)
  /\ LogIsOrdered

-----------------------------------------------------------------------------
(* What the RAM knows of it.                                                *)

Exact(s) == \A o \in Offsets : InUse(flash, s, o) <=> o < append_point[s]
Whole(s) == append_point[s] > 0 => IsLastWord(flash[Addr(s, append_point[s] - 1)])
Waiting(s) ==
  \/ (append_point[s] = 0 /\ InUse(flash, s, 0))
  \/ (Exact(s) /\ Whole(s))

Jobs ==
  [page : Sectors, tag : Tags \cup {"header", "erased"}, val : Nat, k : Nat,
   try : {1, 2}, then : Tags \cup {"none"}]

Types ==
  /\ append_point \in [Sectors -> 0..(PAGE_SIZE + 1)]
  /\ pc # "halted" => append_point \in [Sectors -> 0..PAGE_SIZE]
  /\ IsFiniteSet(DOMAIN page_seq) /\ DOMAIN page_seq \subseteq Nat
  /\ page_seq \in [DOMAIN page_seq -> Sectors]
  /\ free_pages \in Seq(Sectors)
  /\ pc = "off" => scans = 0
  /\ scans = 0 => free_pages = << >>
  /\ scans = 1 => Len(free_pages) <= NSECTORS
  /\ scans = 2 => Len(free_pages) <= 2 * NSECTORS
  /\ scans \in 0..2
  /\ done \subseteq 1..count
  /\ values \in [Tags -> {0} \cup done]
  /\ pc \in {"off", "first", "wiping", "ready", "header", "reclaim", "append", "erasing", "halted"}
  /\ todo \in Seq(Sectors) /\ count \in 0..MaxSaves /\ job \in Jobs

OffInv == pc = "off" =>
  /\ page_seq = NoPages /\ why # "past_end"
  /\ \A s \in Sectors : append_point[s] = 0

(* The halfwords of the job before the one at append_point.                 *)
Begun ==
  /\ job.page \in Sectors /\ job.k \in 0..(LenOf(job.tag) - 1) /\ job.val \in Nat
  /\ job.k = 0 => Waiting(job.page)
  /\ job.k > 0 =>
       /\ Exact(job.page) /\ append_point[job.page] > 0
       /\ flash[Addr(job.page, append_point[job.page] - 1)] = Word(job.tag, job.val, job.k - 1)

FirstInv == pc = "first" =>
  /\ page_seq = NoPages /\ scans = 1
  /\ job.page = 0 /\ job.tag = "header" /\ job.val = 0 /\ job.try = 1
  /\ \A s \in Sectors : ~HasHeader(flash, s)
  /\ \A s \in Sectors \ {0} : append_point[s] = 0
  /\ append_point[0] = job.k
  /\ Begun

WipingInv == pc = "wiping" =>
  /\ DOMAIN page_seq # {} /\ scans = 1 /\ job.try = 2
  /\ \A s \in Sectors : HasHeader(flash, s) =>
       Serial(flash, s) \in DOMAIN page_seq /\ page_seq[Serial(flash, s)] = s
  /\ \A n \in DOMAIN page_seq :
       /\ HasHeader(flash, page_seq[n]) \/ ~InUse(flash, page_seq[n], 1)
       /\ HasHeader(flash, page_seq[n]) => Serial(flash, page_seq[n]) = n
  /\ \A s \in Sectors : append_point[s] = 0

ErasingInv == pc = "erasing" =>
  /\ page_seq = NoPages
  /\ \A s \in Sectors \ {NSECTORS \div 2} :
       (\E i \in DOMAIN todo : todo[i] = s) \/ ~InUse(flash, s, 0)

EmptyInv == pc = "ready" /\ DOMAIN page_seq = {} =>
  \A s \in Sectors \ {NSECTORS \div 2} : ~HasHeader(flash, s)

Live == pc \in {"ready", "header", "reclaim", "append"} /\ DOMAIN page_seq # {}

KnownInv == Live =>
  \A s \in Sectors : HasHeader(flash, s) =>
    Serial(flash, s) \in DOMAIN page_seq /\ page_seq[Serial(flash, s)] = s

NewestInv == Live /\ pc # "header" =>
  /\ HasHeader(flash, Newest) /\ Exact(Newest)
  /\ (Spoiled(Newest) \/ Serial(flash, Newest) = Largest(DOMAIN page_seq))
  /\ pc # "append" => Whole(Newest)

FreeInv == Live =>
  \A i \in DOMAIN free_pages :
    \/ Waiting(free_pages[i])
    \/ pc \in {"header", "append"} /\ free_pages[i] = job.page

OldRecords(p) ==
  \A s \in Sectors, o \in Offsets :
    flash[Addr(s, o)].tag \in Tags /\ s # p => flash[Addr(s, o)].val < count

HeaderInv == pc = "header" =>
  /\ DOMAIN page_seq # {} /\ count >= 1
  /\ job.tag = "header" /\ job.then \in Tags /\ Begun
  /\ \A n \in DOMAIN page_seq : n < job.val
  /\ ~HasRoom(append_point[Newest], RecordLen[job.then])
  /\ OldRecords(-1)

ReclaimInv == pc = "reclaim" =>
  /\ DOMAIN page_seq # {} /\ count >= 1
  /\ job.page = Newest /\ job.then \in Tags
  /\ free_pages = << >>
  /\ OldRecords(-1)

AppendInv == pc = "append" =>
  /\ DOMAIN page_seq # {} /\ count >= 1
  /\ job.page = Newest /\ job.tag \in Tags /\ job.val = count /\ Begun
  /\ append_point[job.page] - job.k + RecordLen[job.tag] < PAGE_SIZE
  /\ OldRecords(IF job.k = 0 THEN -1 ELSE job.page)

(* The session that did not write the first header.                         *)
LaterInv == scans = 1 =>
  /\ why # "past_end"
  /\ pc \notin {"wiping", "halted"} =>
       /\ \A i \in DOMAIN free_pages :
            /\ ~HasHeader(flash, free_pages[i]) /\ append_point[free_pages[i]] = 0
            /\ \A j \in DOMAIN free_pages : free_pages[i] = free_pages[j] => i = j
            /\ pc \in {"first", "header"} => free_pages[i] # job.page
       /\ pc = "header" => append_point[job.page] = job.k

IInv ==
  /\ Types /\ FlashInv /\ OffInv /\ FirstInv /\ WipingInv /\ ErasingInv
  /\ EmptyInv /\ KnownInv /\ NewestInv /\ FreeInv
  /\ HeaderInv /\ ReclaimInv /\ AppendInv /\ LaterInv

(* Reclaiming leaves alone the page that the save is for. allocate_page     *)
(* means it to, and two slips of the code can defeat it: erase_sector takes *)
(* sector NSECTORS/2 for sector 0, which may be the page just begun, and    *)
(* after the session that lists the free pages twice that page may be an    *)
(* older one too.                                                           *)
NewestSpared == pc = "reclaim" =>
  \A i \in DOMAIN todo : todo[i] # job.page /\ ErasedSector(todo[i]) # job.page

LEMMA Sizes ==
  /\ NSECTORS \in Nat /\ NSECTORS > 1 /\ PAGE_SIZE \in Nat /\ PAGE_SIZE > 0
  /\ HeaderLen \in Nat /\ HeaderLen > 1 /\ HeaderLen <= PAGE_SIZE
  /\ \A t \in Tags : RecordLen[t] \in Nat /\ RecordLen[t] > 1 /\ HeaderLen + RecordLen[t] < PAGE_SIZE
  /\ MaxSaves \in Nat
BY SizesAssumption, BoundsAssumption

LEMMA TimesMonotone ==
  ASSUME NEW x \in Nat, NEW y \in Nat, NEW n \in Nat, x <= y
  PROVE  x * n <= y * n
OBVIOUS

LEMMA AddrBounds ==
  ASSUME NEW s \in Sectors, NEW o \in Nat
  PROVE  /\ Addr(s, o) \in Nat
         /\ o \in Offsets => Addr(s, o) \in Area
<1>1. s * PAGE_SIZE \in Nat /\ (NSECTORS - 1) * PAGE_SIZE \in Nat /\ NSECTORS - 1 \in Nat /\ s \in Nat
  BY Sizes DEF Sectors
<1>2. s * PAGE_SIZE <= (NSECTORS - 1) * PAGE_SIZE
  BY <1>1, Sizes, TimesMonotone DEF Sectors
<1>3. NSECTORS * PAGE_SIZE = (NSECTORS - 1) * PAGE_SIZE + PAGE_SIZE
  BY Sizes
<1> QED
  BY <1>1, <1>2, <1>3, Sizes DEF Addr, Area, Offsets

LEMMA AddrInjective ==
  ASSUME NEW s \in Sectors, NEW u \in Sectors, NEW o \in Offsets, NEW p \in Offsets,
         Addr(s, o) = Addr(u, p)
  PROVE  s = u /\ o = p
<1>1. ASSUME NEW x \in Sectors, NEW y \in Sectors, NEW i \in Offsets, NEW j \in Offsets,
             x < y
      PROVE  Addr(x, i) < Addr(y, j)
  <2>1. x + 1 <= y /\ x + 1 \in Nat /\ y \in Nat /\ x \in Nat
    BY <1>1, Sizes DEF Sectors
  <2>2. (x + 1) * PAGE_SIZE <= y * PAGE_SIZE
    BY <2>1, Sizes, TimesMonotone
  <2>3. (x + 1) * PAGE_SIZE = x * PAGE_SIZE + PAGE_SIZE /\ x * PAGE_SIZE \in Nat /\ y * PAGE_SIZE \in Nat
    BY <2>1, Sizes
  <2> QED
    BY <2>2, <2>3, Sizes DEF Addr, Offsets
<1>2. s = u
  <2>1. ~(s < u) /\ ~(u < s)
    BY <1>1, AddrBounds, Sizes DEF Offsets
  <2> QED
    BY <2>1, Sizes DEF Sectors
<1>3. s * PAGE_SIZE \in Nat
  BY Sizes DEF Sectors
<1> QED
  BY <1>2, <1>3, Sizes DEF Addr, Offsets

LEMMA AddrSum ==
  ASSUME NEW s \in Sectors, NEW o \in Int, NEW k \in Int
  PROVE  Addr(s, o) + k = Addr(s, o + k)
<1>1. s * PAGE_SIZE \in Nat
  BY Sizes DEF Sectors
<1> QED
  BY <1>1 DEF Addr

LEMMA AreaIsPages ==
  ASSUME NEW a \in Area
  PROVE  \E s \in Sectors, o \in Offsets : a = Addr(s, o)
<1> DEFINE s == a \div PAGE_SIZE
           o == a % PAGE_SIZE
<1>0. a \in Nat /\ a < NSECTORS * PAGE_SIZE /\ NSECTORS * PAGE_SIZE \in Nat
  BY Sizes DEF Area
<1>1. s \in Nat /\ o \in Offsets /\ a = s * PAGE_SIZE + o
  BY <1>0, Sizes DEF Offsets
<1>2. s < NSECTORS
  <2>1. SUFFICES ASSUME NSECTORS <= s PROVE FALSE
    BY <1>1, Sizes
  <2>2. NSECTORS * PAGE_SIZE <= s * PAGE_SIZE
    BY <1>1, <2>1, Sizes, TimesMonotone
  <2> QED
    BY <1>0, <1>1, <2>2, Sizes DEF Offsets
<1> QED
  BY <1>1, <1>2, Sizes DEF Addr, Sectors

LEMMA ErasedSectorIs ==
  ASSUME NEW s \in Sectors
  PROVE  ErasedSector(s) = IF s = NSECTORS \div 2 THEN 0 ELSE s
<1> DEFINE M == NSECTORS \div 2
<1>1. M \in Nat /\ M > 0 /\ NSECTORS = 2 * M
  BY SizesAssumption
<1>2. s \in Nat /\ s < 2 * M
  BY <1>1, Sizes DEF Sectors
<1>3. CASE s < M
  <2>1. s % M = s
    BY <1>1, <1>2, <1>3
  <2> QED
    BY <1>1, <1>2, <1>3, <2>1 DEF ErasedSector
<1>4. CASE s >= M
  <2>1. s % M = s - M
    BY <1>1, <1>2, <1>4
  <2> QED
    BY <1>1, <1>2, <1>4, <2>1 DEF ErasedSector
<1> QED
  BY <1>1, <1>2, <1>3, <1>4

-----------------------------------------------------------------------------
(* Reading the halfwords of a page.                                         *)

LEMMA TagsAreApart ==
  /\ "header" \notin Tags /\ "erased" \notin Tags /\ "header" # "erased"
  /\ LenOf("header") = HeaderLen /\ \A t \in Tags : LenOf(t) = RecordLen[t]
  /\ \A t \in Tags \cup {"header"} : LenOf(t) \in Nat /\ LenOf(t) > 1
BY TagsAssumption, Sizes DEF LenOf

LEMMA ProgrammedIs ==
  ASSUME NEW f, NEW s \in Sectors, NEW o \in Offsets
  PROVE  Programmed(f, Addr(s, o)) <=> InUse(f, s, o)
BY AddrBounds DEF Programmed, InUse, Offsets

LEMMA HasHeaderIs ==
  ASSUME NEW f, NEW s \in Sectors
  PROVE  HasHeader(f, s) <=> \A o \in 0..(HeaderLen - 1) : InUse(f, s, o)
<1>1. 0..(HeaderLen - 1) \subseteq Offsets
  BY Sizes DEF Offsets
<1> QED
  BY <1>1, ProgrammedIs DEF HasHeader

LEMMA CellType ==
  ASSUME NEW f, NEW c, FlashType(f, c), NEW s \in Sectors, NEW o \in Offsets
  PROVE  LET w == f[Addr(s, o)]
         IN /\ w \in [tag : Tags \cup {"header", "erased"}, val : Nat, k : Nat]
            /\ w = [tag |-> w.tag, val |-> w.val, k |-> w.k]
            /\ InUse(f, s, o) <=> w.tag \in Tags \cup {"header"}
            /\ w.tag \in Tags \cup {"header"} => w.k \in 0..(LenOf(w.tag) - 1)
<1>1. f[Addr(s, o)] \in [tag : Tags \cup {"header", "erased"}, val : Nat, k : Nat]
  BY AddrBounds DEF FlashType, Offsets
<1> QED
  BY <1>1, TagsAreApart DEF FlashType, InUse, Erased

(* What is said of a page depends on its own halfwords only.                *)
LEMMA SamePage ==
  ASSUME NEW f, NEW g, NEW s \in Sectors,
         \A o \in Offsets : g[Addr(s, o)] = f[Addr(s, o)]
  PROVE  /\ Packed(f, s) => Packed(g, s)
         /\ Placed(f, s) => Placed(g, s)
         /\ HasHeader(g, s) <=> HasHeader(f, s)
         /\ Serial(g, s) = Serial(f, s)
<1>0. 0 \in Offsets /\ \A p \in Offsets : 0..p \subseteq Offsets
  BY Sizes DEF Offsets
<1>1. \A o \in Offsets : InUse(g, s, o) <=> InUse(f, s, o)
  BY DEF InUse
<1>2. Packed(f, s) => Packed(g, s)
  <2> HAVE Packed(f, s)
  <2>1. \A p \in Offsets \ {0} : p - 1 \in Offsets
    BY Sizes DEF Offsets
  <2> QED
    BY <1>0, <1>1, <2>1 DEF Packed
<1>3. Placed(f, s) => Placed(g, s)
  BY <1>1 DEF Placed
<1>4. HasHeader(g, s) <=> HasHeader(f, s)
  BY <1>1, HasHeaderIs, Sizes DEF Offsets
<1> QED
  BY <1>0, <1>2, <1>3, <1>4 DEF Serial

-----------------------------------------------------------------------------
(* The next halfword of a page is programmed.                               *)

LEMMA WrittenCells ==
  ASSUME NEW f \in [Area -> [tag : Tags \cup {"header", "erased"}, val : Nat, k : Nat]],
         NEW p \in Sectors, NEW e \in Offsets, NEW w,
         NEW s \in Sectors, NEW o \in Offsets
  PROVE  [f EXCEPT ![Addr(p, e)] = w][Addr(s, o)] = IF s = p /\ o = e THEN w ELSE f[Addr(s, o)]
<1>1. Addr(s, o) \in Area
  BY AddrBounds DEF Offsets
<1> QED
  BY <1>1, AddrInjective

(* The word w may follow the halfwords below e of page p.                   *)
Follows(f, p, e, w) ==
  /\ w \in [tag : Tags \cup {"header"}, val : Nat, k : Nat]
  /\ w.k <= LenOf(w.tag) - 1
  /\ w.k = 0 => e = 0 \/ IsLastWord(f[Addr(p, e - 1)])
  /\ w.k > 0 => e > 0 /\ f[Addr(p, e - 1)] = [w EXCEPT !.k = @ - 1]

LEMMA PackedGrows ==
  ASSUME NEW f, NEW c, FlashType(f, c), NEW g, NEW p \in Sectors, Packed(f, p),
         NEW e \in Offsets, NEW w, Follows(f, p, e, w),
         \A o \in Offsets : InUse(f, p, o) <=> o < e,
         \A o \in Offsets : g[Addr(p, o)] = IF o = e THEN w ELSE f[Addr(p, o)]
  PROVE  Packed(g, p)
<1> DEFINE C(o) == f[Addr(p, o)]
           D(o) == g[Addr(p, o)]
<1>0. /\ \A q \in Offsets : q \in Nat /\ 0..q \subseteq Offsets
      /\ \A q \in Offsets \ {0} : q - 1 \in Offsets
      /\ e \in Nat /\ 0 \in Offsets
  BY Sizes DEF Offsets
<1>1. /\ w \in [tag : Tags \cup {"header"}, val : Nat, k : Nat] /\ w # Erased
      /\ w = [tag |-> w.tag, val |-> w.val, k |-> w.k]
      /\ LenOf(w.tag) \in Nat
  BY TagsAreApart DEF Follows, Erased
<1>2. \A o \in Offsets : /\ o < e => D(o) = C(o) /\ InUse(f, p, o) /\ InUse(g, p, o)
                         /\ o = e => D(o) = w /\ InUse(g, p, o)
                         /\ o > e => ~InUse(g, p, o)
  BY <1>0, <1>1 DEF InUse
<1>3. \A o \in Offsets : o < e =>
        /\ C(o).k \in Nat /\ C(o).tag \in Tags \cup {"header"} /\ LenOf(C(o).tag) \in Nat
        /\ C(o) = [tag |-> C(o).tag, val |-> C(o).val, k |-> C(o).k]
  <2> TAKE o \in Offsets
  <2> HAVE o < e
  <2> QED
    BY <1>2, CellType, TagsAreApart
<1>4. \A o, q \in Offsets : o < q /\ InUse(g, p, q) => InUse(g, p, o)
  BY <1>0, <1>2
<1>5. \A q \in Offsets : InUse(g, p, q) => D(q).k <= q
  <2>1. e > 0 /\ w.k > 0 => C(e - 1).k = w.k - 1 /\ C(e - 1).k <= e - 1
    BY <1>0, <1>1, <1>2 DEF Follows, Packed
  <2>2. w.k <= e
    BY <1>0, <1>1, <2>1 DEF Follows
  <2> QED
    BY <1>0, <1>2, <2>2 DEF Packed
<1>6. \A q \in Offsets : \A o \in 0..q :
        InUse(g, p, q) /\ q - o <= D(q).k => D(o) = [D(q) EXCEPT !.k = @ - (q - o)]
  <2> SUFFICES ASSUME NEW q \in Offsets, NEW o \in 0..q, InUse(g, p, q), q - o <= D(q).k
               PROVE  D(o) = [D(q) EXCEPT !.k = @ - (q - o)]
    OBVIOUS
  <2>1. CASE q < e
    BY <1>0, <1>2, <2>1 DEF Packed
  <2>2. CASE q = e /\ o = e
    BY <1>0, <1>1, <1>2, <2>2
  <2>3. CASE q = e /\ o < e
    <3>1. w.k > 0 /\ C(e - 1) = [w EXCEPT !.k = @ - 1] /\ e - 1 \in Offsets
      BY <1>0, <1>1, <1>2, <2>3 DEF Follows
    <3>2. (e - 1) - o <= C(e - 1).k /\ o \in 0..(e - 1) /\ InUse(f, p, e - 1)
      BY <1>0, <1>1, <1>2, <2>3, <3>1
    <3>3. C(o) = [C(e - 1) EXCEPT !.k = @ - ((e - 1) - o)]
      BY <3>1, <3>2 DEF Packed
    <3>4. D(o) = C(o) /\ D(q) = w
      BY <1>0, <1>2, <2>3
    <3>5. o \in Nat /\ w.k \in Nat
      BY <1>0, <1>1
    <3>6. C(o) = [w EXCEPT !.k = (@ - 1) - ((e - 1) - o)]
      BY <3>1, <3>3, <1>1
    <3>7. (w.k - 1) - ((e - 1) - o) = w.k - (e - o)
      BY <1>0, <3>5
    <3> QED
      BY <1>1, <2>3, <3>4, <3>6, <3>7
  <2> QED
    BY <1>0, <1>2, <2>1, <2>2, <2>3
<1>7. \A q \in Offsets : \A o \in 0..q :
        InUse(g, p, q) /\ D(o).k + (q - o) < LenOf(D(o).tag) =>
          D(q) = [D(o) EXCEPT !.k = @ + (q - o)]
  <2> SUFFICES ASSUME NEW q \in Offsets, NEW o \in 0..q, InUse(g, p, q),
                      D(o).k + (q - o) < LenOf(D(o).tag)
               PROVE  D(q) = [D(o) EXCEPT !.k = @ + (q - o)]
    OBVIOUS
  <2>1. CASE q < e
    BY <1>0, <1>2, <2>1 DEF Packed
  <2>2. CASE q = e /\ o = e
    BY <1>0, <1>1, <1>2, <2>2
  <2>3. CASE q = e /\ o < e
    <3>1. e - 1 \in Offsets /\ o \in 0..(e - 1) /\ InUse(f, p, e - 1) /\ D(o) = C(o) /\ D(q) = w
      BY <1>0, <1>2, <2>3
    <3>0. C(o).k \in Nat /\ o \in Nat /\ LenOf(C(o).tag) \in Nat /\ C(o).k + (e - o) < LenOf(C(o).tag)
      BY <1>0, <1>3, <2>3, <3>1
    <3>2. C(o).k + ((e - 1) - o) < LenOf(C(o).tag)
      <4> HIDE DEF C, D
      <4> QED
        BY <1>0, <3>0
    <3>3. C(e - 1) = [C(o) EXCEPT !.k = @ + ((e - 1) - o)]
      BY <3>1, <3>2 DEF Packed
    <3>4. C(e - 1).k = C(o).k + ((e - 1) - o) /\ C(e - 1).tag = C(o).tag
      BY <1>0, <1>3, <3>1, <3>3, <2>3
    <3>5. ~IsLastWord(C(e - 1))
      <4> HIDE DEF C, D
      <4> QED
        BY <1>0, <3>0, <3>4 DEF IsLastWord
    <3>6. w.k > 0 /\ C(e - 1) = [w EXCEPT !.k = @ - 1]
      BY <1>0, <1>1, <2>3, <3>5 DEF Follows
    <3>7. w = [C(e - 1) EXCEPT !.k = @ + 1]
      <4>1. C(e - 1) = [tag |-> w.tag, val |-> w.val, k |-> w.k - 1] /\ w.k \in Nat
        BY <1>1, <3>6
      <4> HIDE DEF C
      <4> QED
        BY <1>1, <4>1
    <3>8. w = [C(o) EXCEPT !.k = @ + ((e - 1) - o) + 1]
      <4> HIDE DEF C, D
      <4> QED
        BY <1>3, <2>3, <3>1, <3>3, <3>7
    <3>9. C(o).k + ((e - 1) - o) + 1 = C(o).k + (e - o)
      <4> HIDE DEF C, D
      <4> QED
        BY <1>0, <3>0
    <3> QED
      <4> HIDE DEF C, D
      <4> QED
        BY <2>3, <3>1, <3>8, <3>9
  <2> QED
    BY <1>0, <1>2, <2>1, <2>2, <2>3
<1>8. \A q \in Offsets \ {0} : InUse(g, p, q) /\ D(q).k = 0 => IsLastWord(D(q - 1))
  BY <1>0, <1>1, <1>2 DEF Follows, Packed
<1> QED
  BY <1>4, <1>5, <1>6, <1>7, <1>8 DEF Packed

-----------------------------------------------------------------------------
(* The loop of do_load: what Walk computes.                                 *)

LEMMA LeastNumber ==
  ASSUME NEW T, T \subseteq Nat, T # {}
  PROVE  \E x \in T : \A y \in T : x <= y
<1> DEFINE Less == {p \in Nat \X Nat : p[1] < p[2]}
<1>1. IsWellFoundedOn(Less, Nat)
  BY NatLessThanWellFounded DEF OpToRel
<1> HIDE DEF Less
<1>2. PICK x \in T : \A y \in T : <<y, x>> \notin Less
  BY <1>1, WFMin
<1>3. \A y \in T : x <= y
  <2> TAKE y \in T
  <2>1. x \in Nat /\ y \in Nat
    OBVIOUS
  <2>2. ~(y < x)
    BY <1>2, <2>1 DEF Less
  <2> QED
    BY <2>1, <2>2
<1> QED
  BY <1>3

Steps == 0..(2 * NSECTORS * PAGE_SIZE)

WalkTurn(f, g, a) ==
  IF ~Programmed(f, a) THEN [how |-> "end", at |-> a, vals |-> Nothing]
  ELSE IF f[a].tag \notin Tags THEN [how |-> "unknown_tag", at |-> a, vals |-> Nothing]
  ELSE IF \E k \in 1..(RecordLen[f[a].tag] - 1) : ~Programmed(f, a + k)
  THEN [how |-> "ecc_error", at |-> a, vals |-> Nothing]
  ELSE [g[a + RecordLen[f[a].tag]] EXCEPT
          !.vals[f[a].tag] = IF @ = 0 THEN f[a].val ELSE @]

(* A turn looks ahead, and never beyond the domain of the function.         *)
LEMMA TurnLooksAhead ==
  ASSUME NEW f, NEW a \in Steps, NEW g, NEW h,
         \A b \in Steps : b > a => g[b] = h[b]
  PROVE  WalkTurn(f, g, a) = WalkTurn(f, h, a)
<1>1. CASE Programmed(f, a) /\ f[a].tag \in Tags
  <2>1. RecordLen[f[a].tag] \in Nat /\ RecordLen[f[a].tag] > 1 /\ RecordLen[f[a].tag] < PAGE_SIZE
    BY <1>1, Sizes
  <2>2. a \in Nat /\ a < NSECTORS * PAGE_SIZE /\ NSECTORS * PAGE_SIZE \in Nat
    BY <1>1, Sizes DEF Programmed, Area
  <2>3. PAGE_SIZE <= NSECTORS * PAGE_SIZE /\ 2 * NSECTORS * PAGE_SIZE = NSECTORS * PAGE_SIZE + NSECTORS * PAGE_SIZE
    BY Sizes
  <2>4. a + RecordLen[f[a].tag] \in Steps /\ a + RecordLen[f[a].tag] > a
    BY <2>1, <2>2, <2>3, Sizes DEF Steps
  <2>5. g[a + RecordLen[f[a].tag]] = h[a + RecordLen[f[a].tag]]
    BY <2>4
  <2> QED
    BY <2>5 DEF WalkTurn
<1>2. CASE ~(Programmed(f, a) /\ f[a].tag \in Tags)
  BY <1>2 DEF WalkTurn
<1> QED
  BY <1>1, <1>2

LEMMA WalkExists ==
  ASSUME NEW f
  PROVE  \E g : g = [a \in Steps |-> WalkTurn(f, g, a)]
<1> DEFINE top == 2 * NSECTORS * PAGE_SIZE
           Part(g, n) == /\ g = [a \in (top - n)..top |-> g[a]]
                         /\ \A a \in (top - n)..top : g[a] = WalkTurn(f, g, a)
           None == {n \in 0..top : \A g : ~Part(g, n)}
<1>0. top \in Nat /\ Steps = 0..top
  BY Sizes DEF Steps
<1> HIDE DEF top
<1>1. ASSUME None # {} PROVE FALSE
  <2>1. PICK n \in None : \A m \in None : n <= m
    <3>1. None \subseteq Nat
      BY <1>0
    <3> HIDE DEF None
    <3> QED
      BY <1>1, <3>1, LeastNumber
  <2>2. n \in 0..top /\ \A g : ~Part(g, n)
    BY DEF None
  <2>3. CASE n = 0
    <3> DEFINE g == [a \in top..top |-> WalkTurn(f, f, a)]
    <3>1. top \in Steps /\ \A b \in Steps : ~(b > top)
      BY <1>0
    <3>2. WalkTurn(f, f, top) = WalkTurn(f, g, top)
      <4> HIDE DEF g
      <4> QED
        BY <3>1, TurnLooksAhead
    <3>3. g[top] = WalkTurn(f, f, top)
      BY <1>0
    <3>4. Part(g, 0)
      BY <1>0, <3>2, <3>3
    <3> HIDE DEF g, Part
    <3> QED
      BY <2>2, <2>3, <3>4
  <2>4. CASE n > 0
    <3>1. n - 1 \in 0..top /\ n - 1 \notin None
      <4>1. n - 1 \in 0..top /\ ~(n <= n - 1)
        BY <1>0, <2>2, <2>4
      <4> HIDE DEF None
      <4> QED
        BY <2>1, <4>1
    <3>2. PICK g : Part(g, n - 1)
      BY <3>1 DEF None
    <3> DEFINE h == [a \in (top - n)..top |-> IF a = top - n THEN WalkTurn(f, g, a) ELSE g[a]]
    <3>3. \A b \in Steps : b > top - n => h[b] = g[b]
      BY <1>0, <2>2
    <3>4. \A a \in (top - n)..top : a \in Steps /\ (a = top - n \/ a \in (top - (n - 1))..top)
      BY <1>0, <2>2
    <3>5. \A a \in (top - n)..top : h[a] = WalkTurn(f, g, a)
      <4> TAKE a \in (top - n)..top
      <4>1. CASE a = top - n
        BY <4>1
      <4>2. CASE a # top - n
        <5>1. h[a] = g[a]
          BY <4>2
        <5>2. a \in (top - (n - 1))..top
          BY <3>4, <4>2
        <5> HIDE DEF h
        <5> QED
          BY <3>2, <5>1, <5>2
      <4> QED
        BY <4>1, <4>2
    <3>6. h = [a \in (top - n)..top |-> h[a]]
      OBVIOUS
    <3> HIDE DEF h
    <3>7. \A a \in (top - n)..top : WalkTurn(f, g, a) = WalkTurn(f, h, a)
      <4> TAKE a \in (top - n)..top
      <4>1. a \in Steps /\ a >= top - n
        BY <3>4, <1>0, <2>2
      <4>2. \A b \in Steps : b > a => g[b] = h[b]
        BY <3>3, <4>1, <1>0, <2>2
      <4> QED
        BY <4>1, <4>2, TurnLooksAhead
    <3>8. Part(h, n)
      BY <3>5, <3>6, <3>7
    <3> HIDE DEF Part
    <3> QED
      BY <2>2, <3>8
  <2> QED
    BY <1>0, <2>2, <2>3, <2>4
<1>2. top \in 0..top /\ top - top = 0
  BY <1>0
<1>3. PICK g : Part(g, top)
  BY <1>1, <1>2 DEF None
<1> QED
  BY <1>0, <1>2, <1>3

LEMMA WalkIs ==
  ASSUME NEW f, NEW a \in Steps
  PROVE  Walk(f)[a] = WalkTurn(f, Walk(f), a)
<1> DEFINE W == CHOOSE g : g = [b \in Steps |-> WalkTurn(f, g, b)]
<1>1. Walk(f) = W
  BY DEF Walk, Steps, WalkTurn
<1>2. W = [b \in Steps |-> WalkTurn(f, W, b)]
  BY WalkExists
<1> HIDE DEF W
<1> QED
  BY <1>1, <1>2

(* Between two records: nothing is programmed at o, or a record starts.     *)
Boundary(f, s, o) == InUse(f, s, o) => f[Addr(s, o)].k = 0

(* The walk from o of page s returns values of whole records, and ends at   *)
(* the first halfword that is not programmed, in the same page.             *)
EndsAt(f, s, o, r, e) ==
  /\ r.at = Addr(s, e) /\ ~InUse(f, s, e)
  /\ e # o => InUse(f, s, e - 1) /\ IsLastWord(f[Addr(s, e - 1)])
WalkedTo(f, s, o, d, r) ==
  /\ r \in [how : {"end", "ecc_error", "unknown_tag"}, at : Nat, vals : [Tags -> {0} \cup d]]
  /\ r.how = "end" => \E e \in o..(PAGE_SIZE - 1) : EndsAt(f, s, o, r, e)

LEMMA StepsOfPage ==
  ASSUME NEW s \in Sectors, NEW o \in Offsets
  PROVE  Addr(s, o) \in Steps
<1>1. Addr(s, o) \in Nat /\ Addr(s, o) < NSECTORS * PAGE_SIZE /\ NSECTORS * PAGE_SIZE \in Nat
  BY AddrBounds, Sizes DEF Area, Offsets
<1>2. 2 * NSECTORS * PAGE_SIZE = NSECTORS * PAGE_SIZE + NSECTORS * PAGE_SIZE
  BY Sizes
<1> QED
  BY <1>1, <1>2 DEF Steps

LEMMA RecordIsWhole ==
  ASSUME NEW f, NEW c, FlashType(f, c), NEW s \in Sectors, Packed(f, s), Placed(f, s),
         NEW o \in Offsets, InUse(f, s, o), f[Addr(s, o)].k = 0, f[Addr(s, o)].tag \in Tags,
         \A k \in 1..(RecordLen[f[Addr(s, o)].tag] - 1) : Programmed(f, Addr(s, o) + k)
  PROVE  LET n == o + RecordLen[f[Addr(s, o)].tag]
         IN /\ n \in Offsets /\ n > o /\ InUse(f, s, n - 1) /\ Boundary(f, s, n)
            /\ f[Addr(s, n - 1)].tag = f[Addr(s, o)].tag
            /\ f[Addr(s, n - 1)].val = f[Addr(s, o)].val
            /\ IsLastWord(f[Addr(s, n - 1)])
<1> DEFINE w == f[Addr(s, o)]
           l == RecordLen[w.tag]
           n == o + l
           z == f[Addr(s, n - 1)]
           b == f[Addr(s, n)]
<1>1. l \in Nat /\ l > 1 /\ LenOf(w.tag) = l /\ o \in Nat /\ w.tag \in Tags \cup {"header"}
  BY Sizes, TagsAreApart DEF Offsets
<1>2. o - w.k + LenOf(w.tag) < PAGE_SIZE
  BY DEF Placed
<1>3. n \in Offsets /\ n > o /\ n - 1 \in Offsets /\ o \in 0..(n - 1)
  BY <1>1, <1>2, Sizes DEF Offsets
<1>4. InUse(f, s, n - 1)
  <2>1. Addr(s, o) + (l - 1) = Addr(s, n - 1)
    <3>1. l - 1 \in Int /\ o \in Int /\ o + (l - 1) = n - 1
      BY <1>1
    <3> HIDE DEF l, n
    <3>2. Addr(s, o) + (l - 1) = Addr(s, o + (l - 1))
      BY <3>1, AddrSum
    <3> QED
      BY <3>1, <3>2
  <2>2. Programmed(f, Addr(s, o) + (l - 1))
    BY <1>1
  <2> QED
    BY <1>3, <2>1, <2>2, ProgrammedIs
<1>5. z = [w EXCEPT !.k = @ + ((n - 1) - o)]
  BY <1>1, <1>3, <1>4 DEF Packed
<1>6. w = [tag |-> w.tag, val |-> w.val, k |-> w.k]
  BY CellType
<1>7. z.tag = w.tag /\ z.val = w.val /\ z.k = l - 1
  BY <1>1, <1>5, <1>6
<1>8. IsLastWord(z)
  BY <1>1, <1>7 DEF IsLastWord
<1>9. ASSUME InUse(f, s, n), b.k # 0 PROVE FALSE
  <2>0. n \in Nat
    BY <1>3 DEF Offsets
  <2> HIDE DEF w, l, n
  <2>1. /\ b.k \in Nat /\ b = [tag |-> b.tag, val |-> b.val, k |-> b.k]
        /\ b.tag \in Tags \cup {"header"} /\ b.k <= LenOf(b.tag) - 1
    BY <1>3, <1>9, CellType, TagsAreApart
  <2>2. b.k > 0
    BY <1>9, <2>1
  <2>3. n - (n - 1) = 1 /\ n - 1 \in 0..n
    BY <1>3, <2>0 DEF Offsets
  <2>4. z = [b EXCEPT !.k = @ - 1]
    <3>1. z = [b EXCEPT !.k = @ - (n - (n - 1))]
      BY <1>3, <1>9, <2>1, <2>2, <2>3 DEF Packed
    <3> QED
      BY <2>3, <3>1
  <2>5. z.tag = b.tag /\ z.k = b.k - 1
    <3> HIDE DEF b, z
    <3> QED
      BY <2>1, <2>4
  <2> HIDE DEF b, z
  <2> QED
    BY <1>1, <1>7, <2>1, <2>2, <2>5
<1> QED
  BY <1>3, <1>4, <1>7, <1>8, <1>9 DEF Boundary

LEMMA WalkPage ==
  ASSUME NEW f, NEW c, FlashType(f, c), NEW d \in SUBSET Nat, LastIsDone(f, d),
         NEW s \in Sectors, Packed(f, s), Placed(f, s)
  PROVE  \A o \in HeaderLen..(PAGE_SIZE - 1) :
           Boundary(f, s, o) => WalkedTo(f, s, o, d, Walk(f)[Addr(s, o)])
<1> DEFINE R(o) == Walk(f)[Addr(s, o)]
           Bad == {m \in Nat : \E o \in HeaderLen..(PAGE_SIZE - 1) :
                     m = PAGE_SIZE - o /\ Boundary(f, s, o) /\ ~WalkedTo(f, s, o, d, R(o))}
<1>1. SUFFICES ASSUME Bad # {} PROVE FALSE
  <2>1. \A o \in HeaderLen..(PAGE_SIZE - 1) : PAGE_SIZE - o \in Nat
    BY Sizes
  <2> QED
    BY <2>1
<1>2. PICK m \in Bad : \A n \in Bad : m <= n
  <2>1. Bad \subseteq Nat
    OBVIOUS
  <2> HIDE DEF Bad
  <2> QED
    BY <1>1, <2>1, LeastNumber
<1>3. PICK o \in HeaderLen..(PAGE_SIZE - 1) :
        m = PAGE_SIZE - o /\ Boundary(f, s, o) /\ ~WalkedTo(f, s, o, d, R(o))
  OBVIOUS
<1>4. \A p \in HeaderLen..(PAGE_SIZE - 1) :
        p > o /\ Boundary(f, s, p) => WalkedTo(f, s, p, d, R(p))
  <2> TAKE p \in HeaderLen..(PAGE_SIZE - 1)
  <2>1. PAGE_SIZE - p \in Nat /\ (p > o => ~(m <= PAGE_SIZE - p))
    BY <1>3, Sizes
  <2>2. p > o => PAGE_SIZE - p \notin Bad
    <3> HIDE DEF Bad
    <3> QED
      BY <1>2, <2>1
  <2> QED
    BY <2>1, <2>2
<1> HIDE DEF Bad
<1> DEFINE a == Addr(s, o)
           w == f[a]
<1>5. o \in Offsets /\ o \in Nat /\ a \in Steps /\ a \in Nat
  BY <1>3, StepsOfPage, AddrBounds, Sizes DEF Offsets
<1>6. R(o) = WalkTurn(f, Walk(f), a)
  BY <1>5, WalkIs
<1>7. Nothing \in [Tags -> {0} \cup d]
  BY DEF Nothing
<1>8. CASE ~Programmed(f, a)
  <2>1. R(o) = [how |-> "end", at |-> a, vals |-> Nothing]
    BY <1>6, <1>8 DEF WalkTurn
  <2>2. ~InUse(f, s, o)
    BY <1>5, <1>8, ProgrammedIs
  <2>3. EndsAt(f, s, o, R(o), o) /\ o \in o..(PAGE_SIZE - 1)
    BY <1>3, <1>5, <2>1, <2>2 DEF EndsAt
  <2>4. WalkedTo(f, s, o, d, R(o))
    BY <1>5, <1>7, <2>1, <2>3 DEF WalkedTo
  <2> QED
    BY <1>3, <2>4
<1>9. CASE Programmed(f, a) /\ w.tag \notin Tags
  <2>1. R(o) = [how |-> "unknown_tag", at |-> a, vals |-> Nothing]
    BY <1>6, <1>9 DEF WalkTurn
  <2> QED
    BY <1>3, <1>5, <1>7, <2>1 DEF WalkedTo
<1>10. CASE Programmed(f, a) /\ w.tag \in Tags /\ \E k \in 1..(RecordLen[w.tag] - 1) : ~Programmed(f, a + k)
  <2>1. R(o) = [how |-> "ecc_error", at |-> a, vals |-> Nothing]
    BY <1>6, <1>10 DEF WalkTurn
  <2> QED
    BY <1>3, <1>5, <1>7, <2>1 DEF WalkedTo
<1>11. CASE Programmed(f, a) /\ w.tag \in Tags /\ \A k \in 1..(RecordLen[w.tag] - 1) : Programmed(f, a + k)
  <2> DEFINE n == o + RecordLen[w.tag]
             q == R(n)
             z == f[Addr(s, n - 1)]
  <2>1. InUse(f, s, o) /\ w.k = 0
    BY <1>3, <1>5, <1>11, ProgrammedIs DEF Boundary
  <2>2. /\ n \in Offsets /\ n > o /\ InUse(f, s, n - 1) /\ Boundary(f, s, n)
        /\ z.tag = w.tag /\ z.val = w.val /\ IsLastWord(z)
    BY <1>5, <1>11, <2>1, RecordIsWhole
  <2>3. n \in HeaderLen..(PAGE_SIZE - 1) /\ n - 1 \in Offsets
    BY <1>3, <1>5, <2>2, Sizes DEF Offsets
  <2>4. WalkedTo(f, s, n, d, q)
    BY <1>4, <2>2, <2>3
  <2>5. R(o) = [q EXCEPT !.vals[w.tag] = IF @ = 0 THEN w.val ELSE @]
    <3>1. a + RecordLen[w.tag] = Addr(s, n)
      <4>1. o \in Int /\ RecordLen[w.tag] \in Int
        BY <1>5, <1>11, Sizes
      <4> HIDE DEF w
      <4> QED
        BY <4>1, AddrSum
    <3> QED
      BY <1>6, <1>11, <3>1 DEF WalkTurn
  <2>6. w.val \in d
    BY <1>11, <2>2, <2>3 DEF LastIsDone
  <2>7. R(o) \in [how : {"end", "ecc_error", "unknown_tag"}, at : Nat, vals : [Tags -> {0} \cup d]]
        /\ R(o).how = q.how /\ R(o).at = q.at
    <3>1. q \in [how : {"end", "ecc_error", "unknown_tag"}, at : Nat, vals : [Tags -> {0} \cup d]]
      BY <2>4 DEF WalkedTo
    <3> HIDE DEF q, R, w
    <3> QED
      BY <1>11, <2>5, <2>6, <3>1
  <2>8. q.how = "end" => \E e \in o..(PAGE_SIZE - 1) : EndsAt(f, s, o, R(o), e)
    <3> HAVE q.how = "end"
    <3>1. PICK e \in n..(PAGE_SIZE - 1) : EndsAt(f, s, n, q, e)
      BY <2>4 DEF WalkedTo
    <3>2. e \in o..(PAGE_SIZE - 1)
      <4>1. n \in Nat /\ n > o /\ o \in Nat
        BY <1>5, <2>2 DEF Offsets
      <4> HIDE DEF n
      <4> QED
        BY <4>1, Sizes
    <3>3. EndsAt(f, s, o, R(o), e)
      BY <2>2, <2>7, <3>1 DEF EndsAt
    <3> QED
      BY <3>2, <3>3
  <2> HIDE DEF R, q
  <2> QED
    BY <1>3, <2>7, <2>8 DEF WalkedTo
<1> QED
  BY <1>8, <1>9, <1>10, <1>11

-----------------------------------------------------------------------------
(* Sorted, Largest and Least of a finite set of numbers.                    *)

Below(S, x) == {y \in S : y < x}
Rank(S, x) == Cardinality(Below(S, x))

LEMMA Ranks ==
  ASSUME NEW S \in SUBSET Nat, IsFiniteSet(S)
  PROVE  /\ Cardinality(S) \in Nat
         /\ \A x \in S : Rank(S, x) \in 0..(Cardinality(S) - 1)
         /\ \A x, y \in S : x < y => Rank(S, x) < Rank(S, y)
         /\ \A x, y \in S : Rank(S, x) = Rank(S, y) => x = y
         /\ \A i \in 0..(Cardinality(S) - 1) : \E x \in S : Rank(S, x) = i
<1>1. Cardinality(S) \in Nat
  BY FS_CardinalityType
<1>2. \A x \in S : /\ IsFiniteSet(Below(S, x)) /\ Rank(S, x) \in Nat
                   /\ Rank(S, x) < Cardinality(S)
  <2> TAKE x \in S
  <2>1. Below(S, x) \in SUBSET S /\ x \notin Below(S, x)
    BY DEF Below
  <2>2. /\ IsFiniteSet(Below(S, x)) /\ Cardinality(Below(S, x)) <= Cardinality(S)
        /\ Cardinality(S) = Cardinality(Below(S, x)) => S = Below(S, x)
    BY <2>1, FS_Subset
  <2>3. Cardinality(Below(S, x)) \in Nat /\ S # Below(S, x)
    BY <2>1, <2>2, FS_CardinalityType
  <2> QED
    BY <1>1, <2>2, <2>3 DEF Rank
<1>3. \A x, y \in S : x < y => Rank(S, x) < Rank(S, y)
  <2> SUFFICES ASSUME NEW x \in S, NEW y \in S, x < y PROVE Rank(S, x) < Rank(S, y)
    OBVIOUS
  <2>0. x \in Nat /\ y \in Nat /\ \A z \in S : z \in Nat
    OBVIOUS
  <2>1. Below(S, x) \in SUBSET Below(S, y) /\ x \in Below(S, y) /\ x \notin Below(S, x)
    <3>1. \A z \in S : z < x => z < y
      BY <2>0
    <3>2. ~(x < x)
      BY <2>0
    <3> QED
      BY <3>1, <3>2 DEF Below
  <2>2. /\ Cardinality(Below(S, x)) <= Cardinality(Below(S, y))
        /\ Cardinality(Below(S, y)) = Cardinality(Below(S, x)) => Below(S, y) = Below(S, x)
    BY <1>2, <2>1, FS_Subset
  <2> QED
    BY <1>2, <2>1, <2>2 DEF Rank
<1>4. \A x, y \in S : Rank(S, x) = Rank(S, y) => x = y
  <2> TAKE x, y \in S
  <2>1. x \in Nat /\ y \in Nat
    OBVIOUS
  <2> QED
    BY <1>2, <1>3, <2>1
<1> DEFINE T == 0..(Cardinality(S) - 1)
           r == [x \in S |-> Rank(S, x)]
<1>5. r \in Injection(S, T)
  BY <1>1, <1>2, <1>4 DEF Injection, IsInjective
<1>6. IsFiniteSet(T) /\ Cardinality(T) = Cardinality(S)
  <2>1. 0 \in Int /\ Cardinality(S) - 1 \in Int
    BY <1>1
  <2>2. IsFiniteSet(T) /\ Cardinality(T) = IF 0 > Cardinality(S) - 1 THEN 0 ELSE (Cardinality(S) - 1) - 0 + 1
    BY <2>1, FS_Interval
  <2> QED
    BY <1>1, <2>2
<1>7. r \in Surjection(S, T)
  BY <1>5, <1>6, FS_Injection
<1>8. \A i \in T : \E x \in S : r[x] = i
  BY <1>7 DEF Surjection
<1> QED
  BY <1>1, <1>2, <1>3, <1>4, <1>8

LEMMA SortedIs ==
  ASSUME NEW S \in SUBSET Nat, IsFiniteSet(S)
  PROVE  /\ Sorted(S) \in Seq(S) /\ Len(Sorted(S)) = Cardinality(S)
         /\ DOMAIN Sorted(S) = 1..Cardinality(S)
         /\ \A i, j \in 1..Cardinality(S) : Sorted(S)[i] = Sorted(S)[j] => i = j
         /\ \A x \in S : \E i \in 1..Cardinality(S) : Sorted(S)[i] = x
         /\ 0 \in S => Sorted(S)[1] = 0
<1> DEFINE n == Cardinality(S)
           Q == Sorted(S)
<1>1. n \in Nat
  BY Ranks
<1>2. \A i \in 1..n : Q[i] \in S /\ Rank(S, Q[i]) = i - 1
  <2> TAKE i \in 1..n
  <2>1. i - 1 \in 0..(n - 1)
    BY <1>1
  <2>2. \E x \in S : Rank(S, x) = i - 1
    BY <2>1, Ranks
  <2>3. Q[i] = CHOOSE x \in S : Rank(S, x) = i - 1
    BY DEF Sorted, Rank, Below
  <2> QED
    BY <2>2, <2>3
<1>3. Q = [i \in 1..n |-> Q[i]]
  <2>1. Q = [i \in 1..n |-> CHOOSE x \in S : Rank(S, x) = i - 1]
    BY DEF Sorted, Rank, Below
  <2> HIDE DEF Q
  <2> QED
    BY <2>1
<1>4. Q \in [1..n -> S]
  BY <1>2, <1>3
<1>5. Q \in Seq(S) /\ Len(Q) = n /\ DOMAIN Q = 1..n
  BY <1>1, <1>4
<1>6. \A i, j \in 1..n : Q[i] = Q[j] => i = j
  BY <1>1, <1>2
<1>7. \A x \in S : \E i \in 1..n : Q[i] = x
  <2> TAKE x \in S
  <2>1. Rank(S, x) \in 0..(n - 1)
    BY Ranks
  <2>2. Rank(S, x) + 1 \in 1..n /\ (Rank(S, x) + 1) - 1 = Rank(S, x)
    BY <1>1, <2>1
  <2> DEFINE i == Rank(S, x) + 1
  <2>3. Q[i] \in S /\ Rank(S, Q[i]) = Rank(S, x)
    BY <1>2, <2>2
  <2>4. Q[i] = x
    <3>1. \A y, z \in S : Rank(S, y) = Rank(S, z) => y = z
      BY Ranks
    <3> HIDE DEF Q, i
    <3> QED
      BY <2>3, <3>1
  <2> QED
    BY <2>2, <2>4
<1>8. 0 \in S => Q[1] = 0
  <2> HAVE 0 \in S
  <2>1. PICK i \in 1..n : Q[i] = 0
    BY <1>7
  <2>2. 1 \in 1..n /\ i \in Nat /\ Q[1] \in Nat
    <3>1. 1 \in 1..n /\ i \in Nat
      BY <1>1
    <3> HIDE DEF Q
    <3> QED
      BY <1>2, <3>1
  <2>3. ~(0 < Q[1])
    <3>1. 0 < Q[1] => Rank(S, 0) < Rank(S, Q[1])
      BY <1>2, <2>2, Ranks
    <3>2. Rank(S, Q[1]) = 0 /\ Rank(S, 0) = i - 1
      BY <1>2, <2>1, <2>2
    <3> QED
      BY <2>2, <3>1, <3>2
  <2> QED
    BY <2>2, <2>3
<1> QED
  BY <1>5, <1>6, <1>7, <1>8

LEMMA LargestIs ==
  ASSUME NEW S \in SUBSET Nat, IsFiniteSet(S), S # {}
  PROVE  Largest(S) \in S /\ \A y \in S : y <= Largest(S)
<1>1. Cardinality(S) \in Nat /\ Cardinality(S) # 0
  BY FS_CardinalityType, FS_EmptySet
<1>2. PICK x \in S : Rank(S, x) = Cardinality(S) - 1
  <2>1. Cardinality(S) - 1 \in 0..(Cardinality(S) - 1)
    BY <1>1
  <2> QED
    BY <2>1, Ranks
<1>3. \A y \in S : y <= x
  <2> TAKE y \in S
  <2>1. x \in Nat /\ y \in Nat
    OBVIOUS
  <2>2. ~(x < y)
    <3>1. x < y => Rank(S, x) < Rank(S, y)
      BY Ranks
    <3>2. Rank(S, y) \in 0..(Cardinality(S) - 1)
      BY Ranks
    <3> QED
      BY <1>1, <1>2, <3>1, <3>2
  <2> QED
    BY <2>1, <2>2
<1> QED
  BY <1>3 DEF Largest

LEMMA LeastIs ==
  ASSUME NEW S \in SUBSET Nat, S # {}
  PROVE  Least(S) \in S /\ \A y \in S : Least(S) <= y
BY LeastNumber DEF Least

LEMMA SectorsFinite ==
  /\ IsFiniteSet(Sectors) /\ Cardinality(Sectors) = NSECTORS
  /\ Sectors \subseteq Nat /\ 0 \in Sectors
  /\ \A S \in SUBSET Sectors :
       IsFiniteSet(S) /\ Cardinality(S) \in Nat /\ Cardinality(S) <= NSECTORS
<1>1. IsFiniteSet(Sectors) /\ Cardinality(Sectors) = NSECTORS
  BY Sizes, FS_Interval DEF Sectors
<1>2. \A S \in SUBSET Sectors :
       IsFiniteSet(S) /\ Cardinality(S) \in Nat /\ Cardinality(S) <= NSECTORS
  BY <1>1, FS_Subset, FS_CardinalityType
<1> QED
  BY <1>1, <1>2, Sizes DEF Sectors

-----------------------------------------------------------------------------
(* do_load over the pages of page_seq.                                      *)

(* Page s of f holds whole records below e, and nothing from e on.          *)
FilledTo(f, s, e) ==
  /\ e \in HeaderLen..(PAGE_SIZE - 1)
  /\ \A o \in Offsets : InUse(f, s, o) <=> o < e
  /\ IsLastWord(f[Addr(s, e - 1)])

LEMMA HeaderEnds ==
  ASSUME NEW f, NEW c, FlashType(f, c), NEW s \in Sectors, Packed(f, s), Placed(f, s),
         HasHeader(f, s)
  PROVE  /\ InUse(f, s, HeaderLen - 1) /\ IsLastWord(f[Addr(s, HeaderLen - 1)])
         /\ Boundary(f, s, HeaderLen)
<1> DEFINE w == f[Addr(s, HeaderLen - 1)]
           b == f[Addr(s, HeaderLen)]
<1>1. /\ HeaderLen - 1 \in Offsets /\ HeaderLen \in Offsets /\ HeaderLen - 1 \in 0..HeaderLen
      /\ HeaderLen - 1 \in 0..(HeaderLen - 1) /\ HeaderLen - 1 < HeaderLen
  BY SizesAssumption DEF Offsets
<1>2. InUse(f, s, HeaderLen - 1)
  BY <1>1, HasHeaderIs
<1>3. w.tag = "header" /\ w.k = HeaderLen - 1
  BY <1>1, <1>2 DEF Placed
<1>4. ASSUME InUse(f, s, HeaderLen), b.k # 0 PROVE FALSE
  <2>1. b.k \in Nat /\ b.k > 0 /\ b = [tag |-> b.tag, val |-> b.val, k |-> b.k]
        /\ b.tag \in Tags \cup {"header"} /\ b.k <= LenOf(b.tag) - 1
    BY <1>1, <1>4, CellType, TagsAreApart
  <2>2. HeaderLen - (HeaderLen - 1) <= b.k /\ HeaderLen - (HeaderLen - 1) = 1
    BY <2>1, Sizes
  <2>3. w = [b EXCEPT !.k = @ - (HeaderLen - (HeaderLen - 1))]
    BY <1>1, <1>4, <2>2 DEF Packed
  <2>4. w.tag = b.tag /\ w.k = b.k - 1
    BY <2>1, <2>2, <2>3
  <2> HIDE DEF b, w
  <2> QED
    BY <1>3, <2>1, <2>4, TagsAreApart, Sizes
<1> QED
  BY <1>2, <1>3, <1>4, TagsAreApart DEF Boundary, IsLastWord

LEMMA PageReadIs ==
  ASSUME NEW f, NEW c, FlashType(f, c), NEW d \in SUBSET Nat, LastIsDone(f, d),
         NEW s \in Sectors, Packed(f, s), Placed(f, s), HasHeader(f, s)
  PROVE  LET r == PageRead(f, s)
         IN /\ r.vals \in [Tags -> {0} \cup d]
            /\ r.how = "end" => FilledTo(f, s, r.at - Addr(s, 0))
<1> DEFINE r == PageRead(f, s)
<1>1. 1 \in Offsets /\ 1 \in 0..(HeaderLen - 1) /\ HeaderLen \in HeaderLen..(PAGE_SIZE - 1)
  BY SizesAssumption DEF Offsets
<1>2. r = Walk(f)[Addr(s, HeaderLen)]
  <2>1. Programmed(f, Addr(s, 1))
    BY <1>1, ProgrammedIs, HasHeaderIs
  <2> QED
    BY <2>1 DEF PageRead
<1>3. WalkedTo(f, s, HeaderLen, d, r)
  BY <1>1, <1>2, WalkPage, HeaderEnds
<1>4. r.how = "end" => FilledTo(f, s, r.at - Addr(s, 0))
  <2> HAVE r.how = "end"
  <2>1. PICK e \in HeaderLen..(PAGE_SIZE - 1) : EndsAt(f, s, HeaderLen, r, e)
    BY <1>3 DEF WalkedTo
  <2>2. e \in Offsets /\ e - 1 \in Offsets /\ e \in Nat
    BY SizesAssumption DEF Offsets
  <2>3. r.at - Addr(s, 0) = e
    <3>1. Addr(s, 0) + e = Addr(s, 0 + e) /\ 0 + e = e
      BY <2>2, AddrSum
    <3>2. Addr(s, 0) \in Nat /\ r.at = Addr(s, e)
      BY <2>1, AddrBounds DEF EndsAt
    <3> HIDE DEF r
    <3> QED
      BY <2>2, <3>1, <3>2
  <2>4. InUse(f, s, e - 1) /\ IsLastWord(f[Addr(s, e - 1)]) /\ ~InUse(f, s, e)
    BY <2>1, HeaderEnds DEF EndsAt
  <2>5. \A o \in Offsets : InUse(f, s, o) <=> o < e
    <3> TAKE o \in Offsets
    <3>1. o \in Nat /\ (o < e - 1 => InUse(f, s, o)) /\ (e < o => ~InUse(f, s, o))
      BY <2>2, <2>4 DEF Packed, Offsets
    <3> QED
      BY <2>2, <2>4, <3>1
  <2> QED
    BY <2>3, <2>4, <2>5 DEF FilledTo
<1> QED
  BY <1>3, <1>4 DEF WalkedTo

WellFormed(f) ==
  /\ FlashType(f, count)
  /\ \A s \in Sectors : Packed(f, s) /\ Placed(f, s)
  /\ LastIsDone(f, done)

IsMap(seq) ==
  /\ IsFiniteSet(DOMAIN seq) /\ DOMAIN seq \subseteq Nat
  /\ seq \in [DOMAIN seq -> Sectors]

Started(f, seq, try) ==
  /\ pc' = "ready" /\ job' = NoJob /\ todo' = << >> /\ why' = why
  /\ \A n \in DOMAIN seq : HasHeader(f, seq[n])
  /\ append_point' \in [Sectors -> 0..PAGE_SIZE]
  /\ \A n \in DOMAIN seq : FilledTo(f, seq[n], append_point'[seq[n]])
  /\ \A s \in Sectors : (\A n \in DOMAIN seq : seq[n] # s) => append_point'[s] = append_point[s]
  /\ values' \in [Tags -> {0} \cup done]

Thrown(try) ==
  /\ todo' \in Seq(Sectors) /\ job' \in Jobs
  /\ \/ pc' = "wiping" /\ try = 1 /\ job' = [NoJob EXCEPT !.try = 2] /\ why' = why
     \/ pc' = "halted" /\ why' \in {"uncaught", "unknown_tag"}

LEMMA NoJobIsJob == NoJob \in Jobs /\ [NoJob EXCEPT !.try = 2] \in Jobs
<1>1. 0 \in Sectors
  BY SectorsFinite
<1> QED
  BY <1>1 DEF NoJob, Jobs

LEMMA LoadThrowsIs ==
  ASSUME NEW try, LoadThrows(try)
  PROVE  Thrown(try)
<1>1. Sorted(Sectors) \in Seq(Sectors)
  BY SortedIs, SectorsFinite
<1>2. CASE try = 1
  <2>1. pc' = "wiping" /\ todo' = Sorted(Sectors) /\ job' = [NoJob EXCEPT !.try = 2] /\ why' = why
    BY <1>2 DEF LoadThrows
  <2> QED
    BY <1>1, <1>2, <2>1, NoJobIsJob DEF Thrown
<1>3. CASE try # 1
  <2>1. pc' = "halted" /\ why' = "uncaught" /\ todo' = << >> /\ job' = NoJob
    BY <1>3 DEF LoadThrows, Halt
  <2>2. todo' \in Seq(Sectors)
    BY <2>1
  <2> QED
    BY <2>1, <2>2, NoJobIsJob DEF Thrown
<1> QED
  BY <1>2, <1>3

LEMMA ReadPagesIs ==
  ASSUME NEW f, WellFormed(f), done \subseteq Nat, NEW seq, NEW try, IsMap(seq),
         append_point \in [Sectors -> 0..PAGE_SIZE], values \in [Tags -> {0} \cup done],
         \A n \in DOMAIN seq : HasHeader(f, seq[n]) \/ ~InUse(f, seq[n], 1),
         ReadPages(f, seq, try)
  PROVE  \/ Started(f, seq, try)
         \/ /\ Thrown(try) /\ UNCHANGED <<append_point, values>>
            /\ \E n \in DOMAIN seq : PageRead(f, seq[n]).how # "end"
<1> DEFINE reads == [n \in DOMAIN seq |-> PageRead(f, seq[n])]
           bad == {n \in DOMAIN seq : reads[n].how # "end"}
           pagesOf(s) == {n \in DOMAIN seq : seq[n] = s}
           endOf(s) == reads[Largest(pagesOf(s))].at - Addr(s, 0)
<1>1. CASE bad = {}
  <2>1. \A n \in DOMAIN seq : HasHeader(f, seq[n])
    <3> SUFFICES ASSUME NEW n \in DOMAIN seq, ~InUse(f, seq[n], 1)
                 PROVE  FALSE
      OBVIOUS
    <3>1. 1 \in Offsets /\ seq[n] \in Sectors
      BY SizesAssumption DEF Offsets, IsMap
    <3>2. ~Programmed(f, Addr(seq[n], 1))
      BY <3>1, ProgrammedIs
    <3>3. reads[n].how = "ecc_error"
      BY <3>2 DEF PageRead
    <3> QED
      BY <1>1, <3>3
  <2>2. \A n \in DOMAIN seq : /\ reads[n].vals \in [Tags -> {0} \cup done]
                              /\ FilledTo(f, seq[n], reads[n].at - Addr(seq[n], 0))
    <3> TAKE n \in DOMAIN seq
    <3>1. seq[n] \in Sectors /\ HasHeader(f, seq[n]) /\ reads[n] = PageRead(f, seq[n])
      BY <2>1 DEF IsMap
    <3>2. reads[n].how = "end"
      BY <1>1
    <3> HIDE DEF reads
    <3> QED
      BY <3>1, <3>2, PageReadIs DEF WellFormed
  <2>3. \A s \in Sectors : (\E n \in DOMAIN seq : seq[n] = s) => FilledTo(f, s, endOf(s))
    <3> SUFFICES ASSUME NEW s \in Sectors, NEW n \in DOMAIN seq, seq[n] = s
                 PROVE  FilledTo(f, s, endOf(s))
      OBVIOUS
    <3>1. pagesOf(s) \in SUBSET (DOMAIN seq) /\ n \in pagesOf(s) /\ pagesOf(s) \in SUBSET Nat
      BY DEF IsMap
    <3>2. IsFiniteSet(pagesOf(s))
      BY <3>1, FS_Subset DEF IsMap
    <3>3. Largest(pagesOf(s)) \in pagesOf(s)
      <4> HIDE DEF pagesOf
      <4> QED
        BY <3>1, <3>2, LargestIs
    <3> HIDE DEF reads
    <3> QED
      BY <2>2, <3>3
  <2>4. /\ append_point' = [s \in Sectors |->
             IF \E n \in DOMAIN seq : seq[n] = s THEN endOf(s) ELSE append_point[s]]
        /\ values' = [t \in Tags |-> LastValue(reads, t, values[t])]
        /\ pc' = "ready" /\ job' = NoJob /\ todo' = << >> /\ why' = why
    BY <1>1 DEF ReadPages
  <2>5. \A t \in Tags : LastValue(reads, t, values[t]) \in {0} \cup done
    <3> TAKE t \in Tags
    <3> DEFINE with == {n \in DOMAIN reads : reads[n].vals[t] # 0}
    <3>1. CASE with = {}
      BY <3>1 DEF LastValue
    <3>2. CASE with # {}
      <4>1. with \in SUBSET (DOMAIN seq) /\ with \in SUBSET Nat /\ DOMAIN reads = DOMAIN seq
        BY DEF IsMap
      <4>2. IsFiniteSet(with)
        BY <4>1, FS_Subset DEF IsMap
      <4>3. Largest(with) \in with
        <5> HIDE DEF with
        <5> QED
          BY <3>2, <4>1, <4>2, LargestIs
      <4>4. LastValue(reads, t, values[t]) = reads[Largest(with)].vals[t]
        BY <3>2 DEF LastValue
      <4> HIDE DEF reads, with
      <4>5. Largest(with) \in DOMAIN seq
        BY <4>1, <4>3
      <4>6. reads[Largest(with)].vals \in [Tags -> {0} \cup done]
        BY <2>2, <4>5
      <4> QED
        BY <4>4, <4>6
    <3> QED
      BY <3>1, <3>2
  <2>6. append_point' \in [Sectors -> 0..PAGE_SIZE]
    <3>1. \A s \in Sectors : (\E n \in DOMAIN seq : seq[n] = s) => endOf(s) \in 0..PAGE_SIZE
      <4>1. HeaderLen..(PAGE_SIZE - 1) \subseteq 0..PAGE_SIZE
        BY Sizes
      <4> HIDE DEF endOf
      <4> QED
        BY <2>3, <4>1 DEF FilledTo
    <3> HIDE DEF endOf
    <3> QED
      BY <2>4, <3>1
  <2>7. \A n \in DOMAIN seq : FilledTo(f, seq[n], append_point'[seq[n]])
    <3> TAKE n \in DOMAIN seq
    <3>1. seq[n] \in Sectors
      BY DEF IsMap
    <3> HIDE DEF endOf
    <3> QED
      BY <2>3, <2>4, <3>1
  <2>8. \A s \in Sectors : (\A n \in DOMAIN seq : seq[n] # s) => append_point'[s] = append_point[s]
    <3> HIDE DEF endOf
    <3> QED
      BY <2>4
  <2>9. values' \in [Tags -> {0} \cup done]
    <3> HIDE DEF reads
    <3> QED
      BY <2>4, <2>5
  <2> QED
    BY <2>1, <2>4, <2>6, <2>7, <2>8, <2>9 DEF Started
<1>2. CASE bad # {}
  <2>1. /\ UNCHANGED <<append_point, values>>
        /\ \/ Halt("unknown_tag")
           \/ LoadThrows(try)
    BY <1>2 DEF ReadPages
  <2>2. Halt("unknown_tag") => Thrown(try)
    BY NoJobIsJob DEF Halt, Thrown
  <2>3. \E n \in DOMAIN seq : PageRead(f, seq[n]).how # "end"
    BY <1>2
  <2> QED
    BY <2>1, <2>2, <2>3, LoadThrowsIs
<1> QED
  BY <1>1, <1>2

-----------------------------------------------------------------------------
(* scan_headers.                                                            *)

LEMMA ScanFindsNoOtherTag ==
  ASSUME NEW f, WellFormed(f)
  PROVE  ScanStop(f) = NSECTORS
<1>1. \A s \in Sectors : ~BadTag(f, s)
  <2> TAKE s \in Sectors
  <2>1. 0 \in Offsets /\ 0 < HeaderLen
    BY Sizes DEF Offsets
  <2>2. InUse(f, s, 0) => f[Addr(s, 0)].tag = "header"
    BY <2>1 DEF WellFormed, Placed
  <2> QED
    BY <2>1, <2>2, ProgrammedIs DEF BadTag
<1> QED
  BY <1>1 DEF ScanStop

LEMMA UnheaderedIs ==
  ASSUME NEW f
  PROVE  LET free == Unheadered(f, NSECTORS)
         IN /\ free \in Seq(Sectors) /\ Len(free) <= NSECTORS
            /\ \A i \in DOMAIN free : ~HasHeader(f, free[i])
            /\ \A i, j \in DOMAIN free : free[i] = free[j] => i = j
            /\ \A s \in Sectors : ~HasHeader(f, s) => \E i \in DOMAIN free : free[i] = s
            /\ ~HasHeader(f, 0) => free # << >> /\ Head(free) = 0
<1> DEFINE S == {s \in Sectors : ~HasHeader(f, s)}
           free == Unheadered(f, NSECTORS)
<1>1. free = Sorted(S)
  BY DEF Unheadered, Sectors
<1>2. S \in SUBSET Sectors /\ S \in SUBSET Nat /\ IsFiniteSet(S)
      /\ Cardinality(S) \in Nat /\ Cardinality(S) <= NSECTORS
  BY SectorsFinite
<1>3. /\ free \in Seq(S) /\ Len(free) = Cardinality(S) /\ DOMAIN free = 1..Cardinality(S)
      /\ \A i, j \in 1..Cardinality(S) : free[i] = free[j] => i = j
      /\ \A x \in S : \E i \in 1..Cardinality(S) : free[i] = x
      /\ 0 \in S => free[1] = 0
  <2> HIDE DEF S, free
  <2> QED
    BY <1>1, <1>2, SortedIs
<1>4. \A i \in DOMAIN free : free[i] \in S
  <2>1. \A q \in Seq(S) : \A i \in DOMAIN q : q[i] \in S
    OBVIOUS
  <2> HIDE DEF free, S
  <2> QED
    BY <1>3, <2>1
<1>5. free \in Seq(Sectors)
  <2> HIDE DEF free
  <2> QED
    BY <1>2, <1>3
<1>6. ~HasHeader(f, 0) => free # << >> /\ Head(free) = 0
  <2> HAVE ~HasHeader(f, 0)
  <2>1. 0 \in S
    BY SectorsFinite
  <2>2. \E i \in 1..Cardinality(S) : free[i] = 0
    BY <1>3, <2>1
  <2>3. Len(free) > 0
    <3> HIDE DEF free, S
    <3> QED
      BY <1>2, <1>3, <2>2
  <2> HIDE DEF free, S
  <2> QED
    BY <1>3, <2>1, <2>3
<1> HIDE DEF free
<1> QED
  BY <1>2, <1>3, <1>4, <1>5, <1>6 DEF free

LEMMA HeaderedIs ==
  ASSUME NEW f, WellFormed(f), SerialsDiffer(f)
  PROVE  LET on == Headered(f, NSECTORS)
         IN /\ IsMap(on)
            /\ \A n \in DOMAIN on : HasHeader(f, on[n]) /\ Serial(f, on[n]) = n
            /\ \A s \in Sectors : HasHeader(f, s) =>
                 Serial(f, s) \in DOMAIN on /\ on[Serial(f, s)] = s
<1> DEFINE S == {s \in Sectors : HasHeader(f, s)}
           N == {Serial(f, s) : s \in S}
           on == Headered(f, NSECTORS)
           r == [s \in S |-> Serial(f, s)]
<1>1. on = [n \in N |-> Largest({s \in S : Serial(f, s) = n})]
  BY DEF Headered, Sectors, Serial
<1>2. S \in SUBSET Sectors /\ S \in SUBSET Nat /\ IsFiniteSet(S)
  BY SectorsFinite
<1>3. IsFiniteSet(N)
  <2>1. r \in Surjection(S, N)
    BY DEF Surjection
  <2> HIDE DEF S, N, r
  <2> QED
    BY <1>2, <2>1, FS_Surjection
<1>4. N \subseteq Nat
  <2>1. \A s \in S : Serial(f, s) \in Nat
    <3> TAKE s \in S
    <3>1. 0 \in Offsets /\ s \in Sectors
      BY Sizes DEF Offsets
    <3> QED
      BY <3>1, CellType DEF WellFormed, Serial
  <2> QED
    BY <2>1
<1>5. \A s \in S : on[Serial(f, s)] = s
  <2> TAKE s \in S
  <2>1. {u \in S : Serial(f, u) = Serial(f, s)} = {s}
    BY DEF SerialsDiffer
  <2>2. Largest({s}) = s
    BY <1>2 DEF Largest
  <2>3. Serial(f, s) \in N
    OBVIOUS
  <2> HIDE DEF N, on, S
  <2> QED
    BY <1>1, <2>1, <2>2, <2>3
<1>6. \A n \in N : \E s \in S : Serial(f, s) = n /\ on[n] = s
  BY <1>5
<1>7. DOMAIN on = N /\ on \in [N -> Sectors]
  <2> HIDE DEF N, on
  <2> QED
    BY <1>1, <1>6, <1>2
<1> HIDE DEF on
<1> QED
  BY <1>3, <1>4, <1>5, <1>6, <1>7 DEF IsMap, on

LEMMA UpdatedIs ==
  ASSUME NEW old, NEW new, IsMap(old), IsMap(new)
  PROVE  /\ IsMap(Updated(old, new))
         /\ DOMAIN Updated(old, new) = DOMAIN old \cup DOMAIN new
         /\ \A n \in DOMAIN old \cup DOMAIN new :
              Updated(old, new)[n] = IF n \in DOMAIN new THEN new[n] ELSE old[n]
<1>1. IsFiniteSet(DOMAIN old \cup DOMAIN new)
  BY FS_Union DEF IsMap
<1> QED
  BY <1>1 DEF IsMap, Updated

LEMMA NoPagesIsMap == IsMap(NoPages) /\ DOMAIN NoPages = {}
BY FS_EmptySet DEF IsMap, NoPages

LEMMA ConcatIs ==
  ASSUME NEW a \in Seq(Sectors), NEW b \in Seq(Sectors)
  PROVE  /\ a \o b \in Seq(Sectors) /\ Len(a \o b) = Len(a) + Len(b)
         /\ \A i \in DOMAIN (a \o b) : \/ i \in DOMAIN a /\ (a \o b)[i] = a[i]
                                       \/ i - Len(a) \in DOMAIN b /\ (a \o b)[i] = b[i - Len(a)]
         /\ a = << >> => a \o b = b
OBVIOUS

LEMMA TailIs ==
  ASSUME NEW q \in Seq(Sectors), q # << >>
  PROVE  /\ Head(q) \in Sectors /\ Head(q) = q[1] /\ Tail(q) \in Seq(Sectors)
         /\ Len(Tail(q)) = Len(q) - 1 /\ Len(q) > 0 /\ 1 \in DOMAIN q
         /\ \A i \in DOMAIN Tail(q) : i + 1 \in DOMAIN q /\ i + 1 # 1 /\ Tail(q)[i] = q[i + 1]
         /\ \A i \in DOMAIN q : i # 1 => i - 1 \in DOMAIN Tail(q) /\ Tail(q)[i - 1] = q[i]
OBVIOUS

-----------------------------------------------------------------------------
(* A halfword of the job is programmed.                                     *)

TheWord == Word(job.tag, job.val, job.k)

(* Where the job may write: page job.page holds nothing from append_point   *)
(* on; only a header is written at the start of a page.                     *)
JobFits ==
  /\ append_point \in [Sectors -> 0..PAGE_SIZE] /\ Begun
  /\ job.tag \in Tags \cup {"header"}
  /\ job.tag \in Tags =>
       /\ job.val \in 1..count /\ HasHeader(flash, job.page)
       /\ append_point[job.page] - job.k + LenOf(job.tag) < PAGE_SIZE
  /\ append_point[job.page] >= HeaderLen => count >= 1

LEMMA ProgramPlace ==
  ASSUME FlashInv, JobFits, CanProgram
  PROVE  /\ Offset \in Offsets /\ job.page \in Sectors
         /\ Exact(job.page)
         /\ Follows(flash, job.page, Offset, TheWord)
         /\ Offset < HeaderLen => job.tag = "header" /\ job.k = Offset
<1> DEFINE p == job.page
           e == append_point[p]
           w == TheWord
<1>1. /\ p \in Sectors /\ e \in 0..PAGE_SIZE /\ Offset = e
      /\ job.k \in Nat /\ job.k <= LenOf(job.tag) - 1 /\ LenOf(job.tag) \in Nat
  BY TagsAreApart DEF JobFits, Begun, Offset
<1>2. e \in Offsets
  BY <1>1, Sizes DEF CanProgram, Offsets
<1>3. ~InUse(flash, p, e)
  BY <1>1, <1>2, ProgrammedIs DEF CanProgram, Cell
<1>4. Exact(p) /\ (job.k = 0 => Whole(p))
  BY <1>1, <1>3 DEF JobFits, Begun, Waiting
<1>5. w \in [tag : Tags \cup {"header"}, val : Nat, k : Nat]
      /\ w.tag = job.tag /\ w.val = job.val /\ w.k = job.k
  BY <1>1 DEF TheWord, Word, JobFits, Begun
<1>6. w.k > 0 => e > 0 /\ flash[Addr(p, e - 1)] = [w EXCEPT !.k = @ - 1]
  BY <1>1 DEF JobFits, Begun, TheWord, Word
<1>7. Follows(flash, p, e, w)
  BY <1>1, <1>4, <1>5, <1>6 DEF Follows, Whole
<1>8. e < HeaderLen => job.tag = "header"
  <2> SUFFICES ASSUME e < HeaderLen, job.tag \in Tags PROVE FALSE
    BY DEF JobFits
  <2>1. HeaderLen - 1 \in 0..(HeaderLen - 1) /\ HeaderLen - 1 \in Offsets
    BY SizesAssumption DEF Offsets
  <2>2. InUse(flash, p, HeaderLen - 1)
    BY <1>1, <2>1, HasHeaderIs DEF JobFits
  <2>3. HeaderLen - 1 < e
    BY <1>4, <2>1, <2>2 DEF Exact
  <2> QED
    BY <1>1, <2>3, Sizes
<1>9. e < HeaderLen => job.k = e
  <2> HAVE e < HeaderLen
  <2>1. CASE e = 0
    BY <1>1, <1>5, <1>6, <2>1
  <2>2. CASE e > 0
    <3>1. e - 1 \in Offsets /\ e - 1 < e /\ e - 1 < HeaderLen
      BY <1>2, <2>2, Sizes DEF Offsets
    <3>2. InUse(flash, p, e - 1)
      BY <1>4, <3>1 DEF Exact
    <3>3. flash[Addr(p, e - 1)].tag = "header" /\ flash[Addr(p, e - 1)].k = e - 1
      BY <1>1, <3>1, <3>2 DEF FlashInv, Placed
    <3>4. CASE job.k = 0
      <4>1. e - 1 = HeaderLen - 1
        BY <1>4, <2>2, <3>3, <3>4, TagsAreApart DEF Whole, IsLastWord
      <4> QED
        BY <1>1, <4>1, Sizes
    <3>5. CASE job.k > 0
      <4>1. flash[Addr(p, e - 1)].k = job.k - 1
        BY <1>5, <1>6, <3>5
      <4> QED
        BY <1>1, <3>3, <4>1
    <3> QED
      BY <1>1, <3>4, <3>5
  <2> QED
    BY <1>1, <2>1, <2>2
<1> QED
  BY <1>1, <1>2, <1>4, <1>7, <1>8, <1>9

LEMMA ProgramPages ==
  ASSUME FlashInv, JobFits, CanProgram
  PROVE  /\ \A s \in Sectors, o \in Offsets : WithWord[Addr(s, o)] =
              IF s = job.page /\ o = Offset THEN TheWord ELSE flash[Addr(s, o)]
         /\ \A s \in Sectors, o \in Offsets : InUse(WithWord, s, o) <=>
              (s = job.page /\ o = Offset) \/ InUse(flash, s, o)
         /\ FlashType(WithWord, count)
         /\ \A s \in Sectors : Packed(WithWord, s) /\ Placed(WithWord, s)
<1> DEFINE p == job.page
           e == Offset
           w == TheWord
           g == WithWord
<1>0. /\ e \in Offsets /\ p \in Sectors /\ Exact(p) /\ Follows(flash, p, e, w)
      /\ e < HeaderLen => job.tag = "header" /\ job.k = e
      /\ e = append_point[p]
  BY ProgramPlace DEF Offset
<1>1. flash \in [Area -> [tag : Tags \cup {"header", "erased"}, val : Nat, k : Nat]]
  BY DEF FlashInv, FlashType
<1>2. w.tag = job.tag /\ w.val = job.val /\ w.k = job.k /\ w # Erased
      /\ w \in [tag : Tags \cup {"header"}, val : Nat, k : Nat] /\ w.k <= LenOf(w.tag) - 1
  BY <1>0, TagsAreApart DEF TheWord, Word, Erased, Follows
<1>3. g = [flash EXCEPT ![Addr(p, e)] = w]
  BY DEF WithWord, Cell, TheWord, Offset
<1>4. \A s \in Sectors, o \in Offsets : g[Addr(s, o)] = IF s = p /\ o = e THEN w ELSE flash[Addr(s, o)]
  <2> HIDE DEF p, e, g, w
  <2> TAKE s \in Sectors, o \in Offsets
  <2>1. Addr(s, o) \in Area
    BY AddrBounds DEF Offsets
  <2>2. Addr(s, o) = Addr(p, e) => s = p /\ o = e
    BY <1>0, AddrInjective
  <2> QED
    BY <1>1, <1>3, <2>1, <2>2
<1>5. g \in [Area -> [tag : Tags \cup {"header", "erased"}, val : Nat, k : Nat]]
  BY <1>1, <1>2, <1>3
<1> HIDE DEF g, w
<1>6. \A s \in Sectors, o \in Offsets : InUse(g, s, o) <=> (s = p /\ o = e) \/ InUse(flash, s, o)
  BY <1>2, <1>4 DEF InUse
<1>7. FlashType(g, count)
  <2>1. ASSUME NEW s \in Sectors, NEW o \in Offsets, InUse(g, s, o)
        PROVE  /\ g[Addr(s, o)].tag \in Tags \cup {"header"}
               /\ g[Addr(s, o)].k <= LenOf(g[Addr(s, o)].tag) - 1
               /\ g[Addr(s, o)].tag \in Tags => g[Addr(s, o)].val \in 1..count
               /\ o >= HeaderLen => count >= 1
    <3>1. CASE s = p /\ o = e
      BY <1>0, <1>2, <1>4, <3>1 DEF JobFits
    <3>2. CASE ~(s = p /\ o = e)
      BY <1>4, <1>6, <2>1, <3>2 DEF FlashInv, FlashType
    <3> QED
      BY <3>1, <3>2
  <2> QED
    BY <1>5, <2>1 DEF FlashType
<1>8. Packed(g, p)
  <2>1. FlashType(flash, count) /\ Packed(flash, p)
    BY <1>0 DEF FlashInv
  <2>2. \A o \in Offsets : InUse(flash, p, o) <=> o < e
    BY <1>0 DEF Exact
  <2>3. \A o \in Offsets : g[Addr(p, o)] = IF o = e THEN w ELSE flash[Addr(p, o)]
    BY <1>0, <1>4
  <2>4. Follows(flash, p, e, w)
    BY <1>0 DEF w
  <2> HIDE DEF p, e
  <2> QED
    BY <1>0, <2>1, <2>2, <2>3, <2>4, PackedGrows
<1>9. Placed(g, p)
  <2> SUFFICES ASSUME NEW o \in Offsets, InUse(g, p, o)
               PROVE  /\ o < HeaderLen => g[Addr(p, o)].tag = "header" /\ g[Addr(p, o)].k = o
                      /\ g[Addr(p, o)].tag \in Tags =>
                           o - g[Addr(p, o)].k + LenOf(g[Addr(p, o)].tag) < PAGE_SIZE
    BY DEF Placed
  <2>1. CASE o = e
    BY <1>0, <1>2, <1>4, <2>1 DEF JobFits
  <2>2. CASE o # e
    <3>1. g[Addr(p, o)] = flash[Addr(p, o)] /\ InUse(flash, p, o) /\ Placed(flash, p)
      BY <1>0, <1>4, <1>6, <2>2 DEF FlashInv
    <3> QED
      BY <3>1 DEF Placed
  <2> QED
    BY <2>1, <2>2
<1>10. ASSUME NEW s \in Sectors, s # p PROVE Packed(g, s) /\ Placed(g, s)
  <2>1. \A o \in Offsets : g[Addr(s, o)] = flash[Addr(s, o)]
    BY <1>4, <1>10
  <2>2. Packed(flash, s) /\ Placed(flash, s)
    BY DEF FlashInv
  <2> HIDE DEF p
  <2> QED
    BY <2>1, <2>2, SamePage
<1> QED
  BY <1>4, <1>6, <1>7, <1>8, <1>9, <1>10 DEF g, w

LEMMA ProgramHeaders ==
  ASSUME FlashInv, JobFits, CanProgram
  PROVE  /\ \A s \in Sectors : HasHeader(WithWord, s) <=>
              HasHeader(flash, s) \/ (s = job.page /\ Offset = HeaderLen - 1)
         /\ \A s \in Sectors : HasHeader(flash, s) => Serial(WithWord, s) = Serial(flash, s)
         /\ Offset = HeaderLen - 1 =>
              ~HasHeader(flash, job.page) /\ Serial(WithWord, job.page) = job.val /\ IsLast
<1> DEFINE p == job.page
           e == Offset
           g == WithWord
<1>0. /\ e \in Offsets /\ e \in Nat /\ p \in Sectors /\ \A o \in Offsets : InUse(flash, p, o) <=> o < e
      /\ e < HeaderLen => job.tag = "header" /\ job.k = e
  BY ProgramPlace DEF Offset, Exact, Offsets
<1>1. \A s \in Sectors, o \in Offsets : g[Addr(s, o)] = IF s = p /\ o = e THEN TheWord ELSE flash[Addr(s, o)]
  BY ProgramPages
<1>2. \A s \in Sectors, o \in Offsets : InUse(g, s, o) <=> (s = p /\ o = e) \/ InUse(flash, s, o)
  BY ProgramPages
<1>3. /\ 0..(HeaderLen - 1) \subseteq Offsets /\ HeaderLen - 1 \in 0..(HeaderLen - 1) /\ 0 \in Offsets
      /\ HeaderLen - 1 \in Offsets
  BY SizesAssumption DEF Offsets
<1>4. HasHeader(flash, p) <=> HeaderLen - 1 < e
  BY <1>0, <1>3, HasHeaderIs
<1>5. HasHeader(g, p) <=> HeaderLen - 1 <= e
  <2>1. HasHeader(g, p) => HeaderLen - 1 <= e
    <3> HAVE HasHeader(g, p)
    <3>1. InUse(g, p, HeaderLen - 1)
      BY <1>0, <1>3, HasHeaderIs
    <3> HIDE DEF g, p, e
    <3> QED
      BY <1>0, <1>2, <1>3, <3>1, Sizes
  <2>2. HeaderLen - 1 <= e => HasHeader(g, p)
    <3> HAVE HeaderLen - 1 <= e
    <3>1. \A o \in 0..(HeaderLen - 1) : InUse(g, p, o)
      <4> HIDE DEF g, p, e
      <4> QED
        BY <1>0, <1>2, <1>3, Sizes
    <3> QED
      BY <1>0, <3>1, HasHeaderIs
  <2> QED
    BY <2>1, <2>2
<1>6. ASSUME NEW s \in Sectors, s # p
      PROVE  (HasHeader(g, s) <=> HasHeader(flash, s)) /\ Serial(g, s) = Serial(flash, s)
  <2>1. \A o \in Offsets : g[Addr(s, o)] = flash[Addr(s, o)]
    BY <1>1, <1>6
  <2> HIDE DEF g, p
  <2> QED
    BY <2>1, SamePage
<1>7. HasHeader(flash, p) => Serial(g, p) = Serial(flash, p)
  <2> HAVE HasHeader(flash, p)
  <2>1. 0 # e
    BY <1>0, <1>4, Sizes
  <2> HIDE DEF g, e
  <2> QED
    BY <1>0, <1>1, <1>3, <2>1 DEF Serial
<1>8. e = HeaderLen - 1 => ~HasHeader(flash, p) /\ Serial(g, p) = job.val /\ IsLast
  <2> HAVE e = HeaderLen - 1
  <2>1. ~HasHeader(flash, p)
    BY <1>0, <1>4, Sizes
  <2>2. job.tag = "header" /\ job.k = e
    BY <1>0, Sizes
  <2>3. IsLast
    BY <2>2, <1>0, TagsAreApart, Sizes DEF IsLast
  <2>4. g[Addr(p, e)] = TheWord /\ InUse(g, p, e) /\ 0 \in 0..e /\ Packed(g, p)
    BY <1>0, <1>1, <1>2, ProgramPages
  <2>5. TheWord = [tag |-> job.tag, val |-> job.val, k |-> e]
    BY <2>2 DEF TheWord, Word
  <2>6. e - 0 <= g[Addr(p, e)].k
    BY <1>0, <2>4, <2>5
  <2>7. g[Addr(p, 0)] = [g[Addr(p, e)] EXCEPT !.k = @ - (e - 0)]
    <3> HIDE DEF g, p, e
    <3> QED
      BY <1>0, <2>4, <2>6 DEF Packed
  <2>8. g[Addr(p, 0)].val = job.val
    <3> HIDE DEF g, e
    <3> QED
      BY <2>4, <2>5, <2>7
  <2> QED
    BY <2>1, <2>3, <2>8 DEF Serial
<1>9. ASSUME NEW s \in Sectors
      PROVE  /\ HasHeader(g, s) <=> HasHeader(flash, s) \/ (s = p /\ e = HeaderLen - 1)
             /\ HasHeader(flash, s) => Serial(g, s) = Serial(flash, s)
  <2>1. CASE s = p
    <3>1. HeaderLen - 1 <= e <=> HeaderLen - 1 < e \/ e = HeaderLen - 1
      BY <1>0, Sizes
    <3> HIDE DEF g, p, e
    <3> QED
      BY <1>4, <1>5, <1>7, <2>1, <3>1
  <2>2. CASE s # p
    BY <1>6, <2>2
  <2> QED
    BY <2>1, <2>2
<1> QED
  BY <1>8, <1>9

LEMMA TagInUse ==
  ASSUME NEW f, NEW c, FlashType(f, c), NEW s \in Sectors, NEW o \in Offsets
  PROVE  f[Addr(s, o)].tag \in Tags \cup {"header"} <=> InUse(f, s, o)
BY CellType

LEMMA ProgramOldFlash ==
  ASSUME FlashInv, JobFits, CanProgram, flash' = WithWord, count' = count, done \subseteq done',
         job.tag \in Tags /\ IsLast => job.val \in done',
         Offset = HeaderLen - 1 =>
           \A s \in Sectors : HasHeader(flash, s) => Serial(flash, s) # job.val
  PROVE  /\ FlashType(flash', count') /\ SerialsDiffer(flash') /\ LastIsDone(flash', done')
         /\ \A s \in Sectors : Packed(flash', s) /\ Placed(flash', s)
         /\ \A s \in Sectors : Spoiled(s) => Spoiled(s)'
<1>1. SerialsDiffer(flash')
  <2> SUFFICES ASSUME NEW s \in Sectors, NEW u \in Sectors, HasHeader(flash', s), HasHeader(flash', u),
                      Serial(flash', s) = Serial(flash', u)
               PROVE  s = u
    BY DEF SerialsDiffer
  <2>1. CASE HasHeader(flash, s) /\ HasHeader(flash, u)
    BY <2>1, ProgramHeaders DEF FlashInv, SerialsDiffer
  <2>2. CASE ~HasHeader(flash, s) \/ ~HasHeader(flash, u)
    BY <2>2, ProgramHeaders
  <2> QED
    BY <2>1, <2>2
<1>2. LastIsDone(flash', done')
  <2> SUFFICES ASSUME NEW s \in Sectors, NEW o \in Offsets,
                      flash'[Addr(s, o)].tag \in Tags, IsLastWord(flash'[Addr(s, o)])
               PROVE  flash'[Addr(s, o)].val \in done'
    BY DEF LastIsDone
  <2>1. CASE s = job.page /\ o = Offset
    <3>1. flash'[Addr(s, o)] = [tag |-> job.tag, val |-> job.val, k |-> job.k]
      BY <2>1, ProgramPages DEF TheWord, Word
    <3>2. job.tag \in Tags /\ job.k = LenOf(job.tag) - 1
      BY <3>1 DEF IsLastWord
    <3>3. IsLast
      BY <3>2, TagsAreApart DEF IsLast
    <3> QED
      BY <3>1, <3>2, <3>3
  <2>2. CASE ~(s = job.page /\ o = Offset)
    BY <2>2, ProgramPages DEF FlashInv, LastIsDone
  <2> QED
    BY <2>1, <2>2
<1>3. ASSUME NEW s \in Sectors, Spoiled(s) PROVE Spoiled(s)'
  <2>1. PICK o \in HeaderLen..(PAGE_SIZE - 1) : flash[Addr(s, o)].tag = "header"
    BY <1>3 DEF Spoiled
  <2>2. o \in Offsets
    BY Sizes DEF Offsets
  <2>3. InUse(flash, s, o) /\ (s = job.page => o # Offset)
    <3>1. InUse(flash, s, o)
      BY <2>1, <2>2, TagInUse DEF FlashInv
    <3>2. Exact(job.page) /\ Offset = append_point[job.page] /\ Offset \in Offsets
      BY ProgramPlace DEF Offset
    <3> QED
      BY <2>2, <3>1, <3>2 DEF Exact, Offsets
  <2>4. flash'[Addr(s, o)] = flash[Addr(s, o)]
    BY <2>2, <2>3, ProgramPages
  <2> QED
    BY <2>1, <2>4 DEF Spoiled
<1> QED
  BY <1>1, <1>2, <1>3, ProgramPages

LEMMA ProgramHeaderFlash ==
  ASSUME FlashInv, JobFits, CanProgram, flash' = WithWord, count' = count, done' = done,
         job.tag = "header",
         \A s \in Sectors : HasHeader(flash, s) => Serial(flash, s) # job.val
  PROVE  /\ FlashInv'
         /\ Offset >= HeaderLen => \A s \in Sectors : s = job.page => Spoiled(s)'
         /\ \A s \in Sectors : Spoiled(s) => Spoiled(s)'
<1>1. job.tag \notin Tags
  BY TagsAreApart
<1>2. /\ FlashType(flash', count') /\ SerialsDiffer(flash') /\ LastIsDone(flash', done')
      /\ \A s \in Sectors : Packed(flash', s) /\ Placed(flash', s)
      /\ \A s \in Sectors : Spoiled(s) => Spoiled(s)'
  BY <1>1, ProgramOldFlash
<1>3. Offset >= HeaderLen => \A s \in Sectors : s = job.page => Spoiled(s)'
  <2> SUFFICES ASSUME Offset >= HeaderLen, NEW s \in Sectors, s = job.page
               PROVE  \E off \in HeaderLen..(PAGE_SIZE - 1) : flash'[Addr(s, off)].tag = "header"
    BY DEF Spoiled
  <2>1. Offset \in HeaderLen..(PAGE_SIZE - 1) /\ Offset \in Offsets
    BY ProgramPlace, Sizes DEF Offsets
  <2>2. flash'[Addr(s, Offset)].tag = "header"
    BY <2>1, ProgramPages DEF TheWord, Word
  <2> QED
    BY <2>1, <2>2
<1>4. LogIsOrdered'
  <2> SUFFICES ASSUME NEW s \in Sectors, NEW u \in Sectors,
                      HasHeader(flash', s), ~Spoiled(s)', HasHeader(flash', u), ~Spoiled(u)',
                      Serial(flash', s) < Serial(flash', u),
                      NEW i \in HeaderLen..(PAGE_SIZE - 1), NEW j \in HeaderLen..(PAGE_SIZE - 1),
                      flash'[Addr(s, i)].tag \in Tags, flash'[Addr(u, j)].tag \in Tags
               PROVE  flash'[Addr(s, i)].val < flash'[Addr(u, j)].val
    BY DEF LogIsOrdered, Serial
  <2>1. i \in Offsets /\ j \in Offsets
    BY Sizes DEF Offsets
  <2>2. ASSUME NEW x \in Sectors, NEW o \in HeaderLen..(PAGE_SIZE - 1), HasHeader(flash', x), ~Spoiled(x)',
               flash'[Addr(x, o)].tag \in Tags
        PROVE  /\ HasHeader(flash, x) /\ ~Spoiled(x) /\ Serial(flash', x) = Serial(flash, x)
               /\ flash'[Addr(x, o)] = flash[Addr(x, o)]
    <3>1. ~Spoiled(x) /\ o \in Offsets /\ o \in Nat /\ o >= HeaderLen
      BY <1>2, <2>2, Sizes DEF Offsets
    <3>2. flash'[Addr(x, o)] = flash[Addr(x, o)]
      BY <1>1, <2>2, <3>1, ProgramPages DEF TheWord, Word
    <3>3. x # job.page \/ Offset < HeaderLen
      <4>1. Offset \in Nat /\ HeaderLen \in Nat
        BY ProgramPlace, Sizes DEF Offsets
      <4>2. ~(Offset >= HeaderLen /\ x = job.page)
        BY <1>3, <2>2
      <4> QED
        BY <4>1, <4>2
    <3>4. x = job.page => Offset > o
      <4> HAVE x = job.page
      <4>1. InUse(flash, x, o)
        BY <2>2, <3>1, <3>2, TagInUse DEF FlashInv
      <4> QED
        BY <3>1, <4>1, ProgramPlace DEF Exact, Offset, Offsets
    <3>5. x # job.page
      BY <3>1, <3>3, <3>4, ProgramPlace, Sizes DEF Offsets
    <3> QED
      BY <2>2, <3>1, <3>2, <3>5, ProgramHeaders
  <2>3. /\ HasHeader(flash, s) /\ ~Spoiled(s) /\ Serial(flash', s) = Serial(flash, s)
        /\ flash'[Addr(s, i)] = flash[Addr(s, i)]
    BY <2>2
  <2>4. /\ HasHeader(flash, u) /\ ~Spoiled(u) /\ Serial(flash', u) = Serial(flash, u)
        /\ flash'[Addr(u, j)] = flash[Addr(u, j)]
    BY <2>2
  <2> QED
    BY <2>3, <2>4 DEF FlashInv, LogIsOrdered, Serial
<1> QED
  BY <1>2, <1>3, <1>4 DEF FlashInv

LEMMA ProgramRecordFlash ==
  ASSUME FlashInv, JobFits, CanProgram, flash' = WithWord, count' = count, done \subseteq done',
         job.tag \in Tags, IsLast => job.val \in done', job.val = count,
         Spoiled(job.page) \/ \A s \in Sectors :
           HasHeader(flash, s) => Serial(flash, s) <= Serial(flash, job.page),
         \A s \in Sectors, o \in Offsets :
           flash[Addr(s, o)].tag \in Tags /\ s # job.page => flash[Addr(s, o)].val < count
  PROVE  /\ FlashInv'
         /\ \A s \in Sectors : Spoiled(s) => Spoiled(s)'
<1>0. /\ HasHeader(flash, job.page) /\ Offset \in Offsets /\ job.page \in Sectors /\ count \in Nat
      /\ TheWord.tag = job.tag /\ TheWord.val = count
  BY ProgramPlace DEF JobFits, TheWord, Word
<1>1. Offset # HeaderLen - 1
  BY <1>0, ProgramHeaders
<1>2. /\ FlashType(flash', count') /\ SerialsDiffer(flash') /\ LastIsDone(flash', done')
      /\ \A s \in Sectors : Packed(flash', s) /\ Placed(flash', s)
      /\ \A s \in Sectors : Spoiled(s) => Spoiled(s)'
  BY <1>1, ProgramOldFlash
<1>3. \A s \in Sectors : /\ HasHeader(flash', s) => HasHeader(flash, s)
                         /\ HasHeader(flash, s) => Serial(flash', s) = Serial(flash, s)
                         /\ HasHeader(flash, s) => Serial(flash, s) \in Nat
  <2> TAKE s \in Sectors
  <2>1. 0 \in Offsets
    BY Sizes DEF Offsets
  <2>2. Serial(flash, s) \in Nat
    BY <2>1, CellType DEF Serial, FlashInv
  <2> QED
    BY <1>1, <2>2, ProgramHeaders
<1>4. LogIsOrdered'
  <2> SUFFICES ASSUME NEW s \in Sectors, NEW u \in Sectors,
                      HasHeader(flash', s), ~Spoiled(s)', HasHeader(flash', u), ~Spoiled(u)',
                      Serial(flash', s) < Serial(flash', u),
                      NEW i \in HeaderLen..(PAGE_SIZE - 1), NEW j \in HeaderLen..(PAGE_SIZE - 1),
                      flash'[Addr(s, i)].tag \in Tags, flash'[Addr(u, j)].tag \in Tags
               PROVE  flash'[Addr(s, i)].val < flash'[Addr(u, j)].val
    BY DEF LogIsOrdered, Serial
  <2>1. i \in Offsets /\ j \in Offsets
    BY Sizes DEF Offsets
  <2>2. /\ HasHeader(flash, s) /\ HasHeader(flash, u) /\ ~Spoiled(s) /\ ~Spoiled(u)
        /\ Serial(flash, s) < Serial(flash, u) /\ Serial(flash, s) \in Nat /\ Serial(flash, u) \in Nat
    BY <1>2, <1>3
  <2>3. s # job.page
    <3>1. ASSUME s = job.page PROVE FALSE
      <4>1. Serial(flash, u) <= Serial(flash, s)
        BY <2>2, <3>1
      <4> QED
        BY <2>2, <4>1
    <3> QED
      BY <3>1
  <2>4. flash'[Addr(s, i)] = flash[Addr(s, i)]
    BY <2>1, <2>3, ProgramPages
  <2>5. CASE u = job.page /\ j = Offset
    <3>1. flash'[Addr(u, j)] = TheWord
      BY <2>1, <2>5, ProgramPages
    <3> QED
      BY <1>0, <2>1, <2>3, <2>4, <3>1
  <2>6. CASE ~(u = job.page /\ j = Offset)
    <3>1. flash'[Addr(u, j)] = flash[Addr(u, j)]
      BY <2>1, <2>6, ProgramPages
    <3> QED
      BY <2>2, <2>4, <3>1 DEF FlashInv, LogIsOrdered, Serial
  <2> QED
    BY <2>5, <2>6
<1> QED
  BY <1>2, <1>4 DEF FlashInv

(* A halt leaves only the flash, its types, and why it came.                *)
LEMMA HaltedInv ==
  ASSUME Types', FlashInv', pc' = "halted", scans' = 1 => why' # "past_end"
  PROVE  IInv'
<1>1. /\ OffInv' /\ FirstInv' /\ WipingInv' /\ ErasingInv' /\ EmptyInv' /\ HeaderInv'
      /\ ReclaimInv' /\ AppendInv'
  BY DEF OffInv, FirstInv, WipingInv, ErasingInv, EmptyInv, HeaderInv, ReclaimInv, AppendInv
<1>2. KnownInv' /\ NewestInv' /\ FreeInv'
  BY DEF KnownInv, NewestInv, FreeInv, Live
<1>3. LaterInv'
  BY DEF LaterInv
<1> QED
  BY <1>1, <1>2, <1>3 DEF IInv

(* A page that was not read has append_point 0, and is free to be written   *)
(* or is in use from its start.                                             *)
LEMMA UnreadWaits ==
  ASSUME NEW s \in Sectors, append_point[s] = 0, Packed(flash, s)
  PROVE  Waiting(s)
<1>1. 0 \in Offsets /\ \A o \in Offsets : o \in Nat
  BY Sizes DEF Offsets
<1>2. CASE InUse(flash, s, 0)
  BY <1>2 DEF Waiting
<1>3. CASE ~InUse(flash, s, 0)
  <2>1. \A o \in Offsets : ~InUse(flash, s, o)
    BY <1>1, <1>3 DEF Packed
  <2>2. Exact(s)
    BY <1>1, <2>1 DEF Exact
  <2>3. Whole(s)
    BY DEF Whole
  <2> QED
    BY <2>2, <2>3 DEF Waiting
<1> QED
  BY <1>2, <1>3

(* A page that was read is exact.                                           *)
LEMMA FilledWaits ==
  ASSUME NEW s \in Sectors, FilledTo(flash, s, append_point[s])
  PROVE  Exact(s) /\ Whole(s) /\ Waiting(s)
BY DEF FilledTo, Exact, Whole, Waiting

(* The state that do_load leaves when it has read every page.               *)
LoadedState ==
  /\ FlashInv /\ IsMap(page_seq) /\ DOMAIN page_seq # {}
  /\ \A s \in Sectors : HasHeader(flash, s) =>
       Serial(flash, s) \in DOMAIN page_seq /\ page_seq[Serial(flash, s)] = s
  /\ \A n \in DOMAIN page_seq :
       /\ HasHeader(flash, page_seq[n]) /\ Serial(flash, page_seq[n]) = n
       /\ FilledTo(flash, page_seq[n], append_point[page_seq[n]])
  /\ append_point \in [Sectors -> 0..PAGE_SIZE]
  /\ \A s \in Sectors : (\A n \in DOMAIN page_seq : page_seq[n] # s) => append_point[s] = 0
  /\ values \in [Tags -> {0} \cup done] /\ done \subseteq 1..count /\ count \in 0..MaxSaves
  /\ pc = "ready" /\ job = NoJob /\ todo = << >> /\ free_pages \in Seq(Sectors) /\ scans \in 1..2
  /\ scans = 1 =>
       /\ Len(free_pages) <= NSECTORS /\ why # "past_end"
       /\ \A i \in DOMAIN free_pages : ~HasHeader(flash, free_pages[i])
       /\ \A i, j \in DOMAIN free_pages : free_pages[i] = free_pages[j] => i = j
  /\ scans = 2 => Len(free_pages) <= 2 * NSECTORS

LEMMA LoadedInv == LoadedState => IInv
<1> SUFFICES ASSUME LoadedState PROVE IInv
  OBVIOUS
<1> USE DEF LoadedState
<1>1. Types
  <2>1. append_point \in [Sectors -> 0..(PAGE_SIZE + 1)]
    <3>1. 0..PAGE_SIZE \subseteq 0..(PAGE_SIZE + 1)
      BY Sizes
    <3> QED
      BY <3>1
  <2>2. todo \in Seq(Sectors)
    OBVIOUS
  <2> QED
    BY <2>1, <2>2, NoJobIsJob DEF Types, IsMap
<1>2. FlashInv /\ pc = "ready" /\ DOMAIN page_seq # {}
  OBVIOUS
<1>3. /\ OffInv /\ FirstInv /\ WipingInv /\ ErasingInv /\ EmptyInv /\ HeaderInv
      /\ ReclaimInv /\ AppendInv
  BY <1>2 DEF OffInv, FirstInv, WipingInv, ErasingInv, EmptyInv, HeaderInv, ReclaimInv, AppendInv
<1>4. KnownInv
  BY DEF KnownInv
<1>5. NewestInv
  <2>1. Largest(DOMAIN page_seq) \in DOMAIN page_seq
    BY LargestIs DEF IsMap
  <2>2. Newest \in Sectors
    BY <2>1 DEF Newest, IsMap
  <2>3. HasHeader(flash, Newest) /\ Serial(flash, Newest) = Largest(DOMAIN page_seq)
        /\ FilledTo(flash, Newest, append_point[Newest])
    BY <2>1 DEF Newest
  <2>4. Exact(Newest) /\ Whole(Newest)
    BY <2>2, <2>3, FilledWaits
  <2> QED
    BY <2>3, <2>4 DEF NewestInv
<1>6. \A i \in DOMAIN free_pages : free_pages[i] \in Sectors
  OBVIOUS
<1>7. FreeInv
  <2> SUFFICES ASSUME NEW i \in DOMAIN free_pages PROVE Waiting(free_pages[i])
    BY DEF FreeInv
  <2> DEFINE s == free_pages[i]
  <2>1. s \in Sectors /\ Packed(flash, s)
    BY <1>6 DEF FlashInv
  <2>2. CASE \E n \in DOMAIN page_seq : page_seq[n] = s
    BY <2>1, <2>2, FilledWaits
  <2>3. CASE \A n \in DOMAIN page_seq : page_seq[n] # s
    BY <2>1, <2>3, UnreadWaits
  <2> QED
    BY <2>2, <2>3
<1>8. LaterInv
  <2>1. \A i \in DOMAIN free_pages : ~HasHeader(flash, free_pages[i]) => append_point[free_pages[i]] = 0
    BY <1>6
  <2> QED
    BY <1>2, <2>1 DEF LaterInv
<1> QED
  BY <1>1, <1>2, <1>3, <1>4, <1>5, <1>7, <1>8 DEF IInv

LEMMA LoadedInvNext == LoadedState' => IInv'
BY LoadedInv, PTL

LEMMA FlashIsWellFormed == Types /\ FlashInv => WellFormed(flash) /\ SerialsDiffer(flash) /\ done \subseteq Nat
BY DEF Types, FlashInv, WellFormed

LEMMA DoLoadIs ==
  ASSUME NEW f, NEW try, WellFormed(f), DoLoad(f, try)
  PROVE  LET seq == Updated(page_seq, Headered(f, NSECTORS))
             free == free_pages \o Unheadered(f, NSECTORS)
         IN /\ page_seq' = seq
            /\ DOMAIN seq # {} => free_pages' = free /\ ReadPages(f, seq, try)
            /\ DOMAIN seq = {} =>
                 /\ free_pages' = Tail(free) /\ pc' = "first"
                 /\ job' = [NoJob EXCEPT !.page = Head(free), !.tag = "header", !.try = try]
                 /\ UNCHANGED <<append_point, values, todo, why>>
<1>1. ScanStop(f) = NSECTORS /\ ~(NSECTORS < NSECTORS)
  BY ScanFindsNoOtherTag, Sizes
<1> HIDE DEF ScanStop
<1>2. DoLoad(f, try) <=> LET seq == Updated(page_seq, Headered(f, NSECTORS))
                             free == free_pages \o Unheadered(f, NSECTORS)
                         IN /\ page_seq' = seq
                            /\ IF DOMAIN seq = {}
                               THEN /\ free_pages' = Tail(free)
                                    /\ pc' = "first"
                                    /\ job' = [NoJob EXCEPT !.page = Head(free), !.tag = "header", !.try = try]
                                    /\ UNCHANGED <<append_point, values, todo, why>>
                               ELSE /\ free_pages' = free /\ ReadPages(f, seq, try)
  BY <1>1 DEF DoLoad
<1> QED
  BY <1>2

LEMMA PowerOnInv ==
  ASSUME IInv, PowerOn
  PROVE  IInv'
<1> DEFINE on == Headered(flash, NSECTORS)
           free == Unheadered(flash, NSECTORS)
<1>0. /\ Types /\ FlashInv /\ OffInv /\ pc = "off" /\ DoLoad(flash, 1) /\ scans' = 1
      /\ flash' = flash /\ count' = count /\ done' = done
  BY DEF IInv, PowerOn
<1>1. /\ page_seq = NoPages /\ why # "past_end" /\ scans = 0 /\ free_pages = << >>
      /\ append_point \in [Sectors -> 0..PAGE_SIZE]
      /\ \A s \in Sectors : append_point[s] = 0
  BY <1>0 DEF Types, OffInv
<1>2. WellFormed(flash) /\ SerialsDiffer(flash) /\ ScanStop(flash) = NSECTORS /\ done \subseteq Nat
  BY <1>0, FlashIsWellFormed, ScanFindsNoOtherTag
<1>3. /\ IsMap(on)
      /\ \A n \in DOMAIN on : HasHeader(flash, on[n]) /\ Serial(flash, on[n]) = n
      /\ \A s \in Sectors : HasHeader(flash, s) =>
           Serial(flash, s) \in DOMAIN on /\ on[Serial(flash, s)] = s
  BY <1>2, HeaderedIs
<1>4. /\ free \in Seq(Sectors) /\ Len(free) <= NSECTORS
      /\ \A i \in DOMAIN free : ~HasHeader(flash, free[i])
      /\ \A i, j \in DOMAIN free : free[i] = free[j] => i = j
      /\ \A s \in Sectors : ~HasHeader(flash, s) => \E i \in DOMAIN free : free[i] = s
      /\ ~HasHeader(flash, 0) => free # << >> /\ Head(free) = 0
  BY UnheaderedIs
<1>5. Updated(page_seq, on) = on
  <2>1. on = [n \in DOMAIN on |-> on[n]] /\ DOMAIN NoPages = {}
    BY <1>3, NoPagesIsMap DEF IsMap
  <2> HIDE DEF on
  <2> QED
    BY <1>1, <2>1 DEF Updated
<1>6. free_pages \o free = free
  BY <1>1, <1>4, ConcatIs
<1> HIDE DEF on, free
<1>7. page_seq' = on /\ (DOMAIN on # {} => free_pages' = free /\ ReadPages(flash, on, 1))
      /\ (DOMAIN on = {} => /\ free_pages' = Tail(free) /\ pc' = "first"
                            /\ job' = [NoJob EXCEPT !.page = Head(free), !.tag = "header", !.try = 1]
                            /\ UNCHANGED <<append_point, values, todo, why>>)
  <2> DEFINE seq == Updated(page_seq, Headered(flash, NSECTORS))
             all == free_pages \o Unheadered(flash, NSECTORS)
  <2>1. seq = on /\ all = free
    BY <1>5, <1>6 DEF on, free
  <2>2. /\ page_seq' = seq
        /\ DOMAIN seq # {} => free_pages' = all /\ ReadPages(flash, seq, 1)
        /\ DOMAIN seq = {} =>
             /\ free_pages' = Tail(all) /\ pc' = "first"
             /\ job' = [NoJob EXCEPT !.page = Head(all), !.tag = "header", !.try = 1]
             /\ UNCHANGED <<append_point, values, todo, why>>
    BY <1>0, <1>2, DoLoadIs
  <2> HIDE DEF seq, all
  <2> QED
    BY <2>1, <2>2
<1>8. FlashInv'
  BY <1>0 DEF FlashInv, LogIsOrdered, Spoiled
<1>9. /\ done' \subseteq 1..count' /\ count' \in 0..MaxSaves /\ values \in [Tags -> {0} \cup done']
      /\ todo \in Seq(Sectors) /\ IsMap(page_seq')
  BY <1>0, <1>3, <1>7 DEF Types
<1>10. CASE DOMAIN on = {}
  <2>1. \A s \in Sectors : ~HasHeader(flash, s)
    BY <1>3, <1>10
  <2>2. free # << >> /\ Head(free) = 0
    BY <2>1, <1>4, SectorsFinite
  <2>3. job' = [page |-> 0, tag |-> "header", val |-> 0, k |-> 0, try |-> 1, then |-> "none"]
    BY <1>7, <1>10, <2>2 DEF NoJob
  <2>4. /\ pc' = "first" /\ append_point' = append_point /\ values' = values /\ todo' = todo
        /\ why' = why /\ page_seq' = on /\ free_pages' = Tail(free)
    BY <1>7, <1>10
  <2>5. /\ Tail(free) \in Seq(Sectors) /\ Len(Tail(free)) <= NSECTORS
        /\ \A i \in DOMAIN Tail(free) : i + 1 \in DOMAIN free /\ i + 1 # 1 /\ Tail(free)[i] = free[i + 1]
        /\ 1 \in DOMAIN free /\ free[1] = 0 /\ DOMAIN Tail(free) \subseteq Nat
    <3>1. Len(Tail(free)) = Len(free) - 1 /\ Len(free) \in Nat /\ NSECTORS \in Nat /\ Tail(free) \in Seq(Sectors)
      BY <1>4, <2>2, TailIs, Sizes
    <3>2. DOMAIN Tail(free) \subseteq Nat
      BY <3>1
    <3> QED
      BY <1>4, <2>2, <3>1, <3>2, TailIs
  <2>6. Types'
    <3>1. append_point \in [Sectors -> 0..(PAGE_SIZE + 1)]
      BY <1>0 DEF Types
    <3>2. job' \in Jobs
      BY <2>3, SectorsFinite DEF Jobs
    <3> QED
      BY <1>0, <1>1, <1>9, <2>4, <2>5, <3>1, <3>2 DEF Types, IsMap
  <2>7. on = NoPages
    BY <1>3, <1>10, NoPagesIsMap DEF IsMap, NoPages
  <2>8. Waiting(0)'
    <3>1. 0 \in Sectors /\ append_point[0] = 0 /\ Packed(flash, 0)
      BY <1>0, <1>1, SectorsFinite DEF FlashInv
    <3>2. Waiting(0)
      BY <3>1, UnreadWaits
    <3> QED
      BY <1>0, <2>4, <3>2 DEF Waiting, Exact, Whole
  <2>9. FirstInv'
    <3>1. Begun'
      BY <2>3, <2>8, SectorsFinite, TagsAreApart, Sizes DEF Begun
    <3>2. 0 \in Sectors
      BY SectorsFinite
    <3> QED
      BY <1>0, <1>1, <2>1, <2>3, <2>4, <2>7, <3>1, <3>2 DEF FirstInv
  <2>10. LaterInv'
    <3> SUFFICES ASSUME NEW i \in DOMAIN free_pages'
                 PROVE  /\ ~HasHeader(flash', free_pages'[i]) /\ append_point'[free_pages'[i]] = 0
                        /\ \A j \in DOMAIN free_pages' : free_pages'[i] = free_pages'[j] => i = j
                        /\ free_pages'[i] # 0
      BY <1>1, <2>3, <2>4 DEF LaterInv
    <3>1. i \in Nat /\ i + 1 \in DOMAIN free /\ free_pages'[i] = free[i + 1] /\ i + 1 # 1
      BY <2>4, <2>5
    <3>2. free[i + 1] \in Sectors /\ ~HasHeader(flash, free[i + 1]) /\ free[i + 1] # 0
      BY <1>4, <2>5, <3>1
    <3>3. ASSUME NEW j \in DOMAIN free_pages', free_pages'[i] = free_pages'[j] PROVE i = j
      <4>1. j \in Nat /\ j + 1 \in DOMAIN free /\ free_pages'[j] = free[j + 1]
        BY <2>4, <2>5
      <4>2. free[i + 1] = free[j + 1]
        BY <3>1, <3>3, <4>1
      <4>3. i + 1 = j + 1
        BY <1>4, <3>1, <4>1, <4>2
      <4> QED
        BY <3>1, <4>1, <4>3
    <3> QED
      BY <1>0, <1>1, <2>4, <3>1, <3>2, <3>3
  <2>11. /\ OffInv' /\ WipingInv' /\ ErasingInv' /\ EmptyInv' /\ HeaderInv'
         /\ ReclaimInv' /\ AppendInv'
    BY <2>4 DEF OffInv, WipingInv, ErasingInv, EmptyInv, HeaderInv, ReclaimInv, AppendInv
  <2>12. KnownInv' /\ NewestInv' /\ FreeInv'
    BY <2>4 DEF KnownInv, NewestInv, FreeInv, Live
  <2> QED
    BY <1>8, <2>6, <2>9, <2>10, <2>11, <2>12 DEF IInv
<1>11. CASE DOMAIN on # {}
  <2>1. free_pages' = free /\ ReadPages(flash, on, 1) /\ values \in [Tags -> {0} \cup done]
    BY <1>0, <1>7, <1>9, <1>11
  <2>2. \/ Started(flash, on, 1)
        \/ Thrown(1) /\ UNCHANGED <<append_point, values>>
    BY <1>1, <1>2, <1>3, <2>1, ReadPagesIs
  <2>3. CASE Started(flash, on, 1)
    <3>1. LoadedState'
      <4>1. /\ pc' = "ready" /\ todo' = << >> /\ why' = why /\ job' = NoJob
            /\ append_point' \in [Sectors -> 0..PAGE_SIZE] /\ values' \in [Tags -> {0} \cup done]
            /\ \A n \in DOMAIN on : HasHeader(flash, on[n]) /\ FilledTo(flash, on[n], append_point'[on[n]])
            /\ \A s \in Sectors : (\A n \in DOMAIN on : on[n] # s) => append_point'[s] = 0
        BY <1>1, <2>3 DEF Started
      <4> QED
        BY <1>0, <1>1, <1>3, <1>4, <1>7, <1>8, <1>9, <1>11, <2>1, <4>1 DEF LoadedState
    <3> QED
      BY <3>1, LoadedInvNext
  <2>4. CASE Thrown(1) /\ UNCHANGED <<append_point, values>>
    <3>0. /\ append_point' = append_point /\ values' = values /\ todo' \in Seq(Sectors)
          /\ pc' \in {"wiping", "halted"} /\ job' \in Jobs
      BY <2>4 DEF Thrown
    <3>1. Types'
      <4>1. append_point \in [Sectors -> 0..(PAGE_SIZE + 1)]
        BY <1>0 DEF Types
      <4> QED
        BY <1>0, <1>1, <1>4, <1>7, <1>9, <2>1, <3>0, <4>1 DEF Types, IsMap
    <3>2. why' # "past_end"
      BY <1>1, <2>4 DEF Thrown
    <3>3. CASE pc' = "halted"
      BY <1>8, <3>1, <3>2, <3>3, HaltedInv
    <3>4. CASE pc' = "wiping"
      <4>1. job'.try = 2
        BY <2>4, <3>4 DEF Thrown, NoJob
      <4>2. WipingInv'
        BY <1>0, <1>1, <1>3, <1>7, <1>11, <3>0, <4>1 DEF WipingInv
      <4>3. /\ OffInv' /\ FirstInv' /\ ErasingInv' /\ EmptyInv' /\ HeaderInv'
            /\ ReclaimInv' /\ AppendInv'
        BY <3>4 DEF OffInv, FirstInv, ErasingInv, EmptyInv, HeaderInv, ReclaimInv, AppendInv
      <4>4. KnownInv' /\ NewestInv' /\ FreeInv' /\ LaterInv'
        BY <3>2, <3>4 DEF KnownInv, NewestInv, FreeInv, LaterInv, Live
      <4> QED
        BY <1>8, <3>1, <4>2, <4>3, <4>4 DEF IInv
    <3> QED
      BY <3>0, <3>3, <3>4
  <2> QED
    BY <2>2, <2>3, <2>4
<1> QED
  BY <1>10, <1>11

LEMMA PowerOffInv ==
  ASSUME IInv, PowerOff
  PROVE  IInv'
<1>1. /\ Types /\ FlashInv /\ pc' = "off" /\ page_seq' = NoPages /\ why' = "none" /\ scans' = 0
      /\ append_point' = [s \in Sectors |-> 0] /\ free_pages' = << >> /\ values' = Nothing
      /\ todo' = << >> /\ flash' = flash /\ count' = count /\ done' = done /\ job' = NoJob
  BY DEF IInv, PowerOff
<1>2. Types'
  <2>1. append_point' \in [Sectors -> 0..(PAGE_SIZE + 1)] /\ append_point' \in [Sectors -> 0..PAGE_SIZE]
    BY <1>1, Sizes
  <2>2. << >> \in Seq(Sectors)
    OBVIOUS
  <2>3. values' \in [Tags -> {0} \cup done']
    BY <1>1 DEF Nothing
  <2> QED
    BY <1>1, <2>1, <2>2, <2>3, NoPagesIsMap, NoJobIsJob DEF Types, IsMap
<1>3. FlashInv'
  BY <1>1 DEF FlashInv, LogIsOrdered, Spoiled
<1>4. OffInv' /\ LaterInv'
  BY <1>1 DEF OffInv, LaterInv
<1>5. /\ FirstInv' /\ WipingInv' /\ ErasingInv' /\ EmptyInv' /\ HeaderInv'
      /\ ReclaimInv' /\ AppendInv'
  BY <1>1 DEF FirstInv, WipingInv, ErasingInv, EmptyInv, HeaderInv, ReclaimInv, AppendInv
<1>6. KnownInv' /\ NewestInv' /\ FreeInv'
  BY <1>1 DEF KnownInv, NewestInv, FreeInv, Live
<1> QED
  BY <1>2, <1>3, <1>4, <1>5, <1>6 DEF IInv

LEMMA WipedInv ==
  ASSUME IInv, Wiped
  PROVE  IInv'
<1> DEFINE on == Headered(flash, NSECTORS)
           free == Unheadered(flash, NSECTORS)
           seq == Updated(page_seq, on)
<1>0. /\ Types /\ FlashInv /\ pc = "wiping" /\ DoLoad(flash, 2) /\ scans' = scans + 1
      /\ flash' = flash /\ count' = count /\ done' = done
  BY DEF IInv, Wiped
<1>1. /\ DOMAIN page_seq # {} /\ scans = 1 /\ IsMap(page_seq)
      /\ \A n \in DOMAIN page_seq :
           /\ HasHeader(flash, page_seq[n]) \/ ~InUse(flash, page_seq[n], 1)
           /\ HasHeader(flash, page_seq[n]) => Serial(flash, page_seq[n]) = n
      /\ \A s \in Sectors : append_point[s] = 0
      /\ append_point \in [Sectors -> 0..PAGE_SIZE]
  BY <1>0 DEF IInv, WipingInv, Types, IsMap
<1>2. WellFormed(flash) /\ SerialsDiffer(flash) /\ done \subseteq Nat
  BY <1>0, FlashIsWellFormed
<1>3. /\ IsMap(on)
      /\ \A n \in DOMAIN on : HasHeader(flash, on[n]) /\ Serial(flash, on[n]) = n
      /\ \A s \in Sectors : HasHeader(flash, s) =>
           Serial(flash, s) \in DOMAIN on /\ on[Serial(flash, s)] = s
  BY <1>2, HeaderedIs
<1>4. free \in Seq(Sectors) /\ Len(free) <= NSECTORS
  BY UnheaderedIs
<1> HIDE DEF on, free
<1>5. /\ IsMap(seq) /\ DOMAIN seq = DOMAIN page_seq \cup DOMAIN on
      /\ \A n \in DOMAIN page_seq \cup DOMAIN on :
           seq[n] = IF n \in DOMAIN on THEN on[n] ELSE page_seq[n]
  BY <1>1, <1>3, UpdatedIs
<1> HIDE DEF seq
<1>6. /\ \A n \in DOMAIN seq :
           /\ HasHeader(flash, seq[n]) \/ ~InUse(flash, seq[n], 1)
           /\ HasHeader(flash, seq[n]) => Serial(flash, seq[n]) = n
      /\ \A s \in Sectors : HasHeader(flash, s) =>
           Serial(flash, s) \in DOMAIN seq /\ seq[Serial(flash, s)] = s
  BY <1>1, <1>3, <1>5
<1>7. page_seq' = seq /\ free_pages' = free_pages \o free /\ ReadPages(flash, seq, 2) /\ DOMAIN seq # {}
  BY <1>0, <1>1, <1>2, <1>5, DoLoadIs DEF on, free, seq
<1>8. FlashInv'
  BY <1>0 DEF FlashInv, LogIsOrdered, Spoiled
<1>9. free_pages' \in Seq(Sectors) /\ Len(free_pages') <= 2 * NSECTORS /\ scans' = 2
  <2>1. free_pages \in Seq(Sectors) /\ Len(free_pages) <= NSECTORS /\ Len(free_pages) \in Nat /\ Len(free) \in Nat
    BY <1>0, <1>1, <1>4 DEF Types
  <2>2. Len(free_pages \o free) = Len(free_pages) + Len(free) /\ free_pages \o free \in Seq(Sectors)
    BY <1>4, <2>1, ConcatIs
  <2> QED
    BY <1>0, <1>1, <1>4, <1>7, <2>1, <2>2, Sizes
<1>10. /\ done' \subseteq 1..count' /\ count' \in 0..MaxSaves /\ values \in [Tags -> {0} \cup done']
  BY <1>0 DEF Types
<1>11. \/ Started(flash, seq, 2)
       \/ Thrown(2) /\ UNCHANGED <<append_point, values>>
  BY <1>0, <1>1, <1>2, <1>5, <1>6, <1>7, <1>10, ReadPagesIs
<1>12. CASE Started(flash, seq, 2)
  <2>1. LoadedState'
    <3>1. /\ pc' = "ready" /\ todo' = << >> /\ why' = why /\ job' = NoJob
          /\ append_point' \in [Sectors -> 0..PAGE_SIZE] /\ values' \in [Tags -> {0} \cup done]
          /\ \A n \in DOMAIN seq : HasHeader(flash, seq[n]) /\ FilledTo(flash, seq[n], append_point'[seq[n]])
          /\ \A s \in Sectors : (\A n \in DOMAIN seq : seq[n] # s) => append_point'[s] = 0
      BY <1>1, <1>12 DEF Started
    <3> QED
      BY <1>0, <1>5, <1>6, <1>7, <1>8, <1>9, <1>10, <3>1 DEF LoadedState
  <2> QED
    BY <2>1, LoadedInvNext
<1>13. CASE Thrown(2) /\ UNCHANGED <<append_point, values>>
  <2>1. /\ append_point' = append_point /\ values' = values /\ todo' \in Seq(Sectors)
        /\ pc' = "halted" /\ job' \in Jobs
    BY <1>13 DEF Thrown
  <2>2. Types'
    <3>1. append_point \in [Sectors -> 0..(PAGE_SIZE + 1)]
      BY <1>0 DEF Types
    <3> QED
      BY <1>0, <1>1, <1>5, <1>7, <1>9, <1>10, <2>1, <3>1 DEF Types, IsMap
  <2> QED
    BY <1>8, <1>9, <2>1, <2>2, HaltedInv
<1> QED
  BY <1>11, <1>12, <1>13

LEMMA EraseInv ==
  ASSUME IInv, Erase
  PROVE  IInv'
<1>1. /\ Types /\ FlashInv /\ LaterInv /\ pc = "ready" /\ pc' = "erasing" /\ page_seq' = NoPages
      /\ values' = Nothing /\ todo' = Sorted(Sectors)
      /\ flash' = flash /\ append_point' = append_point /\ free_pages' = free_pages
      /\ why' = why /\ count' = count /\ done' = done /\ scans' = scans /\ job' = job
  BY DEF IInv, Erase
<1>2. Sorted(Sectors) \in Seq(Sectors) /\ \A s \in Sectors : \E i \in DOMAIN Sorted(Sectors) : Sorted(Sectors)[i] = s
  BY SortedIs, SectorsFinite
<1>3. Types'
  <2>1. values' \in [Tags -> {0} \cup done']
    BY <1>1 DEF Nothing
  <2> QED
    BY <1>1, <1>2, <2>1, NoPagesIsMap DEF Types, IsMap
<1>4. FlashInv'
  BY <1>1 DEF FlashInv, LogIsOrdered, Spoiled
<1>5. ErasingInv' /\ LaterInv'
  BY <1>1, <1>2 DEF ErasingInv, LaterInv
<1>6. /\ OffInv' /\ FirstInv' /\ WipingInv' /\ EmptyInv' /\ HeaderInv' /\ ReclaimInv' /\ AppendInv'
  BY <1>1 DEF OffInv, FirstInv, WipingInv, EmptyInv, HeaderInv, ReclaimInv, AppendInv
<1>7. KnownInv' /\ NewestInv' /\ FreeInv'
  BY <1>1 DEF KnownInv, NewestInv, FreeInv, Live
<1> QED
  BY <1>3, <1>4, <1>5, <1>6, <1>7 DEF IInv

LEMMA EraseDoneInv ==
  ASSUME IInv, EraseDone
  PROVE  IInv'
<1>1. /\ Types /\ FlashInv /\ LaterInv /\ ErasingInv /\ pc = "erasing" /\ pc' = "ready" /\ todo = << >>
      /\ flash' = flash /\ append_point' = append_point /\ page_seq' = page_seq /\ free_pages' = free_pages
      /\ values' = values /\ todo' = todo /\ why' = why /\ count' = count /\ done' = done /\ scans' = scans
      /\ job' = job
  BY DEF IInv, EraseDone
<1>2. Types'
  BY <1>1 DEF Types
<1>3. FlashInv'
  BY <1>1 DEF FlashInv, LogIsOrdered, Spoiled
<1>4. page_seq' = NoPages /\ DOMAIN page_seq' = {}
  BY <1>1, NoPagesIsMap DEF ErasingInv
<1>5. \A s \in Sectors \ {NSECTORS \div 2} : ~HasHeader(flash, s)
  <2>1. \A s \in Sectors \ {NSECTORS \div 2} : ~InUse(flash, s, 0)
    BY <1>1 DEF ErasingInv
  <2>2. 0 \in 0..(HeaderLen - 1)
    BY Sizes
  <2> QED
    BY <2>1, <2>2, HasHeaderIs
<1>6. EmptyInv' /\ LaterInv'
  BY <1>1, <1>5 DEF EmptyInv, LaterInv
<1>7. /\ OffInv' /\ FirstInv' /\ WipingInv' /\ ErasingInv' /\ HeaderInv' /\ ReclaimInv' /\ AppendInv'
  BY <1>1 DEF OffInv, FirstInv, WipingInv, ErasingInv, HeaderInv, ReclaimInv, AppendInv
<1>8. KnownInv' /\ NewestInv' /\ FreeInv'
  BY <1>4 DEF KnownInv, NewestInv, FreeInv, Live
<1> QED
  BY <1>2, <1>3, <1>6, <1>7, <1>8 DEF IInv

-----------------------------------------------------------------------------
(* A sector is erased.                                                      *)

LEMMA ErasedCells ==
  ASSUME NEW h \in Sectors, NEW s \in Sectors, NEW o \in Offsets
  PROVE  /\ ErasedSector(h) \in Sectors
         /\ Without(h)[Addr(s, o)] = IF s = ErasedSector(h) THEN Erased ELSE flash[Addr(s, o)]
<1> DEFINE e == ErasedSector(h)
<1>1. e \in Sectors
  BY ErasedSectorIs, SectorsFinite
<1>2. Addr(s, o) \in Area
  BY AddrBounds DEF Offsets
<1>3. Without(h)[Addr(s, o)] = IF Addr(s, o) \in Addr(e, 0)..Addr(e, PAGE_SIZE - 1) THEN Erased ELSE flash[Addr(s, o)]
  BY <1>2 DEF Without
<1> HIDE DEF e
<1>4. /\ 0 \in Offsets /\ PAGE_SIZE - 1 \in Offsets /\ o \in Nat /\ 0 <= o /\ o <= PAGE_SIZE - 1
      /\ s \in Nat /\ e \in Nat
  BY <1>1, Sizes, SectorsFinite DEF Offsets
<1>5. CASE s = e
  <2>1. s * PAGE_SIZE \in Nat
    BY <1>4, Sizes
  <2>2. Addr(s, o) \in Addr(e, 0)..Addr(e, PAGE_SIZE - 1)
    BY <1>4, <1>5, <2>1, Sizes DEF Addr
  <2> QED
    BY <1>1, <1>3, <1>5, <2>2 DEF e
<1>6. CASE s # e
  <2>1. Addr(s, o) \notin Addr(e, 0)..Addr(e, PAGE_SIZE - 1)
    <3> SUFFICES ASSUME Addr(e, 0) <= Addr(s, o), Addr(s, o) <= Addr(e, PAGE_SIZE - 1) PROVE FALSE
      BY <1>1, <1>4, AddrBounds
    <3> DEFINE j == Addr(s, o) - Addr(e, 0)
    <3>1. e * PAGE_SIZE \in Nat /\ Addr(s, o) \in Nat
      BY <1>4, Sizes, AddrBounds
    <3>2. j \in Offsets /\ Addr(s, o) = Addr(e, j)
      <4>1. Addr(e, 0) = e * PAGE_SIZE /\ Addr(e, PAGE_SIZE - 1) = e * PAGE_SIZE + (PAGE_SIZE - 1)
        BY <3>1 DEF Addr
      <4>2. j \in Offsets
        BY <3>1, <4>1, Sizes DEF Offsets
      <4>3. Addr(e, j) = e * PAGE_SIZE + j
        BY DEF Addr
      <4> QED
        BY <3>1, <4>1, <4>2, <4>3
    <3> HIDE DEF j
    <3> QED
      BY <1>1, <1>6, <3>2, AddrInjective
  <2> QED
    BY <1>1, <1>3, <1>6, <2>1 DEF e
<1> QED
  BY <1>5, <1>6

LEMMA ErasedFlash ==
  ASSUME FlashInv, NEW h \in Sectors, flash' = Without(h), count' = count, done' = done
  PROVE  /\ FlashInv'
         /\ \A s \in Sectors, o \in Offsets :
              flash'[Addr(s, o)] = IF s = ErasedSector(h) THEN Erased ELSE flash[Addr(s, o)]
         /\ \A s \in Sectors, o \in Offsets :
              InUse(flash', s, o) <=> s # ErasedSector(h) /\ InUse(flash, s, o)
         /\ \A s \in Sectors : HasHeader(flash', s) <=> s # ErasedSector(h) /\ HasHeader(flash, s)
         /\ \A s \in Sectors : s # ErasedSector(h) =>
              Serial(flash', s) = Serial(flash, s) /\ (Spoiled(s)' <=> Spoiled(s))
<1> DEFINE e == ErasedSector(h)
<1>0. e \in Sectors
  BY ErasedSectorIs, SectorsFinite
<1>1. \A s \in Sectors, o \in Offsets : flash'[Addr(s, o)] = IF s = e THEN Erased ELSE flash[Addr(s, o)]
  BY ErasedCells
<1> HIDE DEF e
<1>2. \A s \in Sectors, o \in Offsets : InUse(flash', s, o) <=> s # e /\ InUse(flash, s, o)
  BY <1>1 DEF InUse
<1>3. ASSUME NEW s \in Sectors, s # e
      PROVE  /\ Packed(flash', s) /\ Placed(flash', s)
             /\ HasHeader(flash', s) <=> HasHeader(flash, s)
             /\ Serial(flash', s) = Serial(flash, s)
             /\ Spoiled(s)' <=> Spoiled(s)
  <2>1. \A o \in Offsets : flash'[Addr(s, o)] = flash[Addr(s, o)]
    BY <1>1, <1>3
  <2>2. Packed(flash, s) /\ Placed(flash, s)
    BY DEF FlashInv
  <2>3. HeaderLen..(PAGE_SIZE - 1) \subseteq Offsets
    BY Sizes DEF Offsets
  <2>4. Spoiled(s)' <=> Spoiled(s)
    BY <2>1, <2>3 DEF Spoiled
  <2> QED
    BY <2>1, <2>2, <2>4, SamePage
<1>4. Packed(flash', e) /\ Placed(flash', e) /\ ~HasHeader(flash', e)
  <2>1. \A o \in Offsets : ~InUse(flash', e, o)
    BY <1>0, <1>2
  <2>2. \A p \in Offsets : 0..p \subseteq Offsets
    BY Sizes DEF Offsets
  <2>3. Packed(flash', e) /\ Placed(flash', e)
    BY <2>1, <2>2 DEF Packed, Placed
  <2>4. 0 \in 0..(HeaderLen - 1) /\ 0 \in Offsets
    BY Sizes DEF Offsets
  <2> QED
    BY <1>0, <2>1, <2>3, <2>4, HasHeaderIs
<1>5. \A s \in Sectors : HasHeader(flash', s) <=> s # e /\ HasHeader(flash, s)
  BY <1>3, <1>4
<1>6. FlashType(flash', count')
  <2>0. Without(h) = [a \in Area |-> Without(h)[a]]
    BY DEF Without
  <2>1. ASSUME NEW a \in Area
        PROVE  flash'[a] \in [tag : Tags \cup {"header", "erased"}, val : Nat, k : Nat]
    <3>1. PICK s \in Sectors, o \in Offsets : a = Addr(s, o)
      BY AreaIsPages
    <3>2. flash[a] \in [tag : Tags \cup {"header", "erased"}, val : Nat, k : Nat]
      BY DEF FlashInv, FlashType
    <3>3. Erased \in [tag : Tags \cup {"header", "erased"}, val : Nat, k : Nat]
      BY DEF Erased
    <3> QED
      BY <1>1, <3>1, <3>2, <3>3
  <2>2. flash' \in [Area -> [tag : Tags \cup {"header", "erased"}, val : Nat, k : Nat]]
    BY <2>0, <2>1
  <2>3. ASSUME NEW s \in Sectors, NEW o \in Offsets, InUse(flash', s, o)
        PROVE  flash'[Addr(s, o)] = flash[Addr(s, o)] /\ InUse(flash, s, o)
    BY <1>1, <1>2, <2>3
  <2> QED
    BY <2>2, <2>3 DEF FlashInv, FlashType
<1>7. SerialsDiffer(flash')
  BY <1>3, <1>5 DEF FlashInv, SerialsDiffer
<1>8. \A s \in Sectors, o \in Offsets :
        flash'[Addr(s, o)].tag \in Tags => s # e /\ flash'[Addr(s, o)] = flash[Addr(s, o)]
  BY <1>1, TagsAreApart DEF Erased
<1>9. LastIsDone(flash', done')
  BY <1>8 DEF FlashInv, LastIsDone
<1>10. LogIsOrdered'
  <2> SUFFICES ASSUME NEW s \in Sectors, NEW u \in Sectors,
                      HasHeader(flash', s), ~Spoiled(s)', HasHeader(flash', u), ~Spoiled(u)',
                      Serial(flash', s) < Serial(flash', u),
                      NEW i \in HeaderLen..(PAGE_SIZE - 1), NEW j \in HeaderLen..(PAGE_SIZE - 1),
                      flash'[Addr(s, i)].tag \in Tags, flash'[Addr(u, j)].tag \in Tags
               PROVE  flash'[Addr(s, i)].val < flash'[Addr(u, j)].val
    BY DEF LogIsOrdered, Serial
  <2>1. i \in Offsets /\ j \in Offsets
    BY Sizes DEF Offsets
  <2>2. s # e /\ u # e /\ flash'[Addr(s, i)] = flash[Addr(s, i)] /\ flash'[Addr(u, j)] = flash[Addr(u, j)]
    BY <1>8, <2>1
  <2>3. /\ HasHeader(flash, s) /\ HasHeader(flash, u) /\ ~Spoiled(s) /\ ~Spoiled(u)
        /\ Serial(flash, s) < Serial(flash, u)
    BY <1>3, <2>2
  <2> QED
    BY <2>2, <2>3 DEF FlashInv, LogIsOrdered, Serial
<1>11. \A s \in Sectors : Packed(flash', s) /\ Placed(flash', s)
  BY <1>3, <1>4
<1> QED
  BY <1>1, <1>2, <1>3, <1>5, <1>6, <1>7, <1>9, <1>10, <1>11 DEF FlashInv, e

LEMMA ErasePageInv ==
  ASSUME IInv, NewestSpared, ErasePage
  PROVE  IInv'
<1> DEFINE h == Head(todo)
           e == ErasedSector(h)
<1>1. /\ Types /\ FlashInv /\ pc \in {"wiping", "reclaim", "erasing"} /\ todo # << >> /\ todo \in Seq(Sectors)
      /\ flash' = Without(h) /\ append_point' = [append_point EXCEPT ![h] = 0] /\ todo' = Tail(todo)
      /\ page_seq' = page_seq /\ free_pages' = free_pages /\ values' = values /\ pc' = pc /\ job' = job
      /\ why' = why /\ count' = count /\ done' = done /\ scans' = scans
  BY DEF IInv, Types, ErasePage
<1>2. /\ h \in Sectors /\ h = todo[1] /\ 1 \in DOMAIN todo /\ todo' \in Seq(Sectors)
      /\ \A i \in DOMAIN todo : i # 1 => i - 1 \in DOMAIN todo' /\ todo'[i - 1] = todo[i]
  BY <1>1, TailIs
<1> HIDE DEF h
<1>3. e \in Sectors
  BY <1>2, ErasedSectorIs, SectorsFinite
<1>4. /\ FlashInv'
      /\ \A s \in Sectors, o \in Offsets : flash'[Addr(s, o)] = IF s = e THEN Erased ELSE flash[Addr(s, o)]
      /\ \A s \in Sectors, o \in Offsets : InUse(flash', s, o) <=> s # e /\ InUse(flash, s, o)
      /\ \A s \in Sectors : HasHeader(flash', s) <=> s # e /\ HasHeader(flash, s)
      /\ \A s \in Sectors : s # e =>
           Serial(flash', s) = Serial(flash, s) /\ (Spoiled(s)' <=> Spoiled(s))
  BY <1>1, <1>2, ErasedFlash
<1>5. /\ append_point' \in [Sectors -> 0..PAGE_SIZE] /\ append_point \in [Sectors -> 0..PAGE_SIZE]
      /\ append_point' \in [Sectors -> 0..(PAGE_SIZE + 1)]
      /\ \A s \in Sectors : append_point'[s] = IF s = h THEN 0 ELSE append_point[s]
  <2>1. append_point \in [Sectors -> 0..PAGE_SIZE]
    BY <1>1 DEF Types
  <2>2. append_point' = [append_point EXCEPT ![h] = 0] /\ 0 \in 0..PAGE_SIZE
        /\ 0..PAGE_SIZE \subseteq 0..(PAGE_SIZE + 1)
    BY <1>1, Sizes
  <2> HIDE DEF e
  <2> QED
    BY <1>2, <2>1, <2>2
<1>6. Types'
  BY <1>1, <1>2, <1>5 DEF Types
<1>7. WipingInv'
  <2> SUFFICES ASSUME pc = "wiping" PROVE WipingInv'
    BY <1>1 DEF WipingInv
  <2>1. WipingInv /\ page_seq \in [DOMAIN page_seq -> Sectors]
    BY <1>1 DEF IInv, Types
  <2>2. 1 \in Offsets
    BY SizesAssumption DEF Offsets
  <2> HIDE DEF e
  <2> QED
    BY <1>1, <1>4, <1>5, <2>1, <2>2 DEF WipingInv
<1>8. ErasingInv'
  <2> SUFFICES ASSUME pc = "erasing", NEW s \in Sectors \ {NSECTORS \div 2}
               PROVE  (\E i \in DOMAIN todo' : todo'[i] = s) \/ ~InUse(flash', s, 0)
    BY <1>1 DEF ErasingInv, IInv
  <2>0. 0 \in Offsets
    BY Sizes DEF Offsets
  <2>1. CASE s = h
    BY <1>4, <2>0, <2>1, ErasedSectorIs
  <2>2. CASE ~InUse(flash, s, 0)
    BY <1>4, <2>0, <2>2
  <2>3. CASE s # h /\ \E i \in DOMAIN todo : todo[i] = s
    BY <1>2, <2>3
  <2> QED
    BY <1>1, <2>1, <2>2, <2>3 DEF IInv, ErasingInv
<1>9. LaterInv'
  <2>1. \A i \in DOMAIN free_pages : free_pages[i] \in Sectors
    BY <1>1 DEF Types
  <2>2. \A s \in Sectors : append_point[s] = 0 => append_point'[s] = 0
    BY <1>5
  <2> HIDE DEF e
  <2> QED
    BY <1>1, <1>4, <2>1, <2>2 DEF LaterInv, IInv
<1>10. OffInv' /\ FirstInv' /\ EmptyInv' /\ HeaderInv' /\ AppendInv'
  BY <1>1 DEF OffInv, FirstInv, EmptyInv, HeaderInv, AppendInv
<1>11. CASE pc # "reclaim"
  <2>1. KnownInv' /\ NewestInv' /\ FreeInv' /\ ReclaimInv'
    BY <1>1, <1>11 DEF KnownInv, NewestInv, FreeInv, Live, ReclaimInv
  <2> QED
    BY <1>4, <1>6, <1>7, <1>8, <1>9, <1>10, <2>1 DEF IInv
<1>12. CASE pc = "reclaim"
  <2>1. /\ DOMAIN page_seq # {} /\ count >= 1 /\ job.page = Newest /\ job.then \in Tags
        /\ free_pages = << >> /\ OldRecords(-1)
        /\ HasHeader(flash, Newest) /\ Exact(Newest) /\ Whole(Newest)
        /\ Spoiled(Newest) \/ Serial(flash, Newest) = Largest(DOMAIN page_seq)
        /\ KnownInv /\ Live
    BY <1>1, <1>12 DEF IInv, ReclaimInv, NewestInv, Live
  <2>2. Newest \in Sectors /\ Newest' = Newest
    <3>1. Largest(DOMAIN page_seq) \in DOMAIN page_seq
      BY <1>1, <2>1, LargestIs DEF Types
    <3> QED
      BY <1>1, <3>1 DEF Newest, Types
  <2>3. h # Newest /\ e # Newest
    BY <1>2, <1>12, <2>1 DEF NewestSpared
  <2> HIDE DEF e
  <2>4. /\ HasHeader(flash', Newest)
        /\ Spoiled(Newest) => \A s \in Sectors : s = Newest => Spoiled(s)'
        /\ Serial(flash', Newest) = Serial(flash, Newest)
        /\ append_point'[Newest] = append_point[Newest]
        /\ \A o \in Offsets : flash'[Addr(Newest, o)] = flash[Addr(Newest, o)]
    BY <1>4, <1>5, <2>1, <2>2, <2>3
  <2>5. Exact(Newest)'
    BY <2>1, <2>2, <2>4 DEF Exact, InUse
  <2>6. Whole(Newest)'
    <3>1. append_point[Newest] \in 0..PAGE_SIZE
      BY <1>5, <2>2
    <3>2. append_point[Newest] > 0 => append_point[Newest] - 1 \in Offsets
      BY <3>1, Sizes DEF Offsets
    <3> QED
      BY <2>1, <2>2, <2>4, <3>2 DEF Whole
  <2>7. Spoiled(Newest)' \/ Serial(flash', Newest') = Largest(DOMAIN page_seq')
    <3>1. CASE Spoiled(Newest)
      BY <2>2, <2>4, <3>1 DEF Spoiled
    <3>2. CASE Serial(flash, Newest) = Largest(DOMAIN page_seq)
      BY <1>1, <2>2, <2>4, <3>2
    <3> QED
      BY <2>1, <3>1, <3>2
  <2>8. NewestInv'
    BY <2>2, <2>4, <2>5, <2>6, <2>7 DEF NewestInv
  <2>9. KnownInv'
    BY <1>1, <1>4, <2>1 DEF KnownInv, Live
  <2>10. ReclaimInv'
    <3>1. OldRecords(-1)'
      BY <1>1, <1>4, <2>1, TagsAreApart DEF OldRecords, Erased
    <3> QED
      BY <1>1, <2>1, <2>2, <3>1 DEF ReclaimInv
  <2>11. FreeInv'
    BY <1>1, <2>1 DEF FreeInv
  <2> QED
    BY <1>4, <1>6, <1>7, <1>8, <1>9, <1>10, <2>8, <2>9, <2>10, <2>11 DEF IInv
<1> QED
  BY <1>11, <1>12

-----------------------------------------------------------------------------
(* The RAM while a halfword is programmed.                                  *)

LEMMA AdvancedRam ==
  ASSUME FlashInv, JobFits, CanProgram, flash' = WithWord, append_point' = Advanced
  PROVE  /\ append_point' \in [Sectors -> 0..PAGE_SIZE]
         /\ \A s \in Sectors : append_point'[s] = IF s = job.page THEN Offset + 1 ELSE append_point[s]
         /\ \A s \in Sectors : s # job.page =>
              /\ Exact(s) => Exact(s)'
              /\ Waiting(s) => Waiting(s)'
         /\ \A s \in Sectors : s = job.page =>
              /\ Exact(s)' /\ flash'[Addr(s, Offset)] = TheWord
              /\ IsLast => Whole(s)' /\ Waiting(s)'
<1> DEFINE p == job.page
           e == Offset
<1>1. e \in Offsets /\ p \in Sectors /\ e = append_point[p] /\ e \in Nat /\ e < PAGE_SIZE
      /\ \A o \in Offsets : InUse(flash, p, o) <=> o < e
  BY ProgramPlace, Sizes DEF Offset, Offsets, Exact
<1>2. append_point \in [Sectors -> 0..PAGE_SIZE] /\ e + 1 \in 0..PAGE_SIZE
  BY <1>1, Sizes DEF JobFits
<1> HIDE DEF e
<1>3. append_point' = [append_point EXCEPT ![p] = e + 1]
  BY <1>1 DEF Advanced
<1>4. /\ append_point' \in [Sectors -> 0..PAGE_SIZE]
      /\ \A s \in Sectors : append_point'[s] = IF s = p THEN e + 1 ELSE append_point[s]
  BY <1>2, <1>3
<1>5. /\ \A s \in Sectors, o \in Offsets : flash'[Addr(s, o)] = IF s = p /\ o = e THEN TheWord ELSE flash[Addr(s, o)]
      /\ \A s \in Sectors, o \in Offsets : InUse(flash', s, o) <=> (s = p /\ o = e) \/ InUse(flash, s, o)
  BY ProgramPages DEF e
<1> HIDE DEF p
<1>6. ASSUME NEW s \in Sectors, s # p
      PROVE  (Exact(s) => Exact(s)') /\ (Waiting(s) => Waiting(s)')
  <2>1. append_point'[s] = append_point[s] /\ append_point[s] \in 0..PAGE_SIZE
    BY <1>2, <1>4, <1>6
  <2>2. \A o \in Offsets : flash'[Addr(s, o)] = flash[Addr(s, o)] /\ (InUse(flash', s, o) <=> InUse(flash, s, o))
    BY <1>5, <1>6
  <2>3. Exact(s) => Exact(s)'
    BY <2>1, <2>2 DEF Exact
  <2>4. append_point[s] > 0 => append_point[s] - 1 \in Offsets
    BY <2>1, Sizes DEF Offsets
  <2>5. Whole(s) => Whole(s)'
    BY <2>1, <2>2, <2>4 DEF Whole
  <2>6. 0 \in Offsets
    BY Sizes DEF Offsets
  <2> QED
    BY <2>1, <2>2, <2>3, <2>5, <2>6 DEF Waiting
<1>7. ASSUME NEW s \in Sectors, s = p
      PROVE  /\ Exact(s)' /\ flash'[Addr(s, e)] = TheWord
             /\ IsLast => Whole(s)' /\ Waiting(s)'
  <2>1. append_point'[s] = e + 1 /\ flash'[Addr(s, e)] = TheWord
    BY <1>1, <1>4, <1>5, <1>7
  <2>2. \A o \in Offsets : InUse(flash', s, o) <=> o < e + 1
    <3> TAKE o \in Offsets
    <3>1. o \in Nat /\ (o < e + 1 <=> o < e \/ o = e)
      BY <1>1 DEF Offsets
    <3> QED
      BY <1>1, <1>5, <1>7, <3>1
  <2>3. Exact(s)'
    BY <2>1, <2>2 DEF Exact
  <2>4. IsLast => Whole(s)'
    <3> HAVE IsLast
    <3>1. TheWord.k = LenOf(TheWord.tag) - 1
      <4>1. job.k \in Nat /\ LenOf(job.tag) \in Nat /\ job.k + 1 = LenOf(job.tag)
        BY TagsAreApart DEF JobFits, Begun, IsLast
      <4>2. TheWord.k = job.k /\ TheWord.tag = job.tag
        BY DEF TheWord, Word
      <4> QED
        BY <4>1, <4>2
    <3>2. append_point'[s] - 1 = e
      BY <1>1, <2>1
    <3> QED
      BY <2>1, <3>1, <3>2 DEF Whole, IsLastWord
  <2> QED
    BY <2>1, <2>3, <2>4 DEF Waiting
<1> QED
  BY <1>4, <1>6, <1>7 DEF p, e

(* The halfwords of the job so far, after one more.                         *)
LEMMA BegunGrows ==
  ASSUME FlashInv, JobFits, CanProgram, ~IsLast, flash' = WithWord, append_point' = Advanced,
         job' = [job EXCEPT !.k = @ + 1], job \in Jobs
  PROVE  /\ Begun' /\ job' \in Jobs /\ job'.page = job.page /\ job'.tag = job.tag /\ job'.val = job.val
         /\ job'.k = job.k + 1 /\ job'.try = job.try /\ job'.then = job.then
<1>1. /\ job.page \in Sectors /\ job.k \in 0..(LenOf(job.tag) - 1) /\ job.val \in Nat
      /\ LenOf(job.tag) \in Nat
  BY TagsAreApart DEF JobFits, Begun
<1>2. job.k \in Nat /\ job.k + 1 \in 0..(LenOf(job.tag) - 1)
  BY <1>1 DEF IsLast
<1>3. /\ job'.page = job.page /\ job'.tag = job.tag /\ job'.val = job.val
      /\ job'.k = job.k + 1 /\ job'.try = job.try /\ job'.then = job.then
  BY DEF Jobs
<1>9. job' \in Jobs
  BY <1>2 DEF Jobs
<1>4. Offset \in Nat
  BY ProgramPlace DEF Offsets
<1>5. append_point'[job.page] = Offset + 1 /\ flash'[Addr(job.page, Offset)] = TheWord
  BY <1>1, AdvancedRam
<1>6. Exact(job.page)'
  <2>1. \A s \in Sectors : s = job.page => Exact(s)'
    BY AdvancedRam
  <2>2. \A o \in Offsets : InUse(flash', job.page, o) <=> o < append_point'[job.page]
    BY <1>1, <2>1 DEF Exact
  <2> QED
    BY <1>3, <2>2 DEF Exact
<1>7. TheWord = Word(job'.tag, job'.val, job'.k - 1)
  BY <1>2, <1>3 DEF TheWord
<1>8. /\ append_point'[job'.page] > 0 /\ append_point'[job'.page] - 1 = Offset
  BY <1>3, <1>4, <1>5
<1> QED
  BY <1>1, <1>2, <1>3, <1>5, <1>6, <1>7, <1>8, <1>9 DEF Begun

(* What the invariant says of a job that is being programmed.               *)
LEMMA JobFitsWhile ==
  ASSUME IInv, pc \in {"first", "header", "append"}
  PROVE  JobFits
<1>1. append_point \in [Sectors -> 0..PAGE_SIZE] /\ count \in Nat
  BY DEF IInv, Types
<1>2. CASE pc = "first"
  <2>1. /\ Begun /\ job.tag = "header" /\ job.page = 0 /\ append_point[0] = job.k
    BY <1>2 DEF IInv, FirstInv
  <2>2. ~(append_point[job.page] >= HeaderLen)
    BY <2>1, TagsAreApart, Sizes DEF Begun
  <2> QED
    BY <1>1, <2>1, <2>2, TagsAreApart DEF JobFits
<1>3. CASE pc = "header"
  BY <1>1, <1>3, TagsAreApart DEF IInv, HeaderInv, JobFits
<1>4. CASE pc = "append"
  <2>1. AppendInv /\ NewestInv
    BY DEF IInv
  <2>2. /\ DOMAIN page_seq # {} /\ count >= 1 /\ job.page = Newest /\ job.tag \in Tags /\ job.val = count /\ Begun
        /\ append_point[job.page] - job.k + RecordLen[job.tag] < PAGE_SIZE
    BY <1>4, <2>1 DEF AppendInv
  <2>3. HasHeader(flash, Newest)
    BY <1>4, <2>1, <2>2 DEF NewestInv, Live
  <2> QED
    BY <1>1, <2>2, <2>3, TagsAreApart DEF JobFits
<1> QED
  BY <1>2, <1>3, <1>4

(* A header that is being programmed has a serial of its own.               *)
LEMMA HeaderIsNew ==
  ASSUME IInv, pc \in {"first", "header"}
  PROVE  /\ job.tag = "header"
         /\ \A s \in Sectors : HasHeader(flash, s) => Serial(flash, s) # job.val
<1>1. CASE pc = "first"
  BY <1>1 DEF IInv, FirstInv
<1>2. CASE pc = "header"
  <2>1. /\ job.tag = "header" /\ DOMAIN page_seq # {} /\ Begun
        /\ \A n \in DOMAIN page_seq : n < job.val
    BY <1>2 DEF IInv, HeaderInv
  <2>2. \A s \in Sectors : HasHeader(flash, s) => Serial(flash, s) \in DOMAIN page_seq
    BY <1>2, <2>1 DEF IInv, KnownInv, Live
  <2>3. DOMAIN page_seq \subseteq Nat /\ job.val \in Nat
    BY <2>1 DEF IInv, Types, Begun
  <2>4. \A n \in DOMAIN page_seq : n # job.val
    BY <2>1, <2>3
  <2> QED
    BY <2>1, <2>2, <2>4
<1> QED
  BY <1>1, <1>2

LEMMA NewestIsSector ==
  ASSUME Types, DOMAIN page_seq # {}
  PROVE  /\ Largest(DOMAIN page_seq) \in DOMAIN page_seq /\ Newest \in Sectors
         /\ Largest(DOMAIN page_seq) \in Nat
         /\ \A n \in DOMAIN page_seq : n <= Largest(DOMAIN page_seq)
BY LargestIs DEF Types, Newest

(* A record is being programmed to the newest page.                         *)
LEMMA RecordIsNewest ==
  ASSUME IInv, pc = "append"
  PROVE  /\ job.tag \in Tags /\ job.val = count /\ job.page = Newest /\ DOMAIN page_seq # {}
         /\ Spoiled(job.page) \/ \A s \in Sectors :
              HasHeader(flash, s) => Serial(flash, s) <= Serial(flash, job.page)
         /\ \A s \in Sectors, o \in Offsets :
              flash[Addr(s, o)].tag \in Tags /\ s # job.page => flash[Addr(s, o)].val < count
         /\ HasHeader(flash, job.page) /\ Exact(job.page)
<1>1. /\ DOMAIN page_seq # {} /\ job.page = Newest /\ job.tag \in Tags /\ job.val = count
      /\ OldRecords(IF job.k = 0 THEN -1 ELSE job.page)
  BY DEF IInv, AppendInv
<1>2. /\ HasHeader(flash, Newest) /\ Exact(Newest)
      /\ Spoiled(Newest) \/ Serial(flash, Newest) = Largest(DOMAIN page_seq)
  BY <1>1 DEF IInv, NewestInv, Live
<1>3. \A s \in Sectors : HasHeader(flash, s) => Serial(flash, s) \in DOMAIN page_seq
  BY <1>1 DEF IInv, KnownInv, Live
<1>4. \A n \in DOMAIN page_seq : n <= Largest(DOMAIN page_seq)
  BY <1>1, NewestIsSector DEF IInv
<1>5. \A s \in Sectors : s # -1
  BY SectorsFinite
<1>6. \A s \in Sectors, o \in Offsets :
        flash[Addr(s, o)].tag \in Tags /\ s # job.page => flash[Addr(s, o)].val < count
  BY <1>1, <1>5 DEF OldRecords
<1> QED
  BY <1>1, <1>2, <1>3, <1>4, <1>6

LEMMA ProgramWordInv ==
  ASSUME IInv, ProgramWord
  PROVE  IInv'
<1>1. /\ CanProgram /\ ~IsLast /\ flash' = WithWord /\ append_point' = Advanced
      /\ job' = [job EXCEPT !.k = @ + 1]
      /\ page_seq' = page_seq /\ free_pages' = free_pages /\ values' = values /\ pc' = pc /\ todo' = todo
      /\ why' = why /\ count' = count /\ done' = done /\ scans' = scans
      /\ pc \in {"first", "header", "append"} /\ FlashInv /\ Types
  BY DEF ProgramWord, CanProgram, Programming, IInv
<1>2. JobFits /\ job \in Jobs
  BY <1>1, JobFitsWhile DEF Types
<1>3. /\ append_point' \in [Sectors -> 0..PAGE_SIZE]
      /\ \A s \in Sectors : append_point'[s] = IF s = job.page THEN Offset + 1 ELSE append_point[s]
      /\ \A s \in Sectors : s # job.page =>
           /\ Exact(s) => Exact(s)'
           /\ Waiting(s) => Waiting(s)'
      /\ \A s \in Sectors : s = job.page => Exact(s)'
  BY <1>1, <1>2, AdvancedRam
<1>4. /\ Begun' /\ job' \in Jobs /\ job'.page = job.page /\ job'.tag = job.tag /\ job'.val = job.val
      /\ job'.k = job.k + 1 /\ job'.try = job.try /\ job'.then = job.then
  BY <1>1, <1>2, BegunGrows
<1>5. /\ \A s \in Sectors : HasHeader(flash', s) <=> HasHeader(flash, s)
      /\ \A s \in Sectors : HasHeader(flash, s) => Serial(flash', s) = Serial(flash, s)
  BY <1>1, <1>2, ProgramHeaders
<1>6. job.page \in Sectors /\ Offset \in Nat /\ Offset = append_point[job.page] /\ Offset < PAGE_SIZE /\ job.k \in Nat
  BY <1>1, <1>2, ProgramPlace, Sizes DEF Offsets, Offset, Jobs
<1>7. /\ \A s \in Sectors, o \in Offsets :
           flash'[Addr(s, o)] = IF s = job.page /\ o = Offset THEN TheWord ELSE flash[Addr(s, o)]
  BY <1>1, <1>2, ProgramPages
<1>8. Types'
  <2>1. append_point' \in [Sectors -> 0..(PAGE_SIZE + 1)]
    <3>1. 0..PAGE_SIZE \subseteq 0..(PAGE_SIZE + 1)
      BY Sizes
    <3> QED
      BY <1>3, <3>1
  <2> QED
    BY <1>1, <1>3, <1>4, <2>1 DEF Types
<1>9. FlashInv' /\ \A s \in Sectors : Spoiled(s) => Spoiled(s)'
  <2>1. CASE pc \in {"first", "header"}
    BY <1>1, <1>2, <2>1, HeaderIsNew, ProgramHeaderFlash
  <2>2. CASE pc = "append"
    BY <1>1, <1>2, <2>2, RecordIsNewest, ProgramRecordFlash
  <2> QED
    BY <1>1, <2>1, <2>2
<1>10. /\ OffInv' /\ WipingInv' /\ ErasingInv' /\ EmptyInv' /\ ReclaimInv'
  BY <1>1 DEF OffInv, WipingInv, ErasingInv, EmptyInv, ReclaimInv
<1>11. FirstInv'
  <2> SUFFICES ASSUME pc = "first" PROVE FirstInv'
    BY <1>1 DEF FirstInv
  <2>1. FirstInv
    BY DEF IInv
  <2>2. 0 \in Sectors
    BY SectorsFinite
  <2> QED
    BY <1>1, <1>3, <1>4, <1>5, <1>6, <2>1, <2>2 DEF FirstInv
<1>12. KnownInv'
  BY <1>1, <1>5 DEF IInv, KnownInv, Live
<1>13. LaterInv'
  <2>1. \A i \in DOMAIN free_pages : free_pages[i] \in Sectors
    BY <1>1 DEF Types
  <2>2. LaterInv
    BY DEF IInv
  <2>3. pc = "append" => HasHeader(flash, job.page)
    BY RecordIsNewest
  <2>4. scans = 1 => \A i \in DOMAIN free_pages : free_pages[i] # job.page
    BY <1>1, <2>2, <2>3 DEF LaterInv
  <2>5. scans = 1 => \A i \in DOMAIN free_pages : append_point'[free_pages[i]] = 0
    BY <1>1, <1>3, <2>1, <2>2, <2>4 DEF LaterInv
  <2>6. scans = 1 /\ pc = "header" => append_point'[job.page] = job'.k
    BY <1>1, <1>3, <1>4, <1>6, <2>2 DEF LaterInv
  <2> QED
    BY <1>1, <1>4, <1>5, <2>1, <2>2, <2>4, <2>5, <2>6 DEF LaterInv
<1>14. FreeInv'
  <2> SUFFICES ASSUME pc \in {"header", "append"}, DOMAIN page_seq # {}, NEW i \in DOMAIN free_pages,
                      free_pages[i] # job.page
               PROVE  Waiting(free_pages[i])'
    BY <1>1, <1>4 DEF FreeInv, Live
  <2>1. \A s \in Sectors : s = free_pages[i] => Waiting(s)'
    <3>1. Waiting(free_pages[i])
      BY DEF IInv, FreeInv, Live
    <3> QED
      BY <1>3, <3>1
  <2>2. free_pages[i] \in Sectors
    BY <1>1 DEF Types
  <2> QED
    BY <1>1, <2>1, <2>2 DEF Waiting, Exact, Whole
<1>15. HeaderInv'
  <2> SUFFICES ASSUME pc = "header" PROVE HeaderInv'
    BY <1>1 DEF HeaderInv
  <2>1. HeaderInv /\ job.tag = "header" /\ job.then \in Tags
    BY DEF IInv, HeaderInv
  <2>2. Newest \in Sectors /\ Newest' = Newest
    BY <1>1, <2>1, NewestIsSector DEF HeaderInv, Newest
  <2>3. append_point'[Newest] \in Nat /\ append_point[Newest] \in Nat /\ append_point'[Newest] >= append_point[Newest]
        /\ RecordLen[job.then] \in Nat
    BY <1>2, <1>3, <1>6, <2>1, <2>2, Sizes DEF JobFits
  <2>4. ~HasRoom(append_point'[Newest], RecordLen[job.then])
    BY <2>1, <2>3, Sizes DEF HeaderInv, HasRoom
  <2>5. OldRecords(-1)'
    <3>1. TheWord.tag \notin Tags
      BY <2>1, TagsAreApart DEF TheWord, Word
    <3> QED
      BY <1>1, <1>7, <2>1, <3>1 DEF HeaderInv, OldRecords
  <2> QED
    BY <1>1, <1>4, <2>1, <2>2, <2>4, <2>5 DEF HeaderInv
<1>16. CASE pc # "append"
  <2>1. NewestInv' /\ AppendInv'
    <3>1. pc' \in {"first", "header"}
      BY <1>1, <1>16
    <3> QED
      BY <3>1 DEF NewestInv, AppendInv, Live
  <2> QED
    BY <1>8, <1>9, <1>10, <1>11, <1>12, <1>13, <1>14, <1>15, <2>1 DEF IInv
<1>17. CASE pc = "append"
  <2>1. Newest \in Sectors /\ Newest' = Newest /\ job.page = Newest /\ DOMAIN page_seq # {}
    BY <1>1, <1>17, NewestIsSector, RecordIsNewest DEF Newest
  <2>2. NewestInv'
    <3>1. HasHeader(flash, Newest) /\ (Spoiled(Newest) \/ Serial(flash, Newest) = Largest(DOMAIN page_seq))
      BY <1>17, <2>1 DEF IInv, NewestInv, Live
    <3>2. \A s \in Sectors : s = Newest => Exact(s)' /\ (Spoiled(s) => Spoiled(s)')
      BY <1>3, <1>9, <2>1
    <3>3. Exact(Newest)'
      BY <2>1, <3>2 DEF Exact
    <3>4. Spoiled(Newest) => Spoiled(Newest)'
      BY <2>1, <3>2 DEF Spoiled
    <3>5. HasHeader(flash', Newest') /\ (Serial(flash, Newest) = Largest(DOMAIN page_seq) =>
              Serial(flash', Newest') = Largest(DOMAIN page_seq'))
      BY <1>1, <1>5, <2>1, <3>1
    <3> QED
      BY <1>1, <1>17, <3>1, <3>3, <3>4, <3>5 DEF NewestInv
  <2>3. AppendInv'
    <3>1. /\ count >= 1 /\ job.tag \in Tags /\ job.val = count
          /\ append_point[job.page] - job.k + RecordLen[job.tag] < PAGE_SIZE
      BY <1>17 DEF IInv, AppendInv
    <3>2. append_point'[job'.page] - job'.k + RecordLen[job'.tag] < PAGE_SIZE
      BY <1>3, <1>4, <1>6, <3>1, Sizes
    <3>3. OldRecords(job.page)'
      <4>1. \A s \in Sectors, o \in Offsets :
               flash'[Addr(s, o)].tag \in Tags /\ s # job.page => flash'[Addr(s, o)].val < count
        BY <1>7, <1>17, RecordIsNewest
      <4> QED
        BY <1>1, <1>4, <4>1 DEF OldRecords
    <3>4. job'.k # 0
      BY <1>4, <1>6
    <3> QED
      BY <1>1, <1>4, <2>1, <3>1, <3>2, <3>3, <3>4 DEF AppendInv
  <2> QED
    BY <1>8, <1>9, <1>10, <1>11, <1>12, <1>13, <1>14, <1>15, <2>2, <2>3 DEF IInv
<1> QED
  BY <1>16, <1>17

(* The newest page may take records: _do_save is about to append to it.     *)
NewestReady ==
  /\ Types /\ FlashInv /\ KnownInv /\ LaterInv /\ DOMAIN page_seq # {}
  /\ HasHeader(flash, Newest) /\ Exact(Newest) /\ Whole(Newest)
  /\ (Spoiled(Newest) \/ Serial(flash, Newest) = Largest(DOMAIN page_seq))
  /\ \A i \in DOMAIN free_pages : Waiting(free_pages[i])
  /\ OldRecords(-1) /\ count >= 1
AppendingState ==
  /\ NewestReady /\ pc = "append"
  /\ job.page = Newest /\ job.tag \in Tags /\ job.val = count /\ job.k = 0
  /\ HasRoom(append_point[Newest], RecordLen[job.tag])
ReclaimingState ==
  /\ NewestReady /\ pc = "reclaim"
  /\ job.page = Newest /\ job.then \in Tags /\ free_pages = << >>

LEMMA AppendingInv == AppendingState => IInv
<1> SUFFICES ASSUME AppendingState PROVE IInv
  OBVIOUS
<1> USE DEF AppendingState, NewestReady
<1>1. Newest \in Sectors /\ append_point[Newest] \in Nat
  BY NewestIsSector DEF Types
<1>2. Begun
  <2>1. 0 \in 0..(LenOf(job.tag) - 1)
    BY TagsAreApart
  <2>2. job.val \in Nat
    BY DEF Types
  <2> QED
    BY <1>1, <2>1, <2>2 DEF Begun, Waiting
<1>3. AppendInv
  <2>1. RecordLen[job.tag] \in Nat /\ PAGE_SIZE \in Nat
    BY Sizes
  <2>2. append_point[job.page] - job.k + RecordLen[job.tag] < PAGE_SIZE
    BY <1>1, <2>1 DEF HasRoom
  <2> QED
    BY <1>2, <2>2 DEF AppendInv
<1>4. NewestInv /\ FreeInv
  BY DEF NewestInv, FreeInv
<1>5. pc = "append"
  OBVIOUS
<1>6. OffInv /\ FirstInv /\ WipingInv /\ ErasingInv /\ EmptyInv /\ HeaderInv /\ ReclaimInv
  BY <1>5 DEF OffInv, FirstInv, WipingInv, ErasingInv, EmptyInv, HeaderInv, ReclaimInv
<1> QED
  BY <1>3, <1>4, <1>6 DEF IInv

LEMMA ReclaimingInv == ReclaimingState => IInv
<1> SUFFICES ASSUME ReclaimingState PROVE IInv
  OBVIOUS
<1> USE DEF ReclaimingState, NewestReady
<1>1. ReclaimInv /\ NewestInv /\ FreeInv
  BY DEF ReclaimInv, NewestInv, FreeInv
<1>2. pc = "reclaim"
  OBVIOUS
<1>3. OffInv /\ FirstInv /\ WipingInv /\ ErasingInv /\ EmptyInv /\ HeaderInv /\ AppendInv
  BY <1>2 DEF OffInv, FirstInv, WipingInv, ErasingInv, EmptyInv, HeaderInv, AppendInv
<1> QED
  BY <1>1, <1>3 DEF IInv

LEMMA AppendingInvNext == AppendingState' => IInv'
BY AppendingInv, PTL

LEMMA ReclaimingInvNext == ReclaimingState' => IInv'
BY ReclaimingInv, PTL

LEMMA ReclaimedInv ==
  ASSUME IInv, Reclaimed
  PROVE  IInv'
<1>1. /\ pc = "reclaim" /\ todo = << >>
      /\ DoSave(job.page, job.then, count, HasRoom(Offset, RecordLen[job.then]))
      /\ flash' = flash /\ append_point' = append_point /\ page_seq' = page_seq
      /\ free_pages' = free_pages /\ values' = values /\ count' = count /\ done' = done /\ scans' = scans
      /\ Types /\ FlashInv /\ ReclaimInv /\ NewestInv /\ LaterInv /\ KnownInv
  BY DEF Reclaimed, IInv
<1>2. /\ DOMAIN page_seq # {} /\ count >= 1 /\ job.page = Newest /\ job.then \in Tags
      /\ free_pages = << >> /\ OldRecords(-1) /\ Live
  BY <1>1 DEF ReclaimInv, Live
<1>3. FlashInv'
  BY <1>1 DEF FlashInv, LogIsOrdered, Spoiled
<1>4. << >> \in Seq(Sectors)
  OBVIOUS
<1>5. Newest \in Sectors
  BY <1>1, <1>2, NewestIsSector
<1>6. CASE HasRoom(Offset, RecordLen[job.then])
  <2>1. /\ pc' = "append" /\ todo' = << >> /\ why' = why
        /\ job' = [NoJob EXCEPT !.page = job.page, !.tag = job.then, !.val = count]
    BY <1>1, <1>6 DEF DoSave
  <2>2. job' = [page |-> Newest, tag |-> job.then, val |-> count, k |-> 0, try |-> 1, then |-> "none"]
    BY <1>2, <2>1 DEF NoJob
  <2>3. job' \in Jobs
    BY <1>1, <1>2, <1>5, <2>2 DEF Jobs, Types
  <2>4. Types'
    BY <1>1, <1>4, <2>1, <2>3 DEF Types
  <2>5. KnownInv'
    BY <1>1, <1>2 DEF KnownInv
  <2>6. LaterInv'
    BY <1>1, <1>2, <2>1 DEF LaterInv
  <2>7. Newest' = Newest /\ HasHeader(flash, Newest) /\ Exact(Newest) /\ Whole(Newest)
        /\ (Spoiled(Newest) \/ Serial(flash, Newest) = Largest(DOMAIN page_seq))
    BY <1>1, <1>2 DEF NewestInv, Newest
  <2>8. Exact(Newest)' /\ Whole(Newest)' /\ (Spoiled(Newest) => Spoiled(Newest)') /\ OldRecords(-1)'
    BY <1>1, <1>2, <2>7 DEF Exact, Whole, Spoiled, OldRecords
  <2>9. NewestReady'
    BY <1>1, <1>2, <1>3, <2>4, <2>5, <2>6, <2>7, <2>8 DEF NewestReady
  <2>10. AppendingState'
    <3>1. HasRoom(append_point'[Newest'], RecordLen[job'.tag])
      BY <1>1, <1>2, <1>6, <2>2, <2>7 DEF Offset
    <3>2. job'.page = Newest' /\ job'.tag \in Tags /\ job'.val = count' /\ job'.k = 0
      BY <1>1, <1>2, <2>2, <2>7
    <3> QED
      BY <2>1, <2>9, <3>1, <3>2 DEF AppendingState
  <2> QED
    BY <2>10, AppendingInvNext
<1>7. CASE ~HasRoom(Offset, RecordLen[job.then])
  <2>1. pc' = "halted" /\ why' = "has_room" /\ job' = NoJob /\ todo' = << >>
    BY <1>1, <1>7 DEF DoSave, Halt
  <2>2. Types'
    BY <1>1, <1>4, <2>1, NoJobIsJob DEF Types
  <2> QED
    BY <1>3, <2>1, <2>2, HaltedInv
<1> QED
  BY <1>6, <1>7

LEMMA SaveInv ==
  ASSUME IInv, NEW t \in Tags, Save(t)
  PROVE  IInv'
<1>1. /\ pc = "ready" /\ count < MaxSaves /\ count' = count + 1
      /\ flash' = flash /\ append_point' = append_point /\ page_seq' = page_seq
      /\ values' = values /\ done' = done /\ scans' = scans
      /\ Types /\ FlashInv /\ NewestInv /\ LaterInv /\ KnownInv /\ FreeInv
  BY DEF Save, IInv
<1>2. count \in Nat /\ count + 1 \in 0..MaxSaves /\ 1..count \subseteq 1..(count + 1)
  <2>1. count \in Nat
    BY <1>1 DEF Types
  <2> QED
    BY <1>1, <2>1, Sizes
<1>3. FlashType(flash, count')
  <2>1. 1..count \subseteq 1..count' /\ (count >= 1 => count' >= 1)
    BY <1>1, <1>2
  <2>2. FlashType(flash, count)
    BY <1>1 DEF FlashInv
  <2> QED
    BY <2>1, <2>2 DEF FlashType
<1>4. FlashInv'
  BY <1>1, <1>3 DEF FlashInv, LogIsOrdered, Spoiled
<1>5. \A s \in Sectors, o \in Offsets : flash[Addr(s, o)].tag \in Tags => flash[Addr(s, o)].val < count'
  <2> SUFFICES ASSUME NEW s \in Sectors, NEW o \in Offsets, flash[Addr(s, o)].tag \in Tags
               PROVE  flash[Addr(s, o)].val < count'
    OBVIOUS
  <2>1. FlashType(flash, count)
    BY <1>1 DEF FlashInv
  <2>2. InUse(flash, s, o)
    BY <2>1, TagInUse
  <2>3. flash[Addr(s, o)].val \in 1..count
    BY <2>1, <2>2 DEF FlashType
  <2> QED
    BY <1>1, <1>2, <2>3
<1>6. OldRecords(-1)'
  BY <1>1, <1>5 DEF OldRecords
<1>7. /\ append_point' \in [Sectors -> 0..PAGE_SIZE] /\ append_point' \in [Sectors -> 0..(PAGE_SIZE + 1)]
      /\ count' \in 0..MaxSaves /\ done' \subseteq 1..count' /\ << >> \in Seq(Sectors)
  BY <1>1, <1>2 DEF Types
<1>8. ASSUME Halt("no_newest") \/ Halt("no_free_page"), free_pages' = free_pages PROVE IInv'
  <2>1. pc' = "halted" /\ why' # "past_end" /\ job' = NoJob /\ todo' = << >>
    BY <1>8 DEF Halt
  <2>2. Types'
    BY <1>1, <1>7, <1>8, <2>1, NoJobIsJob DEF Types
  <2> QED
    BY <1>4, <2>1, <2>2, HaltedInv
<1>9. CASE DOMAIN page_seq = {}
  BY <1>8, <1>9 DEF Save
<1>10. ASSUME DOMAIN page_seq # {}
       PROVE  /\ Newest \in Sectors /\ Newest' = Newest /\ Live /\ \A n \in DOMAIN page_seq : n < NextSerial
              /\ NextSerial \in Nat
  BY <1>1, <1>10, NewestIsSector DEF Newest, Live, NextSerial, Types
<1>11. CASE DOMAIN page_seq # {} /\ HasRoom(append_point[Newest], RecordLen[t])
  <2>1. DoSave(Newest, t, count + 1, TRUE) /\ free_pages' = free_pages
    BY <1>11 DEF Save
  <2>2. /\ pc' = "append" /\ todo' = << >> /\ why' = why
        /\ job' = [NoJob EXCEPT !.page = Newest, !.tag = t, !.val = count + 1]
    BY <2>1 DEF DoSave
  <2>3. job' = [page |-> Newest, tag |-> t, val |-> count + 1, k |-> 0, try |-> 1, then |-> "none"]
    BY <2>2 DEF NoJob
  <2>4. job' \in Jobs
    BY <1>2, <1>10, <1>11, <2>3 DEF Jobs
  <2>5. Types'
    BY <1>1, <1>7, <2>1, <2>2, <2>4 DEF Types
  <2>6. KnownInv' /\ LaterInv'
    BY <1>1, <1>10, <1>11, <2>1, <2>2 DEF KnownInv, LaterInv
  <2>7. /\ HasHeader(flash, Newest) /\ Exact(Newest) /\ Whole(Newest)
        /\ (Spoiled(Newest) \/ Serial(flash, Newest) = Largest(DOMAIN page_seq))
    BY <1>1, <1>10, <1>11 DEF NewestInv
  <2>8. Exact(Newest)' /\ Whole(Newest)' /\ (Spoiled(Newest) => Spoiled(Newest)')
    BY <1>1, <1>10, <1>11, <2>7 DEF Exact, Whole, Spoiled
  <2>9. \A i \in DOMAIN free_pages' : Waiting(free_pages[i])'
    BY <1>1, <1>10, <1>11, <2>1 DEF FreeInv, Waiting, Exact, Whole
  <2>10. NewestReady'
    <3>1. count' >= 1
      BY <1>1, <1>2
    <3> QED
      BY <1>1, <1>4, <1>6, <1>10, <1>11, <2>5, <2>6, <2>7, <2>8, <2>9, <3>1 DEF NewestReady
  <2>11. AppendingState'
    <3>1. HasRoom(append_point'[Newest'], RecordLen[job'.tag])
      BY <1>1, <1>10, <1>11, <2>3
    <3>2. job'.page = Newest' /\ job'.tag \in Tags /\ job'.val = count' /\ job'.k = 0
      BY <1>1, <1>10, <1>11, <2>3
    <3> QED
      BY <2>2, <2>10, <3>1, <3>2 DEF AppendingState
  <2> QED
    BY <2>11, AppendingInvNext
<1>12. CASE DOMAIN page_seq # {} /\ ~HasRoom(append_point[Newest], RecordLen[t]) /\ free_pages = << >>
  BY <1>8, <1>12 DEF Save
<1>13. CASE DOMAIN page_seq # {} /\ ~HasRoom(append_point[Newest], RecordLen[t]) /\ free_pages # << >>
  <2>1. /\ pc' = "header" /\ free_pages' = Tail(free_pages) /\ todo' = todo /\ why' = why
        /\ job' = [NoJob EXCEPT !.page = Head(free_pages), !.tag = "header", !.val = NextSerial, !.then = t]
    BY <1>13 DEF Save
  <2>2. job' = [page |-> Head(free_pages), tag |-> "header", val |-> NextSerial, k |-> 0, try |-> 1, then |-> t]
    BY <2>1 DEF NoJob
  <2>3. /\ Head(free_pages) = free_pages[1] /\ Head(free_pages) \in Sectors /\ 1 \in DOMAIN free_pages
        /\ Tail(free_pages) \in Seq(Sectors) /\ Len(Tail(free_pages)) <= Len(free_pages)
        /\ \A i \in DOMAIN Tail(free_pages) : i + 1 \in DOMAIN free_pages /\ i + 1 # 1 /\ i \in Nat
                                              /\ Tail(free_pages)[i] = free_pages[i + 1]
    <3>1. free_pages \in Seq(Sectors)
      BY <1>1 DEF Types
    <3>2. Len(Tail(free_pages)) = Len(free_pages) - 1 /\ Len(free_pages) \in Nat
      BY <1>13, <3>1, TailIs
    <3>3. \A i \in DOMAIN Tail(free_pages) : i \in Nat
      BY <1>13, <3>1
    <3> QED
      BY <1>13, <3>1, <3>2, <3>3, TailIs
  <2>4. Types'
    <3>1. job' \in Jobs
      BY <1>10, <1>13, <2>2, <2>3 DEF Jobs
    <3>2. /\ scans = 1 => Len(free_pages') <= NSECTORS
          /\ scans = 2 => Len(free_pages') <= 2 * NSECTORS
      <4>1. free_pages \in Seq(Sectors)
        BY <1>1 DEF Types
      <4>2. Len(free_pages) \in Nat /\ Len(Tail(free_pages)) \in Nat
        BY <2>3, <4>1
      <4>3. /\ scans = 1 => Len(free_pages) <= NSECTORS
            /\ scans = 2 => Len(free_pages) <= 2 * NSECTORS
        BY <1>1 DEF Types
      <4> HIDE DEF Types
      <4>4. Len(free_pages') <= Len(free_pages) /\ Len(free_pages') \in Nat
        BY <2>1, <2>3, <4>2
      <4>5. NSECTORS \in Nat /\ 2 * NSECTORS \in Nat
        BY Sizes
      <4> QED
        BY <4>2, <4>3, <4>4, <4>5
    <3>3. free_pages' \in Seq(Sectors) /\ scans' # 0
      BY <1>1, <1>13, <2>1, <2>3 DEF Types
    <3> QED
      BY <1>1, <1>7, <2>1, <3>1, <3>2, <3>3 DEF Types
  <2>5. KnownInv'
    BY <1>1, <1>10, <1>13, <2>1 DEF KnownInv
  <2>6. /\ Waiting(Head(free_pages))
        /\ \A i \in DOMAIN free_pages : Waiting(free_pages[i])
    BY <1>1, <1>10, <1>13, <2>3 DEF FreeInv
  <2>7. FreeInv'
    <3>1. \A i \in DOMAIN free_pages' : Waiting(free_pages'[i])
      BY <2>1, <2>3, <2>6
    <3>2. \A i \in DOMAIN free_pages' : Waiting(free_pages[i])'
      BY <1>1, <3>1 DEF Waiting, Exact, Whole
    <3> QED
      BY <3>2 DEF FreeInv
  <2>8. HeaderInv'
    <3>1. Begun'
      <4>1. 0 \in 0..(LenOf("header") - 1)
        BY TagsAreApart
      <4>2. Waiting(job'.page)
        BY <2>2, <2>6
      <4>3. Waiting(job.page)'
        BY <1>1, <4>2 DEF Waiting, Exact, Whole
      <4> QED
        BY <1>10, <1>13, <2>2, <2>3, <4>1, <4>3 DEF Begun
    <3>2. count' >= 1
      BY <1>1, <1>2
    <3> QED
      BY <1>1, <1>6, <1>10, <1>13, <2>2, <3>1, <3>2 DEF HeaderInv
  <2>9. LaterInv'
    <3> SUFFICES ASSUME scans = 1 PROVE LaterInv'
      BY <1>1 DEF LaterInv
    <3>1. /\ why # "past_end"
          /\ \A i \in DOMAIN free_pages :
               /\ ~HasHeader(flash, free_pages[i]) /\ append_point[free_pages[i]] = 0
               /\ \A j \in DOMAIN free_pages : free_pages[i] = free_pages[j] => i = j
      BY <1>1 DEF LaterInv
    <3>2. append_point[Head(free_pages)] = 0
      BY <2>3, <3>1
    <3>3. ASSUME NEW i \in DOMAIN free_pages', NEW j \in DOMAIN free_pages', free_pages'[i] = free_pages'[j]
          PROVE  i = j
      <4>1. i + 1 = j + 1 /\ i \in Nat /\ j \in Nat
        BY <2>1, <2>3, <3>1, <3>3
      <4> QED
        BY <4>1
    <3>4. ASSUME NEW i \in DOMAIN free_pages'
          PROVE  /\ ~HasHeader(flash, free_pages'[i]) /\ append_point[free_pages'[i]] = 0
                 /\ free_pages'[i] # job'.page
      BY <2>1, <2>2, <2>3, <3>1, <3>4
    <3>5. append_point'[job'.page] = job'.k
      <4>1. job'.page = Head(free_pages) /\ job'.k = 0
        BY <2>2
      <4> QED
        BY <1>1, <3>2, <4>1
    <3>7. why' # "past_end"
      BY <2>1, <3>1
    <3>6. \A i \in DOMAIN free_pages' :
            /\ ~HasHeader(flash', free_pages'[i]) /\ append_point'[free_pages'[i]] = 0
            /\ free_pages'[i] # job'.page
      BY <1>1, <3>4
    <3> QED
      BY <3>3, <3>5, <3>6, <3>7 DEF LaterInv
  <2>10. /\ OffInv' /\ FirstInv' /\ WipingInv' /\ ErasingInv' /\ EmptyInv' /\ ReclaimInv' /\ AppendInv' /\ NewestInv'
    BY <2>1 DEF OffInv, FirstInv, WipingInv, ErasingInv, EmptyInv, ReclaimInv, AppendInv, NewestInv
  <2> QED
    BY <1>4, <2>4, <2>5, <2>7, <2>8, <2>9, <2>10 DEF IInv
<1> QED
  BY <1>9, <1>11, <1>12, <1>13

LEMMA WriteRefusedInv ==
  ASSUME IInv, WriteRefused
  PROVE  IInv'
<1>1. /\ pc \in {"first", "header", "append"} /\ Offset < PAGE_SIZE /\ Programmed(flash, Cell)
      /\ append_point' = Advanced
      /\ flash' = flash /\ page_seq' = page_seq /\ free_pages' = free_pages /\ values' = values
      /\ count' = count /\ done' = done /\ scans' = scans /\ Types /\ FlashInv
  BY DEF WriteRefused, Programming, IInv
<1>2. JobFits
  BY <1>1, JobFitsWhile
<1>3. /\ job.page \in Sectors /\ Offset = append_point[job.page] /\ Offset \in Nat /\ Offset \in Offsets
      /\ append_point \in [Sectors -> 0..PAGE_SIZE]
  BY <1>1, <1>2, Sizes DEF JobFits, Begun, Offset, Offsets
<1>4. InUse(flash, job.page, Offset)
  BY <1>1, <1>3, ProgrammedIs DEF Cell
<1>5. /\ append_point' \in [Sectors -> 0..PAGE_SIZE] /\ append_point' \in [Sectors -> 0..(PAGE_SIZE + 1)]
      /\ \A s \in Sectors : append_point'[s] = IF s = job.page THEN Offset + 1 ELSE append_point[s]
  <2>1. Offset + 1 \in 0..PAGE_SIZE /\ append_point' = [append_point EXCEPT ![job.page] = Offset + 1]
        /\ 0..PAGE_SIZE \subseteq 0..(PAGE_SIZE + 1)
    BY <1>1, <1>3, Sizes DEF Advanced
  <2> QED
    BY <1>3, <2>1
<1>6. FlashInv'
  BY <1>1 DEF FlashInv, LogIsOrdered, Spoiled
<1>7. pc # "append"
  BY <1>3, <1>4, RecordIsNewest DEF Exact
<1>8. CASE pc = "header"
  <2>1. HeaderInv /\ LaterInv
    BY DEF IInv
  <2>2. Newest \in Sectors /\ DOMAIN page_seq # {} /\ job.then \in Tags
    BY <1>1, <1>8, <2>1, NewestIsSector DEF HeaderInv
  <2>3. append_point[Newest] \in Nat /\ Advanced[Newest] \in Nat /\ Advanced[Newest] >= append_point[Newest]
        /\ RecordLen[job.then] \in Nat
    BY <1>1, <1>3, <1>5, <2>2, Sizes
  <2>4. ~HasRoom(Advanced[Newest], RecordLen[job.then])
    BY <1>8, <2>1, <2>3, Sizes DEF HeaderInv, HasRoom
  <2>5. pc' = "halted" /\ why' = "has_room" /\ job' = NoJob /\ todo' = << >>
    BY <1>8, <2>4 DEF WriteRefused, DoSave, Halt
  <2>6. Types'
    <3>1. << >> \in Seq(Sectors)
      OBVIOUS
    <3> QED
      BY <1>1, <1>5, <2>5, <3>1, NoJobIsJob DEF Types
  <2> QED
    BY <1>6, <2>5, <2>6, HaltedInv
<1>9. CASE pc = "first"
  <2>1. FirstInv /\ LaterInv
    BY DEF IInv
  <2>2. pc' = "ready" /\ job' = NoJob /\ todo' = todo /\ why' = why
    BY <1>9 DEF WriteRefused
  <2>3. Types'
    BY <1>1, <1>5, <1>9, <2>2, NoJobIsJob DEF Types
  <2>4. page_seq' = NoPages /\ DOMAIN page_seq' = {} /\ \A s \in Sectors : ~HasHeader(flash', s)
    BY <1>1, <1>9, <2>1, NoPagesIsMap DEF FirstInv
  <2>5. EmptyInv'
    BY <2>4 DEF EmptyInv
  <2>6. LaterInv'
    <3>1. \A i \in DOMAIN free_pages : free_pages[i] \in Sectors
      BY <1>1 DEF Types
    <3> QED
      BY <1>1, <1>5, <1>9, <2>1, <2>2, <2>4, <3>1 DEF LaterInv
  <2>7. /\ OffInv' /\ FirstInv' /\ WipingInv' /\ ErasingInv' /\ HeaderInv' /\ ReclaimInv' /\ AppendInv'
    BY <2>2 DEF OffInv, FirstInv, WipingInv, ErasingInv, HeaderInv, ReclaimInv, AppendInv
  <2>8. KnownInv' /\ NewestInv' /\ FreeInv'
    BY <2>4 DEF KnownInv, NewestInv, FreeInv, Live
  <2> QED
    BY <1>6, <2>3, <2>5, <2>6, <2>7, <2>8 DEF IInv
<1> QED
  BY <1>1, <1>7, <1>8, <1>9

LEMMA WriteBeyondInv ==
  ASSUME IInv, WriteBeyond
  PROVE  IInv'
<1>1. /\ pc \in {"first", "header", "append"} /\ Offset >= PAGE_SIZE
      /\ append_point' = Advanced /\ pc' = "halted" /\ why' = "past_end" /\ job' = NoJob /\ todo' = << >>
      /\ flash' = flash /\ page_seq' = page_seq /\ free_pages' = free_pages /\ values' = values
      /\ count' = count /\ done' = done /\ scans' = scans /\ Types /\ FlashInv /\ LaterInv
  BY DEF WriteBeyond, Halt, Programming, IInv
<1>2. JobFits
  BY <1>1, JobFitsWhile
<1>3. /\ job.page \in Sectors /\ Offset = append_point[job.page]
      /\ append_point \in [Sectors -> 0..PAGE_SIZE] /\ append_point[job.page] \in 0..PAGE_SIZE
      /\ job.k \in Nat /\ job.k <= LenOf(job.tag) - 1 /\ LenOf(job.tag) \in Nat
  BY <1>1, <1>2, TagsAreApart DEF JobFits, Begun, Offset
<1>4. append_point' \in [Sectors -> 0..(PAGE_SIZE + 1)]
  <2>1. append_point' = [append_point EXCEPT ![job.page] = append_point[job.page] + 1]
        /\ append_point[job.page] + 1 \in 0..(PAGE_SIZE + 1) /\ 0..PAGE_SIZE \subseteq 0..(PAGE_SIZE + 1)
    BY <1>1, <1>3, Sizes DEF Advanced
  <2> QED
    BY <1>3, <2>1
<1>5. FlashInv'
  BY <1>1 DEF FlashInv, LogIsOrdered, Spoiled
<1>6. Types'
  <2>1. << >> \in Seq(Sectors)
    OBVIOUS
  <2> QED
    BY <1>1, <1>4, <2>1, NoJobIsJob DEF Types
<1>7. scans' # 1
  <2> SUFFICES ASSUME scans = 1 PROVE FALSE
    BY <1>1
  <2>1. CASE pc = "append"
    <3>1. append_point[job.page] - job.k + RecordLen[job.tag] < PAGE_SIZE /\ job.tag \in Tags
      BY <2>1 DEF IInv, AppendInv
    <3>2. LenOf(job.tag) = RecordLen[job.tag]
      BY <3>1, TagsAreApart
    <3>3. job.k < RecordLen[job.tag] /\ append_point[job.page] >= PAGE_SIZE /\ RecordLen[job.tag] \in Nat
      BY <1>1, <1>3, <3>1, <3>2, Sizes
    <3> QED
      BY <1>3, <3>1, <3>3, Sizes
  <2>2. CASE pc = "first"
    <3>1. append_point[job.page] = job.k /\ LenOf(job.tag) = HeaderLen
      BY <2>2, TagsAreApart DEF IInv, FirstInv
    <3> QED
      BY <1>1, <1>3, <3>1, Sizes
  <2>3. CASE pc = "header"
    <3>1. append_point[job.page] = job.k /\ LenOf(job.tag) = HeaderLen
      BY <1>1, <2>3, TagsAreApart DEF IInv, HeaderInv, LaterInv
    <3> QED
      BY <1>1, <1>3, <3>1, Sizes
  <2> QED
    BY <1>1, <2>1, <2>2, <2>3
<1> QED
  BY <1>1, <1>5, <1>6, <1>7, HaltedInv

LEMMA RecordWrittenInv ==
  ASSUME IInv, RecordWritten
  PROVE  IInv'
<1>1. /\ pc = "append" /\ pc' = "ready" /\ CanProgram /\ IsLast /\ flash' = WithWord /\ append_point' = Advanced
      /\ values' = [values EXCEPT ![job.tag] = job.val] /\ done' = done \cup {job.val} /\ job' = NoJob
      /\ page_seq' = page_seq /\ free_pages' = free_pages /\ todo' = todo
      /\ why' = why /\ count' = count /\ scans' = scans /\ FlashInv /\ Types
  BY DEF RecordWritten, IInv
<1>2. JobFits
  BY <1>1, JobFitsWhile
<1>3. /\ job.tag \in Tags /\ job.val = count /\ job.page = Newest /\ DOMAIN page_seq # {}
      /\ Spoiled(job.page) \/ \A s \in Sectors :
           HasHeader(flash, s) => Serial(flash, s) <= Serial(flash, job.page)
      /\ \A s \in Sectors, o \in Offsets :
           flash[Addr(s, o)].tag \in Tags /\ s # job.page => flash[Addr(s, o)].val < count
      /\ HasHeader(flash, job.page) /\ Exact(job.page)
  BY <1>1, RecordIsNewest
<1>4. FlashInv' /\ \A s \in Sectors : Spoiled(s) => Spoiled(s)'
  BY <1>1, <1>2, <1>3, ProgramRecordFlash
<1>5. /\ append_point' \in [Sectors -> 0..PAGE_SIZE]
      /\ \A s \in Sectors : append_point'[s] = IF s = job.page THEN Offset + 1 ELSE append_point[s]
      /\ \A s \in Sectors : s # job.page => (Waiting(s) => Waiting(s)')
      /\ \A s \in Sectors : s = job.page => Exact(s)' /\ Whole(s)' /\ Waiting(s)'
  BY <1>1, <1>2, AdvancedRam
<1>6. /\ \A s \in Sectors : HasHeader(flash', s) <=> HasHeader(flash, s)
      /\ \A s \in Sectors : HasHeader(flash, s) => Serial(flash', s) = Serial(flash, s)
  BY <1>1, <1>2, <1>3, ProgramHeaders
<1>7. Newest \in Sectors /\ Newest' = Newest
  BY <1>1, <1>3, NewestIsSector DEF Newest
<1>8. Types'
  <2>1. append_point' \in [Sectors -> 0..(PAGE_SIZE + 1)]
    <3>1. 0..PAGE_SIZE \subseteq 0..(PAGE_SIZE + 1)
      BY Sizes
    <3> QED
      BY <1>5, <3>1
  <2>2. count \in 1..count /\ done' \subseteq 1..count
    BY <1>1, <1>2, <1>3 DEF JobFits, Types
  <2>3. values' \in [Tags -> {0} \cup done']
    <3>1. values \in [Tags -> {0} \cup done']
      BY <1>1 DEF Types
    <3>2. job.val \in {0} \cup done'
      BY <1>1
    <3> QED
      BY <1>1, <3>1, <3>2
  <2> QED
    BY <1>1, <1>5, <2>1, <2>2, <2>3, NoJobIsJob DEF Types
<1>9. KnownInv'
  BY <1>1, <1>3, <1>6 DEF IInv, KnownInv, Live
<1>10. NewestInv'
  <2>1. Spoiled(Newest) \/ Serial(flash, Newest) = Largest(DOMAIN page_seq)
    BY <1>1, <1>3 DEF IInv, NewestInv, Live
  <2>2. \A s \in Sectors : s = Newest => Exact(s)' /\ Whole(s)' /\ (Spoiled(s) => Spoiled(s)')
    BY <1>3, <1>4, <1>5
  <2>3. Exact(Newest)' /\ Whole(Newest)' /\ (Spoiled(Newest) => Spoiled(Newest)')
    BY <1>7, <2>2 DEF Exact, Whole, Spoiled
  <2>4. HasHeader(flash', Newest') /\ (Serial(flash, Newest) = Largest(DOMAIN page_seq) =>
          Serial(flash', Newest') = Largest(DOMAIN page_seq'))
    BY <1>1, <1>3, <1>6, <1>7
  <2> QED
    BY <2>1, <2>3, <2>4 DEF NewestInv
<1>11. \A i \in DOMAIN free_pages : free_pages[i] \in Sectors
  BY <1>1 DEF Types
<1>12. FreeInv'
  <2> SUFFICES ASSUME NEW i \in DOMAIN free_pages' PROVE Waiting(free_pages[i])'
    BY DEF FreeInv
  <2>1. Waiting(free_pages[i]) \/ free_pages[i] = job.page
    BY <1>1, <1>3 DEF IInv, FreeInv, Live
  <2>2. \A s \in Sectors : s = free_pages[i] => Waiting(s)'
    BY <1>5, <2>1
  <2>3. free_pages[i] \in Sectors /\ free_pages' = free_pages
    BY <1>1, <1>11
  <2> QED
    BY <2>2, <2>3 DEF Waiting, Exact, Whole
<1>13. LaterInv'
  <2>1. LaterInv
    BY DEF IInv
  <2>2. scans = 1 => \A i \in DOMAIN free_pages :
          free_pages[i] # job.page /\ append_point'[free_pages[i]] = 0
    BY <1>1, <1>3, <1>5, <1>11, <2>1 DEF LaterInv
  <2> QED
    BY <1>1, <1>6, <1>11, <2>1, <2>2 DEF LaterInv
<1>14. EmptyInv'
  BY <1>1, <1>3 DEF EmptyInv
<1>15. /\ OffInv' /\ FirstInv' /\ WipingInv' /\ ErasingInv' /\ HeaderInv' /\ ReclaimInv' /\ AppendInv'
  BY <1>1 DEF OffInv, FirstInv, WipingInv, ErasingInv, HeaderInv, ReclaimInv, AppendInv
<1> QED
  BY <1>4, <1>8, <1>9, <1>10, <1>12, <1>13, <1>14, <1>15 DEF IInv

LEMMA HeaderWrittenInv ==
  ASSUME IInv, HeaderWritten
  PROVE  IInv'
<1> DEFINE seq == Updated(page_seq, [n \in {job.val} |-> job.page])
           serials == Sorted(DOMAIN seq)
<1>1. /\ pc = "header" /\ CanProgram /\ IsLast /\ flash' = WithWord /\ append_point' = Advanced
      /\ page_seq' = seq /\ free_pages' = free_pages /\ values' = values
      /\ count' = count /\ done' = done /\ scans' = scans /\ FlashInv /\ Types
      /\ IF free_pages = << >> /\ Len(serials) > 1
         THEN /\ pc' = "reclaim"
              /\ todo' = [i \in 1..(Len(serials) - 1) |-> seq[serials[i]]]
              /\ job' = [NoJob EXCEPT !.page = job.page, !.then = job.then]
              /\ UNCHANGED why
         ELSE DoSave(job.page, job.then, count, HasRoom(Offset + 1, RecordLen[job.then]))
  BY DEF HeaderWritten, IInv
<1>2. JobFits /\ \A s \in Sectors : HasHeader(flash, s) => Serial(flash, s) # job.val
  BY <1>1, JobFitsWhile, HeaderIsNew
<1>3. /\ DOMAIN page_seq # {} /\ count >= 1 /\ job.tag = "header" /\ job.then \in Tags
      /\ \A n \in DOMAIN page_seq : n < job.val
      /\ OldRecords(-1) /\ IsMap(page_seq) /\ job.val \in Nat
  BY <1>1, <1>2 DEF IInv, HeaderInv, IsMap, Types, JobFits, Begun
<1>4. /\ FlashInv'
      /\ Offset >= HeaderLen => \A s \in Sectors : s = job.page => Spoiled(s)'
  BY <1>1, <1>2, <1>3, ProgramHeaderFlash
<1>5. /\ append_point' \in [Sectors -> 0..PAGE_SIZE]
      /\ \A s \in Sectors : append_point'[s] = IF s = job.page THEN Offset + 1 ELSE append_point[s]
      /\ \A s \in Sectors : s # job.page => (Waiting(s) => Waiting(s)')
      /\ \A s \in Sectors : s = job.page => Exact(s)' /\ Whole(s)' /\ Waiting(s)'
  BY <1>1, <1>2, AdvancedRam
<1>6. /\ \A s \in Sectors : HasHeader(flash', s) <=>
           HasHeader(flash, s) \/ (s = job.page /\ Offset = HeaderLen - 1)
      /\ \A s \in Sectors : HasHeader(flash, s) => Serial(flash', s) = Serial(flash, s)
      /\ Offset = HeaderLen - 1 => Serial(flash', job.page) = job.val
  BY <1>1, <1>2, ProgramHeaders
<1>7. /\ Offset \in Offsets /\ Offset \in Nat /\ Offset = append_point[job.page] /\ job.page \in Sectors
      /\ Exact(job.page) /\ (Offset < HeaderLen => job.k = Offset)
  BY <1>1, <1>2, ProgramPlace, Sizes DEF Offset, Offsets
<1>8. HeaderLen \in Nat /\ HeaderLen > 1 /\ (Offset < HeaderLen => Offset = HeaderLen - 1)
  <2>1. job.k \in Nat /\ job.k + 1 = HeaderLen
    BY <1>1, <1>2, <1>3, TagsAreApart DEF JobFits, Begun, IsLast
  <2> QED
    BY <1>7, <2>1, Sizes
<1>9. Offset >= HeaderLen => HasHeader(flash, job.page)
  <2> HAVE Offset >= HeaderLen
  <2>1. \A o \in 0..(HeaderLen - 1) : o \in Offsets /\ o < Offset
    BY <1>7, <1>8, SizesAssumption DEF Offsets
  <2>2. \A o \in 0..(HeaderLen - 1) : InUse(flash, job.page, o)
    BY <1>7, <2>1 DEF Exact
  <2> QED
    BY <1>7, <2>2, HasHeaderIs
<1>10. IsMap([n \in {job.val} |-> job.page])
  <2>1. IsFiniteSet({job.val})
    BY FS_Singleton
  <2> QED
    BY <1>3, <1>7, <2>1 DEF IsMap
<1>11. /\ IsMap(seq) /\ DOMAIN seq = DOMAIN page_seq \cup {job.val}
       /\ \A n \in DOMAIN page_seq \cup {job.val} :
            seq[n] = IF n = job.val THEN job.page ELSE page_seq[n]
  <2> DEFINE new == [n \in {job.val} |-> job.page]
  <2>1. DOMAIN new = {job.val} /\ new[job.val] = job.page /\ IsMap(new) /\ seq = Updated(page_seq, new)
    BY <1>10
  <2> HIDE DEF new, seq
  <2>2. /\ IsMap(seq) /\ DOMAIN seq = DOMAIN page_seq \cup DOMAIN new
        /\ \A n \in DOMAIN page_seq \cup DOMAIN new : seq[n] = IF n \in DOMAIN new THEN new[n] ELSE page_seq[n]
    BY <1>3, <2>1, UpdatedIs
  <2> QED
    BY <2>1, <2>2
<1> HIDE DEF seq
<1>12. Largest(DOMAIN seq) = job.val
  <2>1. Largest(DOMAIN seq) \in DOMAIN seq /\ \A n \in DOMAIN seq : n <= Largest(DOMAIN seq)
    BY <1>11, LargestIs DEF IsMap
  <2>2. DOMAIN seq \subseteq Nat
    BY <1>11 DEF IsMap
  <2> QED
    BY <1>3, <1>11, <2>1, <2>2
<1>13. Newest' = job.page /\ Largest(DOMAIN page_seq') = job.val /\ DOMAIN page_seq' # {}
  BY <1>1, <1>11, <1>12 DEF Newest
<1>14. \A s \in Sectors : HasHeader(flash', s) =>
         Serial(flash', s) \in DOMAIN page_seq' /\ page_seq'[Serial(flash', s)] = s
  <2> SUFFICES ASSUME NEW s \in Sectors, HasHeader(flash', s)
               PROVE  Serial(flash', s) \in DOMAIN seq /\ seq[Serial(flash', s)] = s
    BY <1>1
  <2>1. CASE HasHeader(flash, s)
    <3>1. Serial(flash, s) \in DOMAIN page_seq /\ page_seq[Serial(flash, s)] = s
      BY <1>1, <1>3, <2>1 DEF IInv, KnownInv, Live
    <3> QED
      BY <1>2, <1>6, <1>11, <2>1, <3>1
  <2>2. CASE ~HasHeader(flash, s)
    BY <1>6, <1>11, <2>2
  <2> QED
    BY <2>1, <2>2
<1>15. KnownInv'
  BY <1>14 DEF KnownInv
<1>16. /\ HasHeader(flash', Newest')
       /\ (Spoiled(Newest)' \/ Serial(flash', Newest') = Largest(DOMAIN page_seq'))
  <2>1. CASE Offset >= HeaderLen
    <3>1. \A s \in Sectors : s = Newest' => Spoiled(s)'
      BY <1>4, <1>13, <2>1
    <3>2. Spoiled(Newest)'
      BY <1>7, <1>13, <3>1 DEF Spoiled
    <3> QED
      BY <1>6, <1>7, <1>9, <1>13, <2>1, <3>2
  <2>2. CASE Offset < HeaderLen
    BY <1>6, <1>7, <1>8, <1>13, <2>2
  <2> QED
    BY <1>7, <1>8, <2>1, <2>2
<1>17. Exact(Newest)' /\ Whole(Newest)'
  <2>1. \A s \in Sectors : s = Newest' => Exact(s)' /\ Whole(s)'
    BY <1>5, <1>13
  <2> QED
    BY <1>7, <1>13, <2>1 DEF Exact, Whole
<1>18. \A i \in DOMAIN free_pages : free_pages[i] \in Sectors
  BY <1>1 DEF Types
<1>19. \A i \in DOMAIN free_pages' : Waiting(free_pages[i])'
  <2> TAKE i \in DOMAIN free_pages'
  <2>1. i \in DOMAIN free_pages /\ free_pages' = free_pages
    BY <1>1
  <2>2. Waiting(free_pages[i]) \/ free_pages[i] = job.page
    BY <1>1, <1>3, <2>1 DEF IInv, FreeInv, Live
  <2>3. \A s \in Sectors : s = free_pages[i] => Waiting(s)'
    BY <1>5, <2>2
  <2> QED
    BY <1>18, <2>1, <2>3 DEF Waiting, Exact, Whole
<1>20. OldRecords(-1)'
  <2>1. \A s \in Sectors, o \in Offsets :
           flash'[Addr(s, o)] = IF s = job.page /\ o = Offset THEN TheWord ELSE flash[Addr(s, o)]
    BY <1>1, <1>2, ProgramPages
  <2>2. TheWord.tag \notin Tags
    BY <1>3, TagsAreApart DEF TheWord, Word
  <2> QED
    BY <1>1, <1>3, <2>1, <2>2 DEF OldRecords
<1>21. ASSUME pc' \in {"append", "reclaim"}, why' = why PROVE LaterInv'
  <2>1. LaterInv
    BY DEF IInv
  <2>2. scans = 1 => \A i \in DOMAIN free_pages :
          /\ free_pages[i] # job.page /\ ~HasHeader(flash, free_pages[i])
          /\ append_point[free_pages[i]] = 0
    BY <1>1, <2>1 DEF LaterInv
  <2>3. scans = 1 => \A i \in DOMAIN free_pages :
          ~HasHeader(flash', free_pages[i]) /\ append_point'[free_pages[i]] = 0
    BY <1>5, <1>6, <1>18, <2>2
  <2> QED
    BY <1>1, <1>21, <2>1, <2>3 DEF LaterInv
<1>22. ASSUME pc' \in {"append", "reclaim", "halted"}, job' \in Jobs, todo' \in Seq(Sectors)
       PROVE  Types'
  <2>1. append_point' \in [Sectors -> 0..(PAGE_SIZE + 1)]
    <3>1. 0..PAGE_SIZE \subseteq 0..(PAGE_SIZE + 1)
      BY Sizes
    <3> QED
      BY <1>5, <3>1
  <2> QED
    BY <1>1, <1>5, <1>11, <1>22, <2>1 DEF Types, IsMap
<1>23. ASSUME pc' \in {"append", "reclaim"}, why' = why, job' \in Jobs, todo' \in Seq(Sectors)
       PROVE  NewestReady'
  BY <1>1, <1>3, <1>4, <1>13, <1>15, <1>16, <1>17, <1>19, <1>20, <1>21, <1>22, <1>23 DEF NewestReady
<1>24. CASE free_pages = << >> /\ Len(serials) > 1
  <2>1. /\ pc' = "reclaim" /\ todo' = [i \in 1..(Len(serials) - 1) |-> seq[serials[i]]] /\ why' = why
        /\ job' = [NoJob EXCEPT !.page = job.page, !.then = job.then]
    BY <1>1, <1>24
  <2>2. job' = [page |-> job.page, tag |-> "erased", val |-> 0, k |-> 0, try |-> 1, then |-> job.then]
    BY <2>1 DEF NoJob
  <2>3. job' \in Jobs
    BY <1>3, <1>7, <2>2 DEF Jobs
  <2>4. todo' \in Seq(Sectors)
    <3>1. serials \in Seq(DOMAIN seq)
      BY <1>11, SortedIs DEF IsMap
    <3> HIDE DEF serials
    <3>2. Len(serials) - 1 \in Nat /\ \A i \in 1..(Len(serials) - 1) : serials[i] \in DOMAIN seq
      BY <1>24, <3>1
    <3>3. \A i \in 1..(Len(serials) - 1) : seq[serials[i]] \in Sectors
      BY <1>11, <3>2 DEF IsMap
    <3> QED
      BY <2>1, <3>2, <3>3
  <2>5. ReclaimingState'
    <3>1. job'.page = Newest' /\ job'.then \in Tags
      BY <1>3, <1>13, <2>2
    <3> QED
      BY <1>1, <1>23, <1>24, <2>1, <2>3, <2>4, <3>1 DEF ReclaimingState
  <2> QED
    BY <2>5, ReclaimingInvNext
<1>25. CASE ~(free_pages = << >> /\ Len(serials) > 1) /\ HasRoom(Offset + 1, RecordLen[job.then])
  <2>1. /\ pc' = "append" /\ todo' = << >> /\ why' = why
        /\ job' = [NoJob EXCEPT !.page = job.page, !.tag = job.then, !.val = count]
    BY <1>1, <1>25 DEF DoSave
  <2>2. job' = [page |-> job.page, tag |-> job.then, val |-> count, k |-> 0, try |-> 1, then |-> "none"]
    BY <2>1 DEF NoJob
  <2>3. job' \in Jobs
    BY <1>1, <1>3, <1>7, <2>2 DEF Jobs, Types
  <2>4. todo' \in Seq(Sectors)
    BY <2>1
  <2>5. AppendingState'
    <3>1. HasRoom(append_point'[Newest'], RecordLen[job'.tag])
      BY <1>5, <1>7, <1>13, <1>25, <2>2
    <3>2. job'.page = Newest' /\ job'.tag \in Tags /\ job'.val = count' /\ job'.k = 0
      BY <1>1, <1>3, <1>13, <2>2
    <3>3. NewestReady'
      BY <1>23, <2>1, <2>3, <2>4
    <3> QED
      BY <2>1, <3>1, <3>2, <3>3 DEF AppendingState
  <2> QED
    BY <2>5, AppendingInvNext
<1>26. CASE ~(free_pages = << >> /\ Len(serials) > 1) /\ ~HasRoom(Offset + 1, RecordLen[job.then])
  <2>1. pc' = "halted" /\ why' = "has_room" /\ job' = NoJob /\ todo' = << >>
    BY <1>1, <1>26 DEF DoSave, Halt
  <2>2. todo' \in Seq(Sectors)
    BY <2>1
  <2>3. Types'
    BY <1>22, <2>1, <2>2, NoJobIsJob
  <2> QED
    BY <1>4, <2>1, <2>3, HaltedInv
<1> QED
  BY <1>24, <1>25, <1>26

(* The first header stands alone: do_load reads nothing behind it.          *)
LEMMA FirstPageReads ==
  ASSUME NEW f, NEW s \in Sectors, \A o \in Offsets : InUse(f, s, o) <=> o < HeaderLen
  PROVE  PageRead(f, s).how = "end"
<1>1. 1 \in Offsets /\ 1 < HeaderLen /\ HeaderLen \in Offsets /\ ~(HeaderLen < HeaderLen)
  BY SizesAssumption DEF Offsets
<1>2. Programmed(f, Addr(s, 1)) /\ ~Programmed(f, Addr(s, HeaderLen))
  BY <1>1, ProgrammedIs
<1>3. Addr(s, HeaderLen) \in Steps
  BY <1>1, StepsOfPage
<1>4. Walk(f)[Addr(s, HeaderLen)] = [how |-> "end", at |-> Addr(s, HeaderLen), vals |-> Nothing]
  BY <1>2, <1>3, WalkIs DEF WalkTurn
<1> QED
  BY <1>2, <1>4 DEF PageRead

LEMMA FirstWrittenInv ==
  ASSUME IInv, FirstWritten
  PROVE  IInv'
<1> DEFINE one == [n \in {job.page} |-> job.page]
           on == Headered(WithWord, NSECTORS)
           free == Unheadered(WithWord, NSECTORS)
           put == Updated(page_seq, one)
           seq == Updated(put, on)
<1>1. /\ pc = "first" /\ CanProgram /\ IsLast /\ flash' = WithWord /\ scans' = scans + 1
      /\ count' = count /\ done' = done /\ FlashInv /\ Types /\ FirstInv /\ LaterInv
  BY DEF FirstWritten, IInv
<1>2. JobFits /\ \A s \in Sectors : HasHeader(flash, s) => Serial(flash, s) # job.val
  BY <1>1, JobFitsWhile, HeaderIsNew
<1>3. /\ page_seq = NoPages /\ scans = 1 /\ job.page = 0 /\ job.tag = "header" /\ job.val = 0 /\ job.try = 1
      /\ \A s \in Sectors : ~HasHeader(flash, s)
      /\ \A s \in Sectors \ {0} : append_point[s] = 0
      /\ append_point[0] = job.k /\ why # "past_end"
  BY <1>1 DEF FirstInv, LaterInv
<1>4. FlashInv'
  BY <1>1, <1>2, <1>3, ProgramHeaderFlash
<1>5. WellFormed(WithWord) /\ SerialsDiffer(WithWord) /\ done \subseteq Nat
  BY <1>1, <1>4 DEF WellFormed, FlashInv, Types
<1>6. ScanStop(WithWord) = NSECTORS /\ ~(NSECTORS < NSECTORS)
  BY <1>5, ScanFindsNoOtherTag, Sizes
<1>7. page_seq' = seq /\ free_pages' = free_pages \o free /\ ReadPages(WithWord, seq, job.try)
  BY <1>6 DEF FirstWritten
<1>8. Offset = HeaderLen - 1 /\ Offset \in Offsets /\ Offset \in Nat /\ Exact(job.page) /\ 0 \in Sectors
      /\ Offset = append_point[job.page]
  <2>1. job.k \in Nat /\ job.k + 1 = HeaderLen
    BY <1>1, <1>2, <1>3, TagsAreApart DEF JobFits, Begun, IsLast
  <2> QED
    BY <1>1, <1>2, <1>3, <2>1, ProgramPlace, SectorsFinite, Sizes DEF Offset, Offsets
<1>9. \A o \in Offsets : InUse(WithWord, 0, o) <=> o < HeaderLen
  <2> TAKE o \in Offsets
  <2>1. InUse(WithWord, 0, o) <=> o = Offset \/ InUse(flash, 0, o)
    BY <1>1, <1>2, <1>3, <1>8, ProgramPages
  <2>2. InUse(flash, 0, o) <=> o < Offset
    BY <1>3, <1>8 DEF Exact
  <2>3. o \in Nat /\ HeaderLen \in Nat
    BY Sizes DEF Offsets
  <2> QED
    BY <1>8, <2>1, <2>2, <2>3
<1>10. /\ \A s \in Sectors : HasHeader(WithWord, s) <=> s = 0
       /\ Serial(WithWord, 0) = 0
  BY <1>1, <1>2, <1>3, <1>8, ProgramHeaders
<1>11. /\ IsMap(on)
       /\ \A n \in DOMAIN on : HasHeader(WithWord, on[n]) /\ Serial(WithWord, on[n]) = n
       /\ \A s \in Sectors : HasHeader(WithWord, s) =>
            Serial(WithWord, s) \in DOMAIN on /\ on[Serial(WithWord, s)] = s
  BY <1>5, HeaderedIs
<1>12. free \in Seq(Sectors) /\ Len(free) <= NSECTORS
  BY UnheaderedIs
<1>13. IsMap(one) /\ DOMAIN one = {0} /\ one[0] = 0
  <2>1. IsFiniteSet({0})
    BY FS_Singleton
  <2> QED
    BY <1>3, <1>8, <2>1 DEF IsMap
<1> HIDE DEF one, on, free
<1>14. /\ IsMap(put) /\ DOMAIN put = DOMAIN one /\ \A n \in DOMAIN one : put[n] = one[n]
  BY <1>3, <1>13, NoPagesIsMap, UpdatedIs
<1> HIDE DEF put
<1>15. /\ IsMap(seq) /\ DOMAIN seq = DOMAIN put \cup DOMAIN on
       /\ \A n \in DOMAIN put \cup DOMAIN on : seq[n] = IF n \in DOMAIN on THEN on[n] ELSE put[n]
  BY <1>11, <1>14, UpdatedIs
<1>16. DOMAIN seq = {0} /\ seq[0] = 0
  <2>1. \A n \in DOMAIN on : n = 0 /\ on[n] = 0
    <3> TAKE n \in DOMAIN on
    <3>1. on[n] \in Sectors
      BY <1>11 DEF IsMap
    <3> QED
      BY <1>10, <1>11, <3>1
  <2> HIDE DEF seq
  <2> QED
    BY <1>13, <1>14, <1>15, <2>1
<1> HIDE DEF seq
<1>17. Started(WithWord, seq, job.try)
  <2>1. /\ append_point \in [Sectors -> 0..PAGE_SIZE] /\ values \in [Tags -> {0} \cup done]
    BY <1>1 DEF Types
  <2>2. \A n \in DOMAIN seq : HasHeader(WithWord, seq[n])
    BY <1>8, <1>10, <1>16
  <2>3. \A n \in DOMAIN seq : PageRead(WithWord, seq[n]).how = "end"
    BY <1>8, <1>9, <1>16, FirstPageReads
  <2> QED
    BY <1>5, <1>7, <1>15, <2>1, <2>2, <2>3, ReadPagesIs
<1>18. LoadedState'
  <2>1. /\ pc' = "ready" /\ job' = NoJob /\ todo' = << >>
        /\ append_point' \in [Sectors -> 0..PAGE_SIZE] /\ values' \in [Tags -> {0} \cup done]
        /\ \A n \in DOMAIN seq : HasHeader(WithWord, seq[n]) /\ FilledTo(WithWord, seq[n], append_point'[seq[n]])
        /\ \A s \in Sectors : (\A n \in DOMAIN seq : seq[n] # s) => append_point'[s] = append_point[s]
    BY <1>17 DEF Started
  <2>2. \A s \in Sectors : (\A n \in DOMAIN seq : seq[n] # s) => append_point'[s] = 0
    BY <1>3, <1>16, <2>1
  <2>3. /\ free_pages' \in Seq(Sectors) /\ Len(free_pages') <= 2 * NSECTORS
    <3>1. free_pages \in Seq(Sectors) /\ Len(free_pages) <= NSECTORS /\ Len(free_pages) \in Nat /\ Len(free) \in Nat
      BY <1>1, <1>3, <1>12 DEF Types
    <3>2. Len(free_pages \o free) = Len(free_pages) + Len(free) /\ free_pages \o free \in Seq(Sectors)
      BY <1>12, <3>1, ConcatIs
    <3> QED
      BY <1>7, <1>12, <3>1, <3>2, Sizes
  <2>4. /\ \A s \in Sectors : HasHeader(WithWord, s) =>
             Serial(WithWord, s) \in DOMAIN seq /\ seq[Serial(WithWord, s)] = s
        /\ \A n \in DOMAIN seq : Serial(WithWord, seq[n]) = n
    BY <1>10, <1>16
  <2>5. scans' = 2 /\ done' \subseteq 1..count' /\ count' \in 0..MaxSaves
    BY <1>1, <1>3 DEF Types
  <2>6. /\ \A s \in Sectors : HasHeader(flash', s) =>
             Serial(flash', s) \in DOMAIN page_seq' /\ page_seq'[Serial(flash', s)] = s
        /\ \A n \in DOMAIN page_seq' :
             /\ HasHeader(flash', page_seq'[n]) /\ Serial(flash', page_seq'[n]) = n
             /\ FilledTo(flash', page_seq'[n], append_point'[page_seq'[n]])
    BY <1>1, <1>7, <2>1, <2>4
  <2>7. /\ IsMap(page_seq') /\ DOMAIN page_seq' # {}
        /\ \A s \in Sectors : (\A n \in DOMAIN page_seq' : page_seq'[n] # s) => append_point'[s] = 0
    BY <1>7, <1>15, <1>16, <2>2
  <2>8. values' \in [Tags -> {0} \cup done']
    BY <1>1, <2>1
  <2> QED
    BY <1>4, <2>1, <2>3, <2>5, <2>6, <2>7, <2>8 DEF LoadedState
<1> QED
  BY <1>18, LoadedInvNext

-----------------------------------------------------------------------------
(* The invariant.                                                           *)

LEMMA InitInv == Init => IInv
<1> SUFFICES ASSUME Init PROVE IInv
  OBVIOUS
<1>1. /\ flash = [a \in Area |-> Erased] /\ append_point = [s \in Sectors |-> 0] /\ page_seq = NoPages
      /\ free_pages = << >> /\ values = Nothing /\ pc = "off" /\ job = NoJob /\ todo = << >> /\ why = "none"
      /\ count = 0 /\ done = {} /\ scans = 0
  BY DEF Init
<1>2. \A s \in Sectors, o \in Offsets : flash[Addr(s, o)] = Erased /\ ~InUse(flash, s, o)
  <2> TAKE s \in Sectors, o \in Offsets
  <2>1. Addr(s, o) \in Area
    BY AddrBounds DEF Offsets
  <2> QED
    BY <1>1, <2>1 DEF InUse
<1>3. Types
  <2>1. append_point \in [Sectors -> 0..(PAGE_SIZE + 1)] /\ append_point \in [Sectors -> 0..PAGE_SIZE]
    BY <1>1, Sizes
  <2>2. << >> \in Seq(Sectors)
    OBVIOUS
  <2>3. values \in [Tags -> {0} \cup done]
    BY <1>1 DEF Nothing
  <2>4. count \in 0..MaxSaves
    BY <1>1, Sizes
  <2> QED
    BY <1>1, <2>1, <2>2, <2>3, <2>4, NoPagesIsMap, NoJobIsJob DEF Types, IsMap
<1>4. FlashInv
  <2>1. FlashType(flash, count)
    <3>1. Erased \in [tag : Tags \cup {"header", "erased"}, val : Nat, k : Nat]
      BY DEF Erased
    <3>2. flash \in [Area -> [tag : Tags \cup {"header", "erased"}, val : Nat, k : Nat]]
      BY <1>1, <3>1
    <3> QED
      BY <1>2, <3>2 DEF FlashType
  <2>2. \A s \in Sectors : Packed(flash, s) /\ Placed(flash, s)
    <3>1. \A p \in Offsets : 0..p \subseteq Offsets
      BY Sizes DEF Offsets
    <3> QED
      BY <1>2, <3>1 DEF Packed, Placed
  <2>3. \A s \in Sectors : ~HasHeader(flash, s)
    <3>1. 0 \in 0..(HeaderLen - 1) /\ 0 \in Offsets
      BY Sizes DEF Offsets
    <3> QED
      BY <1>2, <3>1, HasHeaderIs
  <2>4. LastIsDone(flash, done)
    BY <1>2, TagsAreApart DEF LastIsDone, Erased
  <2> QED
    BY <2>1, <2>2, <2>3, <2>4 DEF FlashInv, SerialsDiffer, LogIsOrdered
<1>5. OffInv
  BY <1>1 DEF OffInv
<1>6. /\ FirstInv /\ WipingInv /\ ErasingInv /\ EmptyInv /\ HeaderInv /\ ReclaimInv /\ AppendInv
  BY <1>1 DEF FirstInv, WipingInv, ErasingInv, EmptyInv, HeaderInv, ReclaimInv, AppendInv
<1>7. KnownInv /\ NewestInv /\ FreeInv /\ LaterInv
  BY <1>1 DEF KnownInv, NewestInv, FreeInv, LaterInv, Live
<1> QED
  BY <1>3, <1>4, <1>5, <1>6, <1>7 DEF IInv

LEMMA StutterInv ==
  ASSUME IInv, UNCHANGED vars
  PROVE  IInv'
<1>1. /\ flash' = flash /\ append_point' = append_point /\ page_seq' = page_seq /\ free_pages' = free_pages
      /\ values' = values /\ pc' = pc /\ job' = job /\ todo' = todo /\ why' = why
      /\ count' = count /\ done' = done /\ scans' = scans
  BY DEF vars
<1>2. Types' /\ FlashInv'
  BY <1>1 DEF IInv, Types, FlashInv, LogIsOrdered, Spoiled
<1>3. OffInv' /\ WipingInv' /\ ErasingInv' /\ EmptyInv'
  BY <1>1 DEF IInv, OffInv, WipingInv, ErasingInv, EmptyInv
<1>4. KnownInv' /\ LaterInv'
  BY <1>1 DEF IInv, KnownInv, LaterInv, Live
<1>5. NewestInv'
  BY <1>1 DEF IInv, NewestInv, Live, Newest, Exact, Whole, Spoiled
<1>6. FreeInv'
  BY <1>1 DEF IInv, FreeInv, Live, Waiting, Exact, Whole
<1>7. FirstInv'
  BY <1>1 DEF IInv, FirstInv, Begun, Waiting, Exact, Whole
<1>8. HeaderInv'
  BY <1>1 DEF IInv, HeaderInv, Begun, Waiting, Exact, Whole, Newest, OldRecords
<1>9. ReclaimInv'
  BY <1>1 DEF IInv, ReclaimInv, Newest, OldRecords
<1>10. AppendInv'
  BY <1>1 DEF IInv, AppendInv, Begun, Waiting, Exact, Whole, Newest, OldRecords
<1> QED
  BY <1>2, <1>3, <1>4, <1>5, <1>6, <1>7, <1>8, <1>9, <1>10 DEF IInv

LEMMA NextInv ==
  ASSUME IInv, NewestSpared, [Next]_vars
  PROVE  IInv'
<1>1. CASE PowerOn
  BY <1>1, PowerOnInv
<1>2. CASE PowerOff
  BY <1>2, PowerOffInv
<1>3. CASE ProgramWord
  BY <1>3, ProgramWordInv
<1>4. CASE FirstWritten
  BY <1>4, FirstWrittenInv
<1>5. CASE HeaderWritten
  BY <1>5, HeaderWrittenInv
<1>6. CASE RecordWritten
  BY <1>6, RecordWrittenInv
<1>7. CASE WriteRefused
  BY <1>7, WriteRefusedInv
<1>8. CASE WriteBeyond
  BY <1>8, WriteBeyondInv
<1>9. CASE ErasePage
  BY <1>9, ErasePageInv
<1>10. CASE Wiped
  BY <1>10, WipedInv
<1>11. CASE Reclaimed
  BY <1>11, ReclaimedInv
<1>12. CASE Erase
  BY <1>12, EraseInv
<1>13. CASE EraseDone
  BY <1>13, EraseDoneInv
<1>14. ASSUME NEW t \in Tags, Save(t) PROVE IInv'
  BY <1>14, SaveInv
<1>15. CASE UNCHANGED vars
  BY <1>15, StutterInv
<1> QED
  BY <1>1, <1>2, <1>3, <1>4, <1>5, <1>6, <1>7, <1>8, <1>9, <1>10, <1>11, <1>12, <1>13, <1>14, <1>15 DEF Next

(* What follows from it.                                                    *)

LEMMA InvType == IInv => TypeOK
<1> SUFFICES ASSUME IInv PROVE TypeOK
  OBVIOUS
<1>1. Types /\ FlashType(flash, count)
  BY DEF IInv, FlashInv
<1>2. ASSUME NEW a \in Area, flash[a] # Erased
      PROVE  /\ flash[a].tag \in Tags \cup {"header"}
             /\ flash[a].k \in 0..(LenOf(flash[a].tag) - 1)
  <2>1. PICK s \in Sectors, o \in Offsets : a = Addr(s, o)
    BY AreaIsPages
  <2>2. InUse(flash, s, o)
    BY <1>2, <2>1 DEF InUse
  <2> QED
    BY <1>1, <2>1, <2>2, CellType
<1>3. Len(free_pages) <= 3 * NSECTORS
  <2>1. NSECTORS \in Nat /\ Len(free_pages) \in Nat /\ scans \in 0..2
    BY <1>1, Sizes DEF Types
  <2>2. CASE scans = 0
    <3>1. Len(free_pages) = 0
      BY <1>1, <2>2 DEF Types
    <3> QED
      BY <2>1, <3>1
  <2>3. CASE scans = 1
    BY <1>1, <2>1, <2>3 DEF Types
  <2>4. CASE scans = 2
    BY <1>1, <2>1, <2>4 DEF Types
  <2> QED
    BY <2>1, <2>2, <2>3, <2>4
<1>4. count \in 0..MaxSaves /\ done \subseteq 1..count /\ 1..count \subseteq 1..MaxSaves
      /\ {0} \cup 1..count \subseteq 0..MaxSaves
  BY <1>1, Sizes DEF Types
<1>5. values \in [Tags -> 0..MaxSaves]
  BY <1>1, <1>4 DEF Types
<1>6. scans \in 0..3 /\ DOMAIN page_seq \subseteq Nat /\ \A n \in DOMAIN page_seq : page_seq[n] \in Sectors
  BY <1>1 DEF Types
<1>7. /\ append_point \in [Sectors -> 0..(PAGE_SIZE + 1)]
      /\ free_pages \in Seq(Sectors) /\ todo \in Seq(Sectors)
      /\ pc \in {"off", "first", "wiping", "ready", "header", "reclaim", "append", "erasing", "halted"}
  BY <1>1 DEF Types
<1> QED
  BY <1>2, <1>3, <1>4, <1>5, <1>6, <1>7 DEF TypeOK

LEMMA InvRoom == IInv => RoomIsErased
<1> SUFFICES ASSUME IInv, pc = "ready", DOMAIN page_seq # {},
                    NEW off \in append_point[Newest]..(PAGE_SIZE - 1)
             PROVE  ~Programmed(flash, Addr(Newest, off))
  BY DEF RoomIsErased
<1>1. Newest \in Sectors /\ Exact(Newest)
  BY NewestIsSector DEF IInv, NewestInv, Live
<1>2. append_point[Newest] \in Nat
  BY <1>1 DEF IInv, Types
<1>3. off \in Offsets /\ ~(off < append_point[Newest])
  BY <1>2, Sizes DEF Offsets
<1> QED
  BY <1>1, <1>3, ProgrammedIs DEF Exact

LEMMA InvWhole == IInv => OnlyWholeRecords
BY DEF IInv, Types, OnlyWholeRecords

LEMMA InvOrdered == IInv => LogIsOrdered
BY DEF IInv, FlashInv

LEMMA InvFree == IInv => FreePagesAreFree
BY DEF IInv, LaterInv, FreePagesAreFree

LEMMA InvKnown == IInv => PagesAreKnown
<1> SUFFICES ASSUME IInv, pc = "ready", NEW s \in Sectors \ {NSECTORS \div 2}, HasHeader(flash, s)
             PROVE  \E n \in DOMAIN page_seq : page_seq[n] = s
  BY DEF PagesAreKnown
<1>1. DOMAIN page_seq # {}
  BY DEF IInv, EmptyInv
<1> QED
  BY <1>1 DEF IInv, KnownInv, Live

-----------------------------------------------------------------------------
(* Fewer saves than sectors never use up the free pages.                    *)

Touched(f) == {s \in Sectors \ {0} : InUse(f, s, 0)}
Taken == IF pc = "header" THEN Touched(flash) \cup ({job.page} \ {0}) ELSE Touched(flash)

(* Page 0 takes the first save; every later save starts at most one page    *)
(* more, and a page that is not started is in the deque.                    *)
CountInv ==
  /\ pc # "reclaim"
  /\ Cardinality(Taken) < IF count = 0 THEN 1 ELSE count
  /\ Live => \A s \in Sectors :
       \/ InUse(flash, s, 0) \/ \E i \in DOMAIN free_pages : free_pages[i] = s
       \/ pc = "header" /\ s = job.page

LEMMA TakenIs ==
  ASSUME IInv
  PROVE  /\ Taken \in SUBSET (Sectors \ {0}) /\ Touched(flash) \in SUBSET Taken
         /\ pc # "header" => Taken = Touched(flash)
<1>1. pc = "header" => job.page \in Sectors
  BY DEF IInv, HeaderInv, Begun
<1> QED
  BY <1>1 DEF Taken, Touched

LEMMA FewerIsLess ==
  ASSUME NEW S \in SUBSET Sectors, NEW T \in SUBSET S
  PROVE  /\ IsFiniteSet(S) /\ IsFiniteSet(T)
         /\ Cardinality(S) \in Nat /\ Cardinality(T) \in Nat /\ Cardinality(T) <= Cardinality(S)
BY SectorsFinite, FS_Subset, FS_CardinalityType

(* With the same saves begun, the count can grow only with the pages taken. *)
LEMMA CountKept ==
  ASSUME IInv, IInv', CountInv, count' = count, Taken' \in SUBSET Taken, pc' # "reclaim",
         Live' => \A s \in Sectors :
           \/ InUse(flash', s, 0) \/ \E i \in DOMAIN free_pages' : free_pages'[i] = s
           \/ pc' = "header" /\ s = job'.page
  PROVE  CountInv'
<1>1. Taken \in SUBSET Sectors
  BY TakenIs
<1>2. Cardinality(Taken') \in Nat /\ Cardinality(Taken) \in Nat /\ Cardinality(Taken') <= Cardinality(Taken)
  BY <1>1, FewerIsLess
<1>3. Cardinality(Taken') < IF count' = 0 THEN 1 ELSE count'
  <2>1. count \in Nat
    BY DEF IInv, Types
  <2>2. Cardinality(Taken) < IF count = 0 THEN 1 ELSE count
    BY DEF CountInv
  <2> QED
    BY <1>2, <2>1, <2>2
<1> QED
  BY <1>3 DEF CountInv

(* A step that does not touch the flash, and leaves the session.            *)
LEMMA CountIdle ==
  ASSUME IInv, IInv', CountInv, count' = count, flash' = flash, pc' \notin {"header", "reclaim"}, ~Live'
  PROVE  CountInv'
<1>1. Taken' = Touched(flash) /\ Touched(flash) \in SUBSET Taken
  BY TakenIs DEF Taken, Touched
<1> QED
  BY <1>1, CountKept

LEMMA FirstSaveFits ==
  ASSUME IInv, pc = "ready", DOMAIN page_seq # {}, count = 0, NEW t \in Tags
  PROVE  HasRoom(append_point[Newest], RecordLen[t])
<1>1. Newest \in Sectors /\ Exact(Newest) /\ append_point[Newest] \in 0..PAGE_SIZE /\ FlashType(flash, 0)
  BY NewestIsSector DEF IInv, NewestInv, Live, Types, FlashInv
<1>2. HeaderLen \in Offsets /\ HeaderLen >= HeaderLen /\ ~(0 >= 1)
  BY SizesAssumption DEF Offsets
<1>3. ~InUse(flash, Newest, HeaderLen)
  BY <1>1, <1>2 DEF FlashType
<1>4. ~(HeaderLen < append_point[Newest])
  BY <1>1, <1>2, <1>3 DEF Exact
<1>5. RecordLen[t] \in Nat /\ HeaderLen + RecordLen[t] < PAGE_SIZE
  BY Sizes
<1> QED
  BY <1>1, <1>4, <1>5, Sizes DEF HasRoom

LEMMA NextCount ==
  ASSUME MaxSaves < NSECTORS, IInv, IInv', CountInv, [Next]_vars
  PROVE  CountInv'
<1>0. Types /\ count \in Nat /\ FlashInv
  BY DEF IInv, Types
<1>1. CASE PowerOff
  <2>1. flash' = flash /\ count' = count /\ pc' = "off"
    BY <1>1 DEF PowerOff
  <2> QED
    BY <2>1, CountIdle DEF Live
<1>2. ASSUME NEW try, DoLoad(flash, try), flash' = flash, count' = count PROVE CountInv'
  <2> DEFINE free == Unheadered(flash, NSECTORS)
             seq == Updated(page_seq, Headered(flash, NSECTORS))
  <2>1. WellFormed(flash)
    BY <1>0, FlashIsWellFormed
  <2>2. /\ DOMAIN seq # {} => free_pages' = free_pages \o free /\ ReadPages(flash, seq, try)
        /\ DOMAIN seq = {} => pc' = "first"
    BY <1>2, <2>1, DoLoadIs
  <2> HIDE DEF seq
  <2>3. pc' \in {"first", "ready", "wiping", "halted"}
    <3>1. ReadPages(flash, seq, try) => pc' \in {"ready", "wiping", "halted"}
      BY DEF ReadPages, LoadThrows, Halt
    <3> QED
      BY <2>2, <3>1
  <2>4. Taken' \in SUBSET Taken
    BY <1>2, <2>3, TakenIs DEF Taken, Touched
  <2>5. ASSUME Live', NEW s \in Sectors, ~InUse(flash', s, 0)
        PROVE  \E i \in DOMAIN free_pages' : free_pages'[i] = s
    <3>1. free_pages' = free_pages \o free
      BY <2>2, <2>3, <2>5 DEF Live
    <3>2. ~HasHeader(flash, s)
      <4>1. 0 \in 0..(HeaderLen - 1) /\ 0 \in Offsets
        BY Sizes DEF Offsets
      <4> QED
        BY <1>2, <2>5, <4>1, HasHeaderIs
    <3>3. free \in Seq(Sectors) /\ \E i \in DOMAIN free : free[i] = s
      BY <3>2, UnheaderedIs
    <3>4. free_pages \in Seq(Sectors)
      BY <1>0 DEF Types
    <3> HIDE DEF free
    <3>5. PICK i \in DOMAIN free : free[i] = s
      BY <3>3
    <3>6. Len(free_pages) + i \in DOMAIN (free_pages \o free) /\ (free_pages \o free)[Len(free_pages) + i] = free[i]
      BY <3>3, <3>4, <3>5
    <3> QED
      BY <3>1, <3>5, <3>6
  <2> QED
    BY <1>2, <2>3, <2>4, <2>5, CountKept
<1>3. CASE PowerOn \/ Wiped
  BY <1>2, <1>3 DEF PowerOn, Wiped
<1>4. CASE FirstWritten
  <2> DEFINE free == Unheadered(WithWord, NSECTORS)
  <2>1. /\ pc = "first" /\ CanProgram /\ IsLast /\ flash' = WithWord /\ count' = count
    BY <1>4 DEF FirstWritten
  <2>2. JobFits /\ job.page = 0
    BY <2>1, JobFitsWhile DEF IInv, FirstInv
  <2>4. ScanStop(WithWord) = NSECTORS
    <3>1. WellFormed(WithWord)
      <4>1. FlashType(WithWord, count) /\ \A s \in Sectors : Packed(WithWord, s) /\ Placed(WithWord, s)
        BY <1>0, <2>1, <2>2, ProgramPages
      <4>2. LastIsDone(WithWord, done)
        BY <1>4, <2>1 DEF FirstWritten, IInv, FlashInv
      <4> QED
        BY <4>1, <4>2 DEF WellFormed
    <3> QED
      BY <3>1, ScanFindsNoOtherTag
  <2>5. free_pages' = free_pages \o free
    BY <1>4, <2>4 DEF FirstWritten
  <2>6. pc' \in {"ready", "wiping", "halted"}
    BY <1>4 DEF FirstWritten, ReadPages, LoadThrows, Halt
  <2>7. \A s \in Sectors, o \in Offsets : InUse(flash', s, o) <=>
          (s = job.page /\ o = Offset) \/ InUse(flash, s, o)
    BY <1>0, <2>1, <2>2, ProgramPages
  <2>8. 0 \in 0..(HeaderLen - 1) /\ 0 \in Offsets
    BY Sizes DEF Offsets
  <2>9. Taken' \in SUBSET Taken
    BY <2>1, <2>2, <2>6, <2>7, <2>8, TakenIs DEF Taken, Touched
  <2>10. ASSUME NEW s \in Sectors, ~InUse(flash', s, 0)
         PROVE  \E i \in DOMAIN free_pages' : free_pages'[i] = s
    <3>1. ~HasHeader(WithWord, s)
      BY <2>1, <2>8, <2>10, HasHeaderIs
    <3>2. free \in Seq(Sectors) /\ \E i \in DOMAIN free : free[i] = s
      BY <3>1, UnheaderedIs
    <3>3. free_pages \in Seq(Sectors)
      BY <1>0 DEF Types
    <3> HIDE DEF free
    <3>4. PICK i \in DOMAIN free : free[i] = s
      BY <3>2
    <3>5. Len(free_pages) + i \in DOMAIN (free_pages \o free) /\ (free_pages \o free)[Len(free_pages) + i] = free[i]
      BY <3>2, <3>3, <3>4
    <3> QED
      BY <2>5, <3>4, <3>5
  <2> QED
    BY <2>1, <2>6, <2>9, <2>10, CountKept
<1>5. ASSUME CanProgram, flash' = WithWord, pc \in {"header", "append"}
      PROVE  /\ Touched(flash') \in SUBSET Taken
             /\ \A s \in Sectors : InUse(flash, s, 0) => InUse(flash', s, 0)
             /\ \A s \in Sectors : s = job.page /\ CanProgram => InUse(flash', s, 0)
  <2>1. JobFits
    BY <1>5, JobFitsWhile
  <2>2. \A s \in Sectors, o \in Offsets : InUse(flash', s, o) <=>
          (s = job.page /\ o = Offset) \/ InUse(flash, s, o)
    BY <1>0, <1>5, <2>1, ProgramPages
  <2>3. 0 \in Offsets /\ Offset \in Offsets /\ Offset \in Nat /\ job.page \in Sectors /\ 0 < HeaderLen
        /\ Exact(job.page) /\ Offset = append_point[job.page]
    BY <1>0, <1>5, <2>1, ProgramPlace, Sizes DEF Offsets, Offset
  <2>4. pc = "append" => InUse(flash, job.page, 0)
    <3> HAVE pc = "append"
    <3>1. HasHeader(flash, job.page) /\ 0 \in 0..(HeaderLen - 1)
      BY RecordIsNewest, Sizes
    <3> QED
      BY <2>3, <3>1, HasHeaderIs
  <2>5. InUse(flash', job.page, 0)
    <3>1. CASE Offset = 0
      BY <2>2, <2>3, <3>1
    <3>2. CASE Offset > 0
      BY <2>2, <2>3, <3>2 DEF Exact
    <3> QED
      BY <2>3, <3>1, <3>2
  <2>6. Touched(flash') \in SUBSET Taken
    BY <1>5, <2>2, <2>3, <2>4 DEF Taken, Touched
  <2> QED
    BY <2>2, <2>3, <2>5, <2>6
<1>6. CASE ProgramWord
  <2>1. /\ CanProgram /\ flash' = WithWord /\ pc' = pc /\ page_seq' = page_seq
        /\ free_pages' = free_pages /\ count' = count /\ pc \in {"first", "header", "append"}
        /\ ~IsLast /\ append_point' = Advanced /\ job' = [job EXCEPT !.k = @ + 1]
    BY <1>6 DEF ProgramWord, CanProgram, Programming
  <2>2. JobFits /\ job \in Jobs
    BY <1>0, <2>1, JobFitsWhile DEF Types
  <2>3. job'.page = job.page
    BY <1>0, <2>1, <2>2, BegunGrows
  <2>4. CASE pc = "first"
    <3>1. job.page = 0 /\ ~Live'
      BY <2>1, <2>4 DEF IInv, FirstInv, Live
    <3>2. \A s \in Sectors, o \in Offsets : InUse(flash', s, o) <=>
            (s = job.page /\ o = Offset) \/ InUse(flash, s, o)
      BY <1>0, <2>1, <2>2, ProgramPages
    <3>3. Taken' \in SUBSET Taken
      <4>1. 0 \in Offsets
        BY Sizes DEF Offsets
      <4> QED
        BY <2>1, <2>4, <3>1, <3>2, <4>1 DEF Taken, Touched
    <3> QED
      BY <2>1, <2>4, <3>1, <3>3, CountKept
  <2>5. CASE pc \in {"header", "append"}
    <3>1. Taken' \in SUBSET Taken
      BY <1>5, <2>1, <2>3, <2>5 DEF Taken
    <3>2. \A s \in Sectors :
            \/ InUse(flash', s, 0) \/ \E i \in DOMAIN free_pages' : free_pages'[i] = s
            \/ pc' = "header" /\ s = job'.page
      <4>1. Live
        BY <2>5 DEF Live, IInv, HeaderInv, AppendInv
      <4> QED
        BY <1>5, <2>1, <2>3, <2>5, <4>1 DEF CountInv
    <3> QED
      BY <2>1, <2>5, <3>1, <3>2, CountKept
  <2> QED
    BY <2>1, <2>4, <2>5
<1>7. CASE HeaderWritten
  <2>1. /\ pc = "header" /\ CanProgram /\ flash' = WithWord /\ free_pages' = free_pages /\ count' = count
    BY <1>7 DEF HeaderWritten
  <2>2. Live /\ pc' \in {"reclaim", "append", "halted"} /\ (pc' = "reclaim" => free_pages = << >>)
    BY <1>7, <2>1 DEF HeaderWritten, DoSave, Halt, Live, IInv, HeaderInv
  <2>3. \A s \in Sectors : InUse(flash', s, 0) \/ \E i \in DOMAIN free_pages' : free_pages'[i] = s
    BY <1>5, <2>1, <2>2 DEF CountInv
  <2>4. pc' # "reclaim"
    <3> SUFFICES ASSUME free_pages = << >> PROVE FALSE
      BY <2>2
    <3>1. \A s \in Sectors : InUse(flash', s, 0)
      BY <2>1, <2>3
    <3>2. Touched(flash') = Sectors \ {0}
      BY <3>1 DEF Touched
    <3>3. Taken = Sectors \ {0}
      BY <1>5, <2>1, <3>2, TakenIs
    <3>4. Cardinality(Sectors \ {0}) = NSECTORS - 1
      BY SectorsFinite, FS_RemoveElement
    <3>5. count <= MaxSaves /\ count \in Nat /\ MaxSaves \in Nat /\ NSECTORS \in Nat /\ NSECTORS > 1
      BY <1>0, Sizes DEF Types
    <3> QED
      BY <3>3, <3>4, <3>5 DEF CountInv
  <2>5. Taken' \in SUBSET Taken
    BY <1>5, <2>1, <2>2 DEF Taken
  <2> QED
    BY <2>1, <2>2, <2>3, <2>4, <2>5, CountKept
<1>8. CASE RecordWritten
  <2>1. /\ pc = "append" /\ pc' = "ready" /\ CanProgram /\ flash' = WithWord
        /\ free_pages' = free_pages /\ count' = count /\ Live
    BY <1>8 DEF RecordWritten, Live, IInv, AppendInv
  <2>2. Taken' \in SUBSET Taken
    BY <1>5, <2>1 DEF Taken
  <2>3. \A s \in Sectors : InUse(flash', s, 0) \/ \E i \in DOMAIN free_pages' : free_pages'[i] = s
    BY <1>5, <2>1 DEF CountInv
  <2> QED
    BY <2>1, <2>2, <2>3, CountKept
<1>9. CASE WriteRefused
  <2>1. flash' = flash /\ count' = count /\ page_seq' = page_seq /\ pc \in {"first", "header", "append"}
    BY <1>9 DEF WriteRefused, Programming
  <2>2. pc' \notin {"header", "reclaim"}
    BY <1>9 DEF WriteRefused, DoSave, Halt
  <2>3. Taken' \in SUBSET Taken
    BY <2>1, <2>2, TakenIs DEF Taken, Touched
  <2>4. ~Live'
    <3>1. CASE pc = "first"
      BY <2>1, <3>1, NoPagesIsMap DEF IInv, FirstInv, Live
    <3>2. CASE pc = "header"
      <4>1. pc' = "halted"
        <5>1. pc' \in {"append", "halted"}
          BY <1>9, <3>2 DEF WriteRefused, DoSave, Halt
        <5>2. pc' # "append"
          <6> SUFFICES ASSUME pc' = "append" PROVE FALSE
            OBVIOUS
          <6>1. Exact(Newest)' /\ Newest' = Newest /\ append_point' = Advanced
            BY <1>9, <2>1, <3>2 DEF WriteRefused, IInv, NewestInv, Live, HeaderInv, Newest
          <6>2. HasRoom(Advanced[Newest], RecordLen[job.then])
            BY <1>9, <3>2 DEF WriteRefused, DoSave, Halt
          <6>3. Advanced[Newest] >= append_point[Newest] /\ append_point[Newest] \in Nat /\ Advanced[Newest] \in Nat
            <7>1. Newest \in Sectors /\ append_point \in [Sectors -> 0..PAGE_SIZE]
              BY <1>0, <3>2, NewestIsSector DEF IInv, HeaderInv, Types
            <7> QED
              BY <7>1, Sizes DEF Advanced
          <6>4. ~HasRoom(append_point[Newest], RecordLen[job.then]) /\ RecordLen[job.then] \in Nat
            BY <3>2, Sizes DEF IInv, HeaderInv
          <6> QED
            BY <6>2, <6>3, <6>4, Sizes DEF HasRoom
        <5> QED
          BY <5>1, <5>2
      <4> QED
        BY <4>1 DEF Live
    <3>3. pc # "append"
      <4> SUFFICES ASSUME pc = "append" PROVE FALSE
        OBVIOUS
      <4>1. JobFits /\ Exact(job.page) /\ job.page \in Sectors /\ Programmed(flash, Cell) /\ Offset < PAGE_SIZE
        BY <1>9, JobFitsWhile, RecordIsNewest DEF WriteRefused, JobFits, Begun
      <4>2. Offset \in Offsets /\ ~(Offset < Offset) /\ Offset = append_point[job.page]
        BY <4>1, Sizes DEF JobFits, Offset, Offsets
      <4> QED
        BY <4>1, <4>2, ProgrammedIs DEF Exact, Cell
    <3> QED
      BY <2>1, <3>1, <3>2, <3>3
  <2> QED
    BY <2>1, <2>2, <2>3, <2>4, CountKept
<1>10. CASE WriteBeyond
  <2>1. flash' = flash /\ count' = count /\ pc' = "halted"
    BY <1>10 DEF WriteBeyond, Halt
  <2> QED
    BY <2>1, CountIdle DEF Live
<1>11. CASE ErasePage
  <2>1. /\ pc \in {"wiping", "erasing"} /\ pc' = pc /\ count' = count /\ todo # << >>
        /\ flash' = Without(Head(todo)) /\ done' = done
    BY <1>11 DEF ErasePage, CountInv
  <2>2. Head(todo) \in Sectors
    BY <1>0, <2>1, TailIs DEF Types
  <2>3. \A s \in Sectors, o \in Offsets : InUse(flash', s, o) => InUse(flash, s, o)
    BY <1>0, <2>1, <2>2, ErasedFlash
  <2>4. Taken' \in SUBSET Taken
    <3>1. 0 \in Offsets
      BY Sizes DEF Offsets
    <3> QED
      BY <2>1, <2>3, <3>1 DEF Taken, Touched
  <2> QED
    BY <2>1, <2>4, CountKept DEF Live
<1>12. CASE Erase \/ EraseDone
  <2>1. flash' = flash /\ count' = count /\ pc' \in {"erasing", "ready"} /\ page_seq' = NoPages
    BY <1>12 DEF Erase, EraseDone, IInv, ErasingInv
  <2> QED
    BY <2>1, NoPagesIsMap, CountIdle DEF Live
<1>13. ~Reclaimed
  BY DEF Reclaimed, CountInv
<1>14. ASSUME NEW t \in Tags, Save(t) PROVE CountInv'
  <2>1. /\ pc = "ready" /\ count' = count + 1 /\ flash' = flash /\ page_seq' = page_seq
    BY <1>14 DEF Save
  <2>2. Taken = Touched(flash) /\ Touched(flash) \in SUBSET Sectors /\ IsFiniteSet(Touched(flash))
        /\ Cardinality(Touched(flash)) \in Nat /\ Cardinality(Taken) < IF count = 0 THEN 1 ELSE count
    BY <2>1, TakenIs, FewerIsLess DEF CountInv
  <2>3. CASE pc' \in {"append", "halted"} /\ free_pages' = free_pages
    <3>1. Taken' = Touched(flash)
      BY <2>1, <2>3 DEF Taken, Touched
    <3>2. Live' => Live
      BY <2>1, <2>3 DEF Live
    <3> QED
      BY <1>0, <2>1, <2>2, <2>3, <3>1, <3>2 DEF CountInv
  <2>4. CASE pc' = "header"
    <3>1. /\ DOMAIN page_seq # {} /\ ~HasRoom(append_point[Newest], RecordLen[t]) /\ free_pages # << >>
          /\ free_pages' = Tail(free_pages)
          /\ job' = [NoJob EXCEPT !.page = Head(free_pages), !.tag = "header", !.val = NextSerial, !.then = t]
      BY <1>14, <2>4 DEF Save, DoSave, Halt
    <3>2. job'.page = Head(free_pages)
      BY <3>1 DEF NoJob
    <3>3. count # 0
      BY <2>1, <3>1, FirstSaveFits
    <3>4. Cardinality(Taken') < count'
      <4>1. Taken' = Touched(flash) \cup ({job'.page} \ {0})
        BY <2>1, <2>4 DEF Taken, Touched
      <4>2. Taken' = Touched(flash) \/ Taken' = Touched(flash) \cup {job'.page}
        BY <4>1
      <4>3. /\ Cardinality(Touched(flash) \cup {job'.page}) \in Nat
            /\ Cardinality(Touched(flash) \cup {job'.page}) <= Cardinality(Touched(flash)) + 1
        BY <2>2, FS_AddElement
      <4>4. Cardinality(Taken') \in Nat /\ Cardinality(Taken') <= Cardinality(Touched(flash)) + 1
        <5>1. CASE Taken' = Touched(flash)
          BY <2>2, <5>1
        <5>2. CASE Taken' = Touched(flash) \cup {job'.page}
          BY <4>3, <5>2
        <5> QED
          BY <4>2, <5>1, <5>2
      <4>5. Cardinality(Touched(flash)) < count /\ count \in Nat
        BY <1>0, <2>2, <3>3 DEF Types
      <4> QED
        BY <2>1, <2>2, <4>4, <4>5
    <3>5. \A s \in Sectors :
            \/ InUse(flash', s, 0) \/ \E i \in DOMAIN free_pages' : free_pages'[i] = s
            \/ pc' = "header" /\ s = job'.page
      <4> TAKE s \in Sectors
      <4>1. Live
        BY <2>1, <3>1 DEF Live
      <4>2. InUse(flash, s, 0) \/ \E i \in DOMAIN free_pages : free_pages[i] = s
        BY <2>1, <4>1 DEF CountInv
      <4>3. free_pages \in Seq(Sectors)
        BY <1>0 DEF Types
      <4>4. \A i \in DOMAIN free_pages :
              free_pages[i] = Head(free_pages) \/ \E j \in DOMAIN Tail(free_pages) : Tail(free_pages)[j] = free_pages[i]
        BY <3>1, <4>3, TailIs
      <4> QED
        BY <2>1, <2>4, <3>1, <3>2, <4>2, <4>4
    <3> QED
      BY <1>0, <2>1, <2>4, <3>3, <3>4, <3>5 DEF CountInv
  <2> QED
    BY <1>14, <2>3, <2>4 DEF Save, DoSave, Halt
<1>15. CASE UNCHANGED vars
  BY <1>15 DEF vars, CountInv, Taken, Touched, Live
<1> QED
  BY <1>1, <1>3, <1>4, <1>6, <1>7, <1>8, <1>9, <1>10, <1>11, <1>12, <1>13, <1>14, <1>15 DEF Next

LEMMA InitCount ==
  ASSUME Init
  PROVE  CountInv
<1>1. pc = "off" /\ count = 0 /\ ~Live
  BY DEF Init, Live
<1>2. \A s \in Sectors : ~InUse(flash, s, 0)
  <2> TAKE s \in Sectors
  <2>1. 0 \in Offsets /\ 0 \in Nat
    BY Sizes DEF Offsets
  <2>2. Addr(s, 0) \in Area
    BY <2>1, AddrBounds
  <2> QED
    BY <2>2 DEF Init, InUse
<1>3. Taken = {}
  BY <1>1, <1>2 DEF Taken, Touched
<1> QED
  BY <1>1, <1>3, FS_EmptySet DEF CountInv

(* As long as NewestSpared holds.                                           *)
LEMMA SpecInv == Spec /\ []NewestSpared => []IInv
<1>1. Init => IInv
  BY InitInv
<1>2. IInv /\ NewestSpared /\ [Next]_vars => IInv'
  BY NextInv
<1> QED
  BY <1>1, <1>2, PTL DEF Spec

FewSaves == MaxSaves < NSECTORS

LEMMA FewSpec == FewSaves => (Spec => [](IInv /\ CountInv))
<1> SUFFICES ASSUME FewSaves PROVE Spec => [](IInv /\ CountInv)
  OBVIOUS
<1>1. Init => IInv /\ CountInv
  BY InitInv, InitCount
<1>2. IInv /\ CountInv /\ [Next]_vars => (IInv /\ CountInv)'
  <2> SUFFICES ASSUME IInv, CountInv, [Next]_vars PROVE IInv' /\ CountInv'
    OBVIOUS
  <2>1. NewestSpared
    BY DEF CountInv, NewestSpared
  <2>2. IInv'
    BY <2>1, NextInv
  <2> QED
    BY <2>2, NextCount DEF FewSaves
<1> QED
  BY <1>1, <1>2, PTL DEF Spec

-----------------------------------------------------------------------------
(* The theorems, while no reclaiming touches the page it is for.            *)

(* Every variable keeps its type, and the deque is never longer than three  *)
(* scans make it.                                                           *)
THEOREM SparedTypeOK == Spec /\ []NewestSpared => []TypeOK
BY SpecInv, InvType, PTL

(* The rest of the newest page can be programmed: after a load, a save, a   *)
(* refused write or a reclaiming, has_room's room is erased flash.          *)
THEOREM SparedRoomIsErased == Spec /\ []NewestSpared => []RoomIsErased
BY SpecInv, InvRoom, PTL

(* No torn record is ever taken for a value, wherever the power failed: not *)
(* by do_load, whose loop reads a record to its end, and not by a reader    *)
(* during a save.                                                           *)
THEOREM SparedOnlyWholeRecords == Spec /\ []NewestSpared => []OnlyWholeRecords
BY SpecInv, InvWhole, PTL

(* do_load, which reads the pages in the order of their serials, sees the   *)
(* records in the order of the saves.                                       *)
THEOREM SparedLogIsOrdered == Spec /\ []NewestSpared => []LogIsOrdered
BY SpecInv, InvOrdered, PTL

(* But for the session that writes the first header, a page in the deque    *)
(* has no header and is there once, and nothing is appended past a page.    *)
THEOREM SparedFreePagesAreFree == Spec /\ []NewestSpared => []FreePagesAreFree
BY SpecInv, InvFree, PTL

(* Every page that the next load() will read is in this session's page_seq. *)
THEOREM SparedPagesAreKnown == Spec /\ []NewestSpared => []PagesAreKnown
BY SpecInv, InvKnown, PTL

(* With fewer saves than sectors no page is ever reclaimed: every save      *)
(* begins at most one page, and the first one begins none.                  *)
THEOREM FewSavesSpare == FewSaves => (Spec => [](pc # "reclaim" /\ NewestSpared))
<1>1. IInv /\ CountInv => pc # "reclaim" /\ NewestSpared
  BY DEF CountInv, NewestSpared
<1> QED
  BY <1>1, FewSpec, PTL

(* Then the six hold of every behaviour: the power may fail at any halfword *)
(* and `config erase` may come at any time.                                 *)
THEOREM FewSavesKeepAll ==
  FewSaves => (Spec => [](/\ TypeOK /\ RoomIsErased /\ OnlyWholeRecords
                          /\ LogIsOrdered /\ FreePagesAreFree /\ PagesAreKnown))
BY FewSpec, InvType, InvRoom, InvWhole, InvOrdered, InvFree, InvKnown, PTL

-----------------------------------------------------------------------------
(* Until half of the sectors are used, and without `config erase`: sector   *)
(* NSECTORS/2, which erase_sector does not erase, is empty, so that the     *)
(* wiping of load() leaves no old settings behind; and while a user reads   *)
(* there is a page to save to.                                              *)

Gentle == 2 * MaxSaves <= NSECTORS /\ "erase" \notin Allowed

(* The last record or header of page s lacks its last halfwords.            *)
CutShort(f, s) ==
  \E o \in Offsets :
    /\ InUse(f, s, o) /\ ~IsLastWord(f[Addr(s, o)])
    /\ \A p \in Offsets : o < p => ~InUse(f, s, p)
TornPage(f, s) == HasHeader(f, s) /\ CutShort(f, s)
AnyTorn(f) == \E s \in Sectors : TornPage(f, s)
Gapless(f) == \A s, u \in Sectors : HasHeader(f, u) /\ s < u => HasHeader(f, s)

(* v is the value of the last whole record of tag t, or 0.                  *)
EndsRecord(f, s, o, t) == f[Addr(s, o)].tag = t /\ IsLastWord(f[Addr(s, o)])
IsLatest(f, t, v) ==
  /\ v \in Nat
  /\ v # 0 => \E s \in Sectors, o \in Offsets : EndsRecord(f, s, o, t) /\ f[Addr(s, o)].val = v
  /\ \A s \in Sectors, o \in Offsets : EndsRecord(f, s, o, t) => f[Addr(s, o)].val <= v

(* The pages are filled one after the other, from the first on; only the    *)
(* last of them can be torn, and only a wiping makes gaps before it.        *)
Ascends(f, s) ==
  \A o, p \in Offsets :
    o < p /\ f[Addr(s, o)].tag \in Tags /\ f[Addr(s, p)].tag \in Tags
    => f[Addr(s, o)].val <= f[Addr(s, p)].val
Filled(f, c) ==
  /\ \A s \in Sectors : InUse(f, s, 0) => s = 0 \/ s < c
  /\ \A s \in Sectors : Ascends(f, s)
  /\ \A s, u \in Sectors :
       HasHeader(f, s) /\ HasHeader(f, u) /\ s < u => Serial(f, s) < Serial(f, u)
  /\ \A s, u \in Sectors : TornPage(f, s) /\ HasHeader(f, u) => u <= s
  /\ AnyTorn(f) \/ Gapless(f)
FilledInv == Filled(flash, count) /\ \A s \in Sectors : ~Spoiled(s)

LastBegun == IF pc = "header" THEN job.page ELSE Newest
SessionInv == Live =>
  /\ Gapless(flash)
  /\ \A s \in Sectors : TornPage(flash, s) => pc = "append" /\ s = job.page
  /\ \A t \in Tags : IsLatest(flash, t, values[t])
  /\ \A s \in Sectors : s > LastBegun => append_point[s] = 0
  /\ Len(free_pages) >= NSECTORS - 1 - LastBegun
  /\ \A i \in DOMAIN free_pages : i < NSECTORS - LastBegun => free_pages[i] = LastBegun + i
BegunInv == pc = "header" =>
  /\ HasHeader(flash, Newest) /\ \A s \in Sectors : HasHeader(flash, s) => s <= Newest
  /\ job.page = Newest + 1 /\ job.page < count
  /\ append_point[job.page] = job.k /\ job.k < HeaderLen
FreshInv == pc = "first" =>
  /\ values = Nothing /\ Len(free_pages) = NSECTORS - 1
  /\ \A i \in DOMAIN free_pages : free_pages[i] = i
BlankInv == pc = "ready" /\ DOMAIN page_seq = {} =>
  /\ values = Nothing /\ InUse(flash, 0, 0)
  /\ \A s \in Sectors : ~HasHeader(flash, s)
WipeInv == pc = "wiping" =>
  /\ \A i \in DOMAIN todo : todo[i] = NSECTORS - Len(todo) + i - 1
  /\ \A s \in Sectors : s < NSECTORS - Len(todo) => ~InUse(flash, s, 0)
  /\ AnyTorn(flash) \/ \A s \in Sectors : ~HasHeader(flash, s)
GentleInv ==
  /\ pc \notin {"erasing", "reclaim"} /\ (pc = "off" => values = Nothing)
  /\ FilledInv /\ SessionInv /\ BegunInv /\ FreshInv /\ BlankInv /\ WipeInv

-----------------------------------------------------------------------------
(* What the walk of do_load finds of a tag in a page.                       *)

Clean(f, s) == \A o \in HeaderLen..(PAGE_SIZE - 1) : f[Addr(s, o)].tag # "header"
PageLatest(f, s, o, t, v) ==
  /\ v \in Nat
  /\ v # 0 => \E p \in Offsets : o <= p /\ EndsRecord(f, s, p, t) /\ f[Addr(s, p)].val = v
  /\ \A p \in Offsets : o <= p /\ EndsRecord(f, s, p, t) => f[Addr(s, p)].val <= v
WalkedLatest(f, s, o, r) ==
  /\ r.how \in {"end", "ecc_error"}
  /\ r.how = "ecc_error" => CutShort(f, s)
  /\ r.vals \in [Tags -> Nat] /\ \A t \in Tags : PageLatest(f, s, o, t, r.vals[t])

LEMMA EndsRecordIs ==
  ASSUME NEW f, NEW c \in Nat, FlashType(f, c), NEW s \in Sectors, NEW o \in Offsets, NEW t \in Tags,
         EndsRecord(f, s, o, t)
  PROVE  /\ InUse(f, s, o) /\ f[Addr(s, o)].val \in 1..c /\ f[Addr(s, o)].val \in Nat
         /\ Placed(f, s) => o >= HeaderLen
<1>1. InUse(f, s, o)
  BY CellType DEF EndsRecord
<1> QED
  BY <1>1, TagsAreApart, Sizes DEF EndsRecord, FlashType, Placed, Offsets

(* The record that starts at o lacks halfwords: it is the last of the page. *)
LEMMA WalkStopsShort ==
  ASSUME NEW f, NEW c \in Nat, FlashType(f, c), NEW s \in Sectors, Packed(f, s),
         NEW o \in Offsets, InUse(f, s, o), f[Addr(s, o)].k = 0, f[Addr(s, o)].tag \in Tags,
         o + RecordLen[f[Addr(s, o)].tag] < PAGE_SIZE,
         \E k \in 1..(RecordLen[f[Addr(s, o)].tag] - 1) : ~Programmed(f, Addr(s, o) + k)
  PROVE  /\ CutShort(f, s)
         /\ \A t \in Tags, p \in Offsets : o <= p => ~EndsRecord(f, s, p, t)
<1> DEFINE w == f[Addr(s, o)]
           l == RecordLen[w.tag]
           Missing == {k \in 1..(l - 1) : ~Programmed(f, Addr(s, o) + k)}
<1>1. /\ l \in Nat /\ l > 1 /\ LenOf(w.tag) = l /\ o \in Nat
      /\ w = [tag |-> w.tag, val |-> w.val, k |-> 0] /\ o + l < PAGE_SIZE
  <2>1. w = [tag |-> w.tag, val |-> w.val, k |-> w.k]
    BY CellType
  <2> QED
    BY <2>1, Sizes, TagsAreApart DEF Offsets
<1>2. PICK k \in Missing : \A j \in Missing : k <= j
  <2>1. Missing # {} /\ Missing \subseteq Nat
    BY <1>1
  <2> HIDE DEF Missing
  <2> QED
    BY <2>1, LeastNumber
<1>3. k \in 1..(l - 1) /\ ~Programmed(f, Addr(s, o) + k)
      /\ \A j \in 1..(k - 1) : Programmed(f, Addr(s, o) + j)
  <2>1. \A j \in 1..(k - 1) : j \in 1..(l - 1) /\ j < k
    BY <1>1, <1>2
  <2> QED
    BY <1>1, <1>2, <2>1
<1> HIDE DEF Missing, l, w
<1>4. \A j \in 0..k : o + j \in Offsets /\ Addr(s, o) + j = Addr(s, o + j)
  <2> TAKE j \in 0..k
  <2>1. o + j \in Offsets /\ o \in Int /\ j \in Int
    BY <1>1, <1>3, Sizes DEF Offsets
  <2> QED
    BY <2>1, AddrSum
<1>5. ~InUse(f, s, o + k)
  BY <1>1, <1>3, <1>4, ProgrammedIs
<1>6. \A p \in Offsets : o + k <= p => ~InUse(f, s, p)
  <2> TAKE p \in Offsets
  <2> HAVE o + k <= p
  <2>1. p \in Nat /\ o + k \in Nat /\ (o + k = p \/ o + k < p) /\ o + k \in Offsets
    BY <1>1, <1>3, <1>4 DEF Offsets
  <2> QED
    BY <1>5, <2>1 DEF Packed
<1>7. \A p \in Offsets : o <= p /\ InUse(f, s, p) =>
        /\ p < o + k /\ p - o < l - 1
        /\ f[Addr(s, p)].k = p - o /\ f[Addr(s, p)].tag = w.tag
  <2> TAKE p \in Offsets
  <2> HAVE o <= p /\ InUse(f, s, p)
  <2>1. p \in Nat /\ p < o + k /\ p - o < l - 1 /\ o \in 0..p /\ 0 + (p - o) < l /\ p - o \in Nat
    BY <1>1, <1>3, <1>6 DEF Offsets
  <2>2. f[Addr(s, p)] = [w EXCEPT !.k = @ + (p - o)]
    BY <1>1, <2>1 DEF Packed, w
  <2>3. f[Addr(s, p)] = [tag |-> w.tag, val |-> w.val, k |-> 0 + (p - o)]
    BY <1>1, <2>2
  <2> QED
    BY <2>1, <2>3
<1>8. \A p \in Offsets : o <= p /\ InUse(f, s, p) => ~IsLastWord(f[Addr(s, p)])
  <2> TAKE p \in Offsets
  <2> HAVE o <= p /\ InUse(f, s, p)
  <2>1. LenOf(f[Addr(s, p)].tag) = l /\ f[Addr(s, p)].k < l - 1
    BY <1>1, <1>7
  <2> QED
    BY <1>1, <1>7, <2>1 DEF IsLastWord
<1>9. CutShort(f, s)
  <2> DEFINE p == o + (k - 1)
  <2>1. k - 1 \in 0..k /\ k \in Nat
    BY <1>1, <1>3
  <2>2. p \in Offsets /\ o <= p /\ p + 1 = o + k /\ p \in Nat
    BY <1>1, <1>4, <2>1
  <2>3. InUse(f, s, p)
    <3>1. CASE k = 1
      BY <1>1, <3>1 
    <3>2. CASE k # 1
      <4>1. k - 1 \in 1..(k - 1)
        BY <2>1, <1>3, <3>2
      <4>2. Programmed(f, Addr(s, o) + (k - 1)) /\ Addr(s, o) + (k - 1) = Addr(s, p)
        BY <1>3, <1>4, <2>1, <4>1
      <4> QED
        BY <2>2, <4>2, ProgrammedIs
    <3> QED
      BY <3>1, <3>2
  <2>4. \A q \in Offsets : p < q => ~InUse(f, s, q)
    <3> TAKE q \in Offsets
    <3> HAVE p < q
    <3>1. o + k <= q
      BY <1>1, <2>1, <2>2 DEF Offsets
    <3> QED
      BY <1>6, <3>1
  <2> HIDE DEF p
  <2> QED
    BY <1>8, <2>2, <2>3, <2>4 DEF CutShort
<1> QED
  BY <1>8, <1>9, EndsRecordIs DEF EndsRecord

(* A whole record starts at o: what is found from there is what is found    *)
(* after it, and its value where that has none.                             *)
LEMMA LatestBefore ==
  ASSUME NEW f, NEW c \in Nat, FlashType(f, c), NEW s \in Sectors, Packed(f, s), Placed(f, s), Ascends(f, s),
         NEW o \in Offsets, InUse(f, s, o), f[Addr(s, o)].k = 0, f[Addr(s, o)].tag \in Tags,
         NEW n \in Offsets, n = o + RecordLen[f[Addr(s, o)].tag], InUse(f, s, n - 1),
         NEW t \in Tags, NEW v, PageLatest(f, s, n, t, v)
  PROVE  PageLatest(f, s, o, t, IF t = f[Addr(s, o)].tag /\ v = 0 THEN f[Addr(s, o)].val ELSE v)
<1> DEFINE w == f[Addr(s, o)]
           l == RecordLen[w.tag]
           x == IF t = w.tag /\ v = 0 THEN w.val ELSE v
<1>1. /\ l \in Nat /\ l > 1 /\ LenOf(w.tag) = l /\ o \in Nat /\ n \in Nat /\ n = o + l
      /\ w = [tag |-> w.tag, val |-> w.val, k |-> 0] /\ w.val \in 1..c
  <2>1. w = [tag |-> w.tag, val |-> w.val, k |-> w.k]
    BY CellType
  <2>2. w.val \in 1..c
    BY DEF FlashType
  <2> QED
    BY <2>1, <2>2, Sizes, TagsAreApart DEF Offsets
<1> HIDE DEF w, l
<1>2. \A p \in Offsets : p < n => n - 1 \in Offsets /\ InUse(f, s, p)
  <2> TAKE p \in Offsets
  <2> HAVE p < n
  <2>1. n - 1 \in Offsets /\ (p = n - 1 \/ p < n - 1)
    BY <1>1, Sizes DEF Offsets
  <2> QED
    BY <2>1 DEF Packed
<1>3. \A p \in Offsets : o <= p /\ p < n => f[Addr(s, p)] = [tag |-> w.tag, val |-> w.val, k |-> p - o]
  <2> TAKE p \in Offsets
  <2> HAVE o <= p /\ p < n
  <2>1. p \in Nat /\ o \in 0..p /\ 0 + (p - o) < l /\ p - o \in Nat /\ 0 + (p - o) = p - o /\ InUse(f, s, p)
    BY <1>1, <1>2 DEF Offsets
  <2>2. f[Addr(s, p)] = [w EXCEPT !.k = @ + (p - o)]
    BY <1>1, <2>1 DEF Packed, w
  <2> QED
    BY <1>1, <2>1, <2>2
<1>4. EndsRecord(f, s, n - 1, w.tag) /\ f[Addr(s, n - 1)].val = w.val /\ n - 1 \in Offsets /\ o <= n - 1
  <2>1. n - 1 \in Offsets /\ o <= n - 1 /\ n - 1 < n /\ (n - 1) - o = l - 1
    BY <1>1, Sizes DEF Offsets
  <2>2. f[Addr(s, n - 1)] = [tag |-> w.tag, val |-> w.val, k |-> l - 1]
    BY <1>3, <2>1
  <2> QED
    BY <1>1, <2>1, <2>2 DEF EndsRecord, IsLastWord
<1>5. v \in Nat /\ x \in Nat
  BY <1>1 DEF PageLatest
<1>6. x # 0 => \E p \in Offsets : o <= p /\ EndsRecord(f, s, p, t) /\ f[Addr(s, p)].val = x
  <2>1. CASE t = w.tag /\ v = 0
    BY <1>4, <2>1
  <2>2. CASE ~(t = w.tag /\ v = 0)
    <3> HAVE x # 0
    <3>1. PICK p \in Offsets : n <= p /\ EndsRecord(f, s, p, t) /\ f[Addr(s, p)].val = v
      BY <2>2 DEF PageLatest
    <3>2. o <= p
      BY <1>1, <3>1 DEF Offsets
    <3> QED
      BY <2>2, <3>1, <3>2
  <2> QED
    BY <2>1, <2>2
<1>7. \A p \in Offsets : o <= p /\ EndsRecord(f, s, p, t) => f[Addr(s, p)].val <= x
  <2> TAKE p \in Offsets
  <2> HAVE o <= p /\ EndsRecord(f, s, p, t)
  <2>0. f[Addr(s, p)].val \in Nat /\ f[Addr(s, p)].val # 0
    BY EndsRecordIs
  <2>1. CASE n <= p
    <3>1. f[Addr(s, p)].val <= v
      BY <2>1 DEF PageLatest
    <3> QED
      BY <1>5, <2>0, <3>1
  <2>2. CASE p < n
    <3>1. f[Addr(s, p)].val = w.val /\ t = w.tag
      <4>1. f[Addr(s, p)] = [tag |-> w.tag, val |-> w.val, k |-> p - o]
        BY <1>3, <2>2
      <4> QED
        BY <4>1 DEF EndsRecord
    <3>2. CASE v = 0
      BY <1>1, <3>1, <3>2
    <3>3. CASE v # 0
      <4>1. PICK q \in Offsets : n <= q /\ EndsRecord(f, s, q, t) /\ f[Addr(s, q)].val = v
        BY <3>3 DEF PageLatest
      <4>2. p < q
        BY <1>1, <2>2, <4>1 DEF Offsets
      <4>3. f[Addr(s, p)].tag \in Tags /\ f[Addr(s, q)].tag \in Tags
        BY <4>1 DEF EndsRecord
      <4>4. f[Addr(s, p)].val <= f[Addr(s, q)].val
        BY <4>2, <4>3 DEF Ascends
      <4> QED
        BY <3>3, <4>1, <4>4
    <3> QED
      BY <3>2, <3>3
  <2> QED
    BY <1>1, <2>1, <2>2 DEF Offsets
<1> QED
  BY <1>5, <1>6, <1>7 DEF PageLatest, w

LEMMA WalkLatest ==
  ASSUME NEW f, NEW c \in Nat, FlashType(f, c), NEW d \in SUBSET Nat, LastIsDone(f, d),
         NEW s \in Sectors, Packed(f, s), Placed(f, s), Ascends(f, s), Clean(f, s)
  PROVE  \A o \in HeaderLen..(PAGE_SIZE - 1) :
           Boundary(f, s, o) => WalkedLatest(f, s, o, Walk(f)[Addr(s, o)])
<1> DEFINE R(o) == Walk(f)[Addr(s, o)]
           Bad == {m \in Nat : \E o \in HeaderLen..(PAGE_SIZE - 1) :
                     m = PAGE_SIZE - o /\ Boundary(f, s, o) /\ ~WalkedLatest(f, s, o, R(o))}
<1>1. SUFFICES ASSUME Bad # {} PROVE FALSE
  <2>1. \A o \in HeaderLen..(PAGE_SIZE - 1) : PAGE_SIZE - o \in Nat
    BY Sizes
  <2> QED
    BY <2>1
<1>2. PICK m \in Bad : \A n \in Bad : m <= n
  <2>1. Bad \subseteq Nat
    OBVIOUS
  <2> HIDE DEF Bad
  <2> QED
    BY <1>1, <2>1, LeastNumber
<1>3. PICK o \in HeaderLen..(PAGE_SIZE - 1) :
        m = PAGE_SIZE - o /\ Boundary(f, s, o) /\ ~WalkedLatest(f, s, o, R(o))
  OBVIOUS
<1>4. \A p \in HeaderLen..(PAGE_SIZE - 1) :
        p > o /\ Boundary(f, s, p) => WalkedLatest(f, s, p, R(p))
  <2> TAKE p \in HeaderLen..(PAGE_SIZE - 1)
  <2>1. PAGE_SIZE - p \in Nat /\ (p > o => ~(m <= PAGE_SIZE - p))
    BY <1>3, Sizes
  <2>2. p > o => PAGE_SIZE - p \notin Bad
    <3> HIDE DEF Bad
    <3> QED
      BY <1>2, <2>1
  <2> QED
    BY <2>1, <2>2
<1> HIDE DEF Bad
<1> DEFINE a == Addr(s, o)
           w == f[a]
<1>5. o \in Offsets /\ o \in Nat /\ a \in Steps /\ a \in Nat
  BY <1>3, StepsOfPage, AddrBounds, Sizes DEF Offsets
<1>6. R(o) = WalkTurn(f, Walk(f), a)
  BY <1>5, WalkIs
<1>7. Nothing \in [Tags -> Nat] /\ \A t \in Tags : Nothing[t] = 0
  BY DEF Nothing
<1>8. CASE ~Programmed(f, a)
  <2>1. R(o) = [how |-> "end", at |-> a, vals |-> Nothing]
    BY <1>6, <1>8 DEF WalkTurn
  <2>2. ~InUse(f, s, o)
    BY <1>5, <1>8, ProgrammedIs
  <2>3. \A p \in Offsets : o <= p => ~InUse(f, s, p)
    <3> TAKE p \in Offsets
    <3>1. o <= p => o = p \/ o < p
      BY <1>5 DEF Offsets
    <3> QED
      BY <1>5, <2>2, <3>1 DEF Packed
  <2>4. \A t \in Tags : PageLatest(f, s, o, t, Nothing[t])
    BY <1>7, <2>3, EndsRecordIs DEF PageLatest
  <2> QED
    BY <1>3, <1>7, <2>1, <2>4 DEF WalkedLatest
<1>9. CASE Programmed(f, a) /\ w.tag \notin Tags
  <2>1. InUse(f, s, o)
    BY <1>5, <1>9, ProgrammedIs
  <2>2. w.tag = "header"
    BY <1>5, <1>9, <2>1, CellType
  <2> QED
    BY <1>3, <2>2 DEF Clean
<1>10. CASE Programmed(f, a) /\ w.tag \in Tags /\ \E k \in 1..(RecordLen[w.tag] - 1) : ~Programmed(f, a + k)
  <2>1. R(o) = [how |-> "ecc_error", at |-> a, vals |-> Nothing]
    BY <1>6, <1>10 DEF WalkTurn
  <2>2. InUse(f, s, o) /\ w.k = 0
    BY <1>3, <1>5, <1>10, ProgrammedIs DEF Boundary
  <2>3. o + RecordLen[w.tag] < PAGE_SIZE
    <3>1. o - 0 + LenOf(w.tag) < PAGE_SIZE /\ LenOf(w.tag) = RecordLen[w.tag]
      BY <1>5, <1>10, <2>2, TagsAreApart DEF Placed
    <3> QED
      BY <1>5, <1>10, <3>1, Sizes
  <2>4. /\ CutShort(f, s)
        /\ \A t \in Tags, p \in Offsets : o <= p => ~EndsRecord(f, s, p, t)
    BY <1>5, <1>10, <2>2, <2>3, WalkStopsShort
  <2>5. \A t \in Tags : PageLatest(f, s, o, t, Nothing[t])
    BY <1>7, <2>4 DEF PageLatest
  <2> QED
    BY <1>3, <1>7, <2>1, <2>4, <2>5 DEF WalkedLatest
<1>11. CASE Programmed(f, a) /\ w.tag \in Tags /\ \A k \in 1..(RecordLen[w.tag] - 1) : Programmed(f, a + k)
  <2> DEFINE n == o + RecordLen[w.tag]
             q == R(n)
  <2>1. InUse(f, s, o) /\ w.k = 0
    BY <1>3, <1>5, <1>11, ProgrammedIs DEF Boundary
  <2>2. /\ n \in Offsets /\ n > o /\ InUse(f, s, n - 1) /\ Boundary(f, s, n)
    BY <1>5, <1>11, <2>1, RecordIsWhole
  <2>3. n \in HeaderLen..(PAGE_SIZE - 1)
    BY <1>3, <1>5, <2>2, Sizes DEF Offsets
  <2>4. WalkedLatest(f, s, n, q)
    BY <1>4, <2>2, <2>3
  <2>5. R(o) = [q EXCEPT !.vals[w.tag] = IF @ = 0 THEN w.val ELSE @]
    <3>1. a + RecordLen[w.tag] = Addr(s, n)
      <4>1. o \in Int /\ RecordLen[w.tag] \in Int
        BY <1>5, <1>11, Sizes
      <4> HIDE DEF w
      <4> QED
        BY <4>1, AddrSum
    <3> QED
      BY <1>6, <1>11, <3>1 DEF WalkTurn
  <2>6. w.val \in Nat
    BY <1>5, CellType
  <2>7. \A t \in Tags : PageLatest(f, s, o, t, IF t = w.tag /\ q.vals[t] = 0 THEN w.val ELSE q.vals[t])
    <3> TAKE t \in Tags
    <3>1. PageLatest(f, s, n, t, q.vals[t])
      BY <2>4 DEF WalkedLatest
    <3> HIDE DEF q
    <3> QED
      BY <1>5, <1>11, <2>1, <2>2, <3>1, LatestBefore
  <2>8. WalkedTo(f, s, n, d, q)
    BY <2>2, <2>3, WalkPage
  <2>9. /\ R(o).how = q.how
        /\ R(o).vals = [q.vals EXCEPT ![w.tag] = IF @ = 0 THEN w.val ELSE @]
    <3>1. q \in [how : {"end", "ecc_error", "unknown_tag"}, at : Nat, vals : [Tags -> {0} \cup d]]
      BY <2>8 DEF WalkedTo
    <3> HIDE DEF q, R, w
    <3> QED
      BY <2>5, <3>1
  <2>10. q.vals \in [Tags -> Nat]
    BY <2>4 DEF WalkedLatest
  <2> HIDE DEF q, R
  <2>11. R(o).vals \in [Tags -> Nat]
    BY <2>6, <2>9, <2>10
  <2>12. \A t \in Tags : R(o).vals[t] = IF t = w.tag /\ q.vals[t] = 0 THEN w.val ELSE q.vals[t]
    BY <1>11, <2>9, <2>10
  <2> QED
    BY <1>3, <2>4, <2>7, <2>9, <2>11, <2>12 DEF WalkedLatest
<1> QED
  BY <1>8, <1>9, <1>10, <1>11

LEMMA PageReadLatest ==
  ASSUME NEW f, NEW c \in Nat, FlashType(f, c), NEW d \in SUBSET Nat, LastIsDone(f, d),
         NEW s \in Sectors, Packed(f, s), Placed(f, s), Ascends(f, s), Clean(f, s), HasHeader(f, s)
  PROVE  LET r == PageRead(f, s)
         IN /\ r.how # "end" <=> CutShort(f, s)
            /\ r.how \in {"end", "ecc_error"}
            /\ r.vals \in [Tags -> Nat]
            /\ \A t \in Tags : PageLatest(f, s, 0, t, r.vals[t])
<1> DEFINE r == PageRead(f, s)
<1>1. 1 \in Offsets /\ 1 \in 0..(HeaderLen - 1) /\ HeaderLen \in HeaderLen..(PAGE_SIZE - 1)
      /\ HeaderLen \in Nat
  BY SizesAssumption DEF Offsets
<1>2. r = Walk(f)[Addr(s, HeaderLen)]
  <2>1. Programmed(f, Addr(s, 1))
    BY <1>1, ProgrammedIs, HasHeaderIs
  <2> QED
    BY <2>1 DEF PageRead
<1>3. WalkedLatest(f, s, HeaderLen, r)
  BY <1>1, <1>2, WalkLatest, HeaderEnds
<1>4. r.how = "end" => ~CutShort(f, s)
  <2> HAVE r.how = "end"
  <2> DEFINE e == r.at - Addr(s, 0)
  <2>1. FilledTo(f, s, e)
    BY PageReadIs
  <2> HIDE DEF e
  <2>2. /\ e \in Nat /\ e - 1 \in Offsets /\ (\A o \in Offsets : InUse(f, s, o) <=> o < e)
        /\ IsLastWord(f[Addr(s, e - 1)])
    BY <2>1, SizesAssumption DEF FilledTo, Offsets
  <2>3. \A o \in Offsets : InUse(f, s, o) /\ (\A p \in Offsets : o < p => ~InUse(f, s, p)) => o = e - 1
    <3> TAKE o \in Offsets
    <3> HAVE InUse(f, s, o) /\ (\A p \in Offsets : o < p => ~InUse(f, s, p))
    <3>1. o \in Nat /\ o < e
      BY <2>2 DEF Offsets
    <3>2. ~(o < e - 1)
      BY <2>2, <3>1
    <3> QED
      BY <2>2, <3>1, <3>2
  <2> QED
    BY <2>2, <2>3 DEF CutShort
<1>5. \A t \in Tags : PageLatest(f, s, 0, t, r.vals[t])
  <2> TAKE t \in Tags
  <2>1. PageLatest(f, s, HeaderLen, t, r.vals[t])
    BY <1>3 DEF WalkedLatest
  <2>2. \A p \in Offsets : 0 <= p
    BY DEF Offsets
  <2>3. \A p \in Offsets : EndsRecord(f, s, p, t) => HeaderLen <= p
    BY EndsRecordIs, <1>1 DEF Offsets
  <2> HIDE DEF r
  <2> QED
    BY <2>1, <2>2, <2>3 DEF PageLatest
<1> QED
  BY <1>3, <1>4, <1>5 DEF WalkedLatest

LEMMA RecordHasHeader ==
  ASSUME NEW f, NEW c \in Nat, FlashType(f, c), NEW s \in Sectors, Packed(f, s), Placed(f, s),
         NEW o \in Offsets, NEW t \in Tags, EndsRecord(f, s, o, t)
  PROVE  HasHeader(f, s) /\ o \in HeaderLen..(PAGE_SIZE - 1)
<1>1. InUse(f, s, o) /\ o >= HeaderLen /\ o \in 0..(PAGE_SIZE - 1)
  BY EndsRecordIs DEF Offsets
<1>2. \A p \in 0..(HeaderLen - 1) : p \in Offsets /\ p < o
  BY <1>1, Sizes DEF Offsets
<1>3. \A p \in 0..(HeaderLen - 1) : InUse(f, s, p)
  BY <1>1, <1>2 DEF Packed
<1> QED
  BY <1>1, <1>3, HasHeaderIs, Sizes

(* What a load() of this flash would read.                                  *)
Reads == LET pages == Headered(flash, NSECTORS)
         IN [n \in DOMAIN pages |-> PageRead(flash, pages[n])]

LEMMA ReadsAre ==
  ASSUME IInv, FilledInv
  PROVE  /\ (\E n \in DOMAIN Reads : Reads[n].how # "end") <=> AnyTorn(flash)
         /\ \A t \in Tags : IsLatest(flash, t, LastValue(Reads, t, 0))
<1> DEFINE on == Headered(flash, NSECTORS)
<1>1. /\ FlashType(flash, count) /\ LastIsDone(flash, done) /\ done \in SUBSET Nat /\ count \in Nat
      /\ \A s \in Sectors : Packed(flash, s) /\ Placed(flash, s)
      /\ WellFormed(flash) /\ SerialsDiffer(flash) /\ LogIsOrdered
  BY FlashIsWellFormed DEF IInv, FlashInv, Types, WellFormed
<1>2. /\ IsMap(on)
      /\ \A n \in DOMAIN on : HasHeader(flash, on[n]) /\ Serial(flash, on[n]) = n
      /\ \A s \in Sectors : HasHeader(flash, s) =>
           Serial(flash, s) \in DOMAIN on /\ on[Serial(flash, s)] = s
  BY <1>1, HeaderedIs
<1>3. DOMAIN Reads = DOMAIN on /\ \A n \in DOMAIN on : Reads[n] = PageRead(flash, on[n])
  BY DEF Reads
<1> HIDE DEF on
<1>4. \A n \in DOMAIN on : on[n] \in Sectors
  BY <1>2 DEF IsMap
<1>5. \A s \in Sectors : Ascends(flash, s) /\ Clean(flash, s)
  BY DEF FilledInv, Filled, Spoiled, Clean
<1>6. \A n \in DOMAIN on :
        /\ Reads[n].how # "end" <=> CutShort(flash, on[n])
        /\ Reads[n].vals \in [Tags -> Nat]
        /\ \A t \in Tags : PageLatest(flash, on[n], 0, t, Reads[n].vals[t])
  BY <1>1, <1>2, <1>3, <1>4, <1>5, PageReadLatest
<1>7. (\E n \in DOMAIN Reads : Reads[n].how # "end") <=> AnyTorn(flash)
  BY <1>2, <1>3, <1>4, <1>6 DEF AnyTorn, TornPage
<1>8. ASSUME NEW t \in Tags PROVE IsLatest(flash, t, LastValue(Reads, t, 0))
  <2> DEFINE with == {n \in DOMAIN Reads : Reads[n].vals[t] # 0}
  <2>1. \A s \in Sectors, o \in Offsets : EndsRecord(flash, s, o, t) =>
          /\ HasHeader(flash, s) /\ o \in HeaderLen..(PAGE_SIZE - 1)
          /\ flash[Addr(s, o)].val \in Nat /\ flash[Addr(s, o)].val # 0
          /\ Serial(flash, s) \in with /\ flash[Addr(s, o)].val <= Reads[Serial(flash, s)].vals[t]
    <3> TAKE s \in Sectors, o \in Offsets
    <3> HAVE EndsRecord(flash, s, o, t)
    <3>1. HasHeader(flash, s) /\ o \in HeaderLen..(PAGE_SIZE - 1)
      BY <1>1, RecordHasHeader
    <3>2. flash[Addr(s, o)].val \in Nat /\ flash[Addr(s, o)].val # 0 /\ 0 <= o
      BY <1>1, EndsRecordIs DEF Offsets
    <3> DEFINE n == Serial(flash, s)
    <3>3. n \in DOMAIN on /\ on[n] = s
      BY <1>2, <3>1
    <3>4. flash[Addr(s, o)].val <= Reads[n].vals[t] /\ Reads[n].vals[t] \in Nat
      BY <1>6, <3>2, <3>3 DEF PageLatest
    <3>5. Reads[n].vals[t] # 0
      BY <3>2, <3>4
    <3> QED
      BY <1>3, <3>1, <3>2, <3>3, <3>4, <3>5
  <2>2. CASE with = {}
    <3>1. LastValue(Reads, t, 0) = 0
      BY <2>2 DEF LastValue
    <3> QED
      BY <2>1, <2>2, <3>1 DEF IsLatest
  <2>3. CASE with # {}
    <3>1. with \in SUBSET Nat /\ IsFiniteSet(with)
      BY <1>2, <1>3, FS_Subset DEF IsMap
    <3> DEFINE g == Largest(with)
               v == Reads[g].vals[t]
    <3>2. LastValue(Reads, t, 0) = v
      BY <2>3 DEF LastValue
    <3>3. g \in with /\ (\A n \in with : n <= g) /\ g \in Nat
      <4> HIDE DEF with
      <4> QED
        BY <2>3, <3>1, LargestIs
    <3>4. g \in DOMAIN on /\ v # 0
      BY <1>3, <3>3
    <3> HIDE DEF g
    <3>5. v \in Nat /\ PageLatest(flash, on[g], 0, t, v) /\ on[g] \in Sectors
      BY <1>4, <1>6, <3>4
    <3>6. PICK p \in Offsets : EndsRecord(flash, on[g], p, t) /\ flash[Addr(on[g], p)].val = v
      BY <3>4, <3>5 DEF PageLatest
    <3>7. ASSUME NEW s \in Sectors, NEW o \in Offsets, EndsRecord(flash, s, o, t)
          PROVE  flash[Addr(s, o)].val <= v
      <4>1. /\ HasHeader(flash, s) /\ o \in HeaderLen..(PAGE_SIZE - 1)
            /\ flash[Addr(s, o)].val \in Nat
            /\ Serial(flash, s) \in with /\ flash[Addr(s, o)].val <= Reads[Serial(flash, s)].vals[t]
        BY <2>1, <3>7
      <4>2. Serial(flash, s) <= g /\ Serial(flash, s) \in Nat
        <5> HIDE DEF with
        <5> QED
          BY <3>1, <3>3, <4>1
      <4>3. CASE Serial(flash, s) = g
        BY <4>1, <4>3
      <4>4. CASE Serial(flash, s) < g
        <5>1. HasHeader(flash, on[g]) /\ Serial(flash, on[g]) = g /\ p \in HeaderLen..(PAGE_SIZE - 1)
          BY <1>2, <2>1, <3>4, <3>5, <3>6
        <5>2. ~Spoiled(s) /\ ~Spoiled(on[g])
          BY <3>5 DEF FilledInv
        <5>3. flash[Addr(s, o)].tag \in Tags /\ flash[Addr(on[g], p)].tag \in Tags
          BY <3>6, <3>7 DEF EndsRecord
        <5>4. flash[Addr(s, 0)].val < flash[Addr(on[g], 0)].val
          BY <4>4, <5>1 DEF Serial
        <5>5. flash[Addr(s, o)].val < flash[Addr(on[g], p)].val
          BY <1>1, <3>5, <4>1, <5>1, <5>2, <5>3, <5>4 DEF LogIsOrdered
        <5> QED
          BY <3>5, <3>6, <4>1, <5>5
      <4> QED
        BY <3>3, <4>2, <4>3, <4>4
    <3> QED
      BY <3>2, <3>5, <3>6, <3>7 DEF IsLatest
  <2> QED
    BY <2>2, <2>3
<1> QED
  BY <1>7, <1>8

(* There is one latest value.                                               *)
LEMMA LatestIsOne ==
  ASSUME NEW f, NEW c \in Nat, FlashType(f, c), NEW t \in Tags, NEW v, NEW u,
         IsLatest(f, t, v), IsLatest(f, t, u)
  PROVE  v = u
<1>1. v \in Nat /\ u \in Nat
  BY DEF IsLatest
<1>2. v <= u
  BY <1>1 DEF IsLatest
<1>3. u <= v
  BY <1>1 DEF IsLatest
<1> QED
  BY <1>1, <1>2, <1>3

KeptRight ==
  /\ pc # "append" /\ AnyTorn(flash) => Kept = Nothing
  /\ pc = "append" \/ ~AnyTorn(flash) =>
       /\ Kept = [t \in Tags |-> LastValue(Reads, t, 0)]
       /\ \A t \in Tags : IsLatest(flash, t, Kept[t])

LEMMA KeptIs == IInv /\ FilledInv => KeptRight
<1> SUFFICES ASSUME IInv, FilledInv PROVE KeptRight
  OBVIOUS
<1>1. Kept = IF pc # "append" /\ \E n \in DOMAIN Reads : Reads[n].how # "end"
             THEN Nothing ELSE [t \in Tags |-> LastValue(Reads, t, 0)]
  BY DEF Kept, Reads
<1> QED
  BY <1>1, ReadsAre DEF KeptRight

LEMMA KeptIsNext == (IInv /\ FilledInv)' => KeptRight'
BY KeptIs, PTL

-----------------------------------------------------------------------------
(* What a halfword that is programmed does to the filled pages.             *)

(* The page that the map calls the newest is the last one with a header.    *)
NewestIsTop ==
  /\ Newest \in Sectors /\ HasHeader(flash, Newest) /\ Serial(flash, Newest) = Largest(DOMAIN page_seq)
  /\ \A s \in Sectors : HasHeader(flash, s) => s <= Newest

LEMMA NewestTop == IInv /\ FilledInv /\ Live /\ pc # "header" => NewestIsTop
<1> SUFFICES ASSUME IInv, FilledInv, Live, pc # "header" PROVE NewestIsTop
  OBVIOUS
<1>1. /\ Newest \in Sectors /\ Largest(DOMAIN page_seq) \in Nat
      /\ \A n \in DOMAIN page_seq : n \in Nat /\ n <= Largest(DOMAIN page_seq)
  BY NewestIsSector DEF IInv, Types, Live
<1>2. HasHeader(flash, Newest) /\ Serial(flash, Newest) = Largest(DOMAIN page_seq)
  BY <1>1 DEF IInv, NewestInv, FilledInv
<1>3. ASSUME NEW s \in Sectors, HasHeader(flash, s) PROVE s <= Newest
  <2>1. Serial(flash, s) \in DOMAIN page_seq
    BY <1>3 DEF IInv, KnownInv
  <2>2. ~(Serial(flash, Newest) < Serial(flash, s))
    BY <1>1, <1>2, <2>1
  <2>3. ~(Newest < s)
    BY <1>1, <1>2, <1>3, <2>2 DEF FilledInv, Filled
  <2> QED
    BY <1>1, <2>3, SectorsFinite
<1> QED
  BY <1>1, <1>2, <1>3 DEF NewestIsTop

LEMMA NewestTopNext == (IInv /\ FilledInv /\ Live /\ pc # "header")' => NewestIsTop'
BY NewestTop, PTL

(* A halfword that ends no record leaves the latest values as they are.     *)
LEMMA LatestKept ==
  ASSUME FlashInv, JobFits, CanProgram, job.tag = "header" \/ ~IsLast,
         NEW t \in Tags, NEW v, IsLatest(flash, t, v)
  PROVE  IsLatest(WithWord, t, v)
<1>1. \A s \in Sectors, o \in Offsets : WithWord[Addr(s, o)] =
        IF s = job.page /\ o = Offset THEN TheWord ELSE flash[Addr(s, o)]
  BY ProgramPages
<1>2. ~InUse(flash, job.page, Offset) /\ job.page \in Sectors /\ Offset \in Offsets
  <2>1. job.page \in Sectors /\ Offset \in Offsets
    BY ProgramPlace
  <2> QED
    BY <2>1, ProgrammedIs DEF CanProgram, Cell
<1>3. FlashType(flash, count)
  BY DEF FlashInv
<1>4. ~EndsRecord(flash, job.page, Offset, t)
  BY <1>2, TagsAreApart DEF EndsRecord, InUse, Erased
<1>5. job.tag = t => ~IsLastWord(TheWord)
  <2>1. job.k \in Int /\ LenOf(job.tag) \in Int
    BY TagsAreApart DEF JobFits, Begun
  <2> QED
    BY <2>1, TagsAreApart DEF IsLast, IsLastWord, TheWord, Word
<1>6. ~(TheWord.tag = t /\ IsLastWord(TheWord))
  BY <1>5 DEF TheWord, Word
<1>7. \A s \in Sectors, o \in Offsets :
        /\ EndsRecord(WithWord, s, o, t) <=> EndsRecord(flash, s, o, t)
        /\ EndsRecord(flash, s, o, t) => WithWord[Addr(s, o)] = flash[Addr(s, o)]
  BY <1>1, <1>4, <1>6 DEF EndsRecord
<1> QED
  BY <1>7 DEF IsLatest

(* The last halfword of a record makes its value the latest of its tag.     *)
LEMMA LatestPut ==
  ASSUME FlashInv, JobFits, CanProgram, job.tag \in Tags, IsLast, job.val = count,
         NEW t \in Tags, NEW v, IsLatest(flash, t, v)
  PROVE  IsLatest(WithWord, t, IF t = job.tag THEN count ELSE v)
<1>1. \A s \in Sectors, o \in Offsets : WithWord[Addr(s, o)] =
        IF s = job.page /\ o = Offset THEN TheWord ELSE flash[Addr(s, o)]
  BY ProgramPages
<1>2. ~InUse(flash, job.page, Offset) /\ job.page \in Sectors /\ Offset \in Offsets
  <2>1. job.page \in Sectors /\ Offset \in Offsets
    BY ProgramPlace
  <2> QED
    BY <2>1, ProgrammedIs DEF CanProgram, Cell
<1>3. FlashType(flash, count) /\ count \in Nat
  BY DEF FlashInv, JobFits
<1>4. ~EndsRecord(flash, job.page, Offset, t)
  BY <1>2, TagsAreApart DEF EndsRecord, InUse, Erased
<1>5. IsLastWord(TheWord) /\ TheWord.tag = job.tag /\ TheWord.val = count
  <2>1. job.k \in Int /\ LenOf(job.tag) \in Int
    BY TagsAreApart DEF JobFits, Begun
  <2> QED
    BY <2>1 DEF IsLast, IsLastWord, TheWord, Word
<1>6. CASE t = job.tag
  <2>1. EndsRecord(WithWord, job.page, Offset, t) /\ WithWord[Addr(job.page, Offset)].val = count
    BY <1>1, <1>2, <1>5, <1>6 DEF EndsRecord
  <2>2. FlashType(WithWord, count)
    BY ProgramPages
  <2>3. \A s \in Sectors, o \in Offsets : EndsRecord(WithWord, s, o, t) => WithWord[Addr(s, o)].val <= count
    BY <1>3, <2>2, EndsRecordIs
  <2> QED
    BY <1>2, <1>3, <1>6, <2>1, <2>3 DEF IsLatest
<1>7. CASE t # job.tag
  <2>1. \A s \in Sectors, o \in Offsets :
          /\ EndsRecord(WithWord, s, o, t) <=> EndsRecord(flash, s, o, t)
          /\ EndsRecord(flash, s, o, t) => WithWord[Addr(s, o)] = flash[Addr(s, o)]
    BY <1>1, <1>4, <1>5, <1>7 DEF EndsRecord
  <2> QED
    BY <1>7, <2>1 DEF IsLatest
<1> QED
  BY <1>6, <1>7

(* The page of the job is the last one with a header, or comes right after  *)
(* it, and a record in it is the newest.                                    *)
JobIsLast ==
  /\ \A s \in Sectors : HasHeader(flash, s) => s <= job.page
  /\ \A s \in Sectors : TornPage(flash, s) => s = job.page
  /\ Gapless(flash)
  /\ ~HasHeader(flash, job.page) => \A s \in Sectors :
       /\ s < job.page => HasHeader(flash, s)
       /\ HasHeader(flash, s) => Serial(flash, s) < job.val
  /\ job.page = 0 \/ job.page < count \/ InUse(flash, job.page, 0)
  /\ job.tag \in Tags => job.val = count
  /\ job.tag = "header" => Offset < HeaderLen

LEMMA JobIsLastWhile ==
  ASSUME IInv, GentleInv, pc \in {"first", "header", "append"}
  PROVE  JobIsLast
<1>1. CASE pc = "first"
  <2>1. /\ job.page = 0 /\ job.tag = "header" /\ \A s \in Sectors : ~HasHeader(flash, s)
        /\ append_point[0] = job.k /\ Begun
    BY <1>1 DEF IInv, FirstInv
  <2>2. job.k \in 0..(HeaderLen - 1)
    BY <2>1, TagsAreApart DEF Begun
  <2>3. \A s \in Sectors : ~(s < job.page)
    BY <2>1, SectorsFinite
  <2> QED
    BY <2>1, <2>2, <2>3, TagsAreApart, Sizes DEF JobIsLast, TornPage, Gapless, Offset
<1>2. CASE pc = "header"
  <2>1. /\ HasHeader(flash, Newest) /\ \A s \in Sectors : HasHeader(flash, s) => s <= Newest
        /\ job.page = Newest + 1 /\ job.page < count
        /\ append_point[job.page] = job.k /\ job.k < HeaderLen
    BY <1>2 DEF GentleInv, BegunInv
  <2>2. /\ DOMAIN page_seq # {} /\ job.tag = "header" /\ Begun /\ Live
        /\ \A n \in DOMAIN page_seq : n < job.val
    BY <1>2 DEF IInv, HeaderInv, Live
  <2>3. Gapless(flash) /\ \A s \in Sectors : ~TornPage(flash, s)
    BY <1>2, <2>2 DEF GentleInv, SessionInv
  <2>4. \A s \in Sectors : HasHeader(flash, s) => Serial(flash, s) < job.val
    BY <2>2 DEF IInv, KnownInv
  <2>5. Newest \in Sectors
    BY <2>2, NewestIsSector DEF IInv
  <2>6. \A s \in Sectors : /\ HasHeader(flash, s) => s <= job.page
                           /\ s < job.page => HasHeader(flash, s)
    <3> TAKE s \in Sectors
    <3>1. s \in Nat /\ Newest \in Nat /\ (s < job.page => s < Newest \/ s = Newest)
      BY <2>1, <2>5, SectorsFinite
    <3> QED
      BY <2>1, <2>3, <2>5, <3>1 DEF Gapless
  <2> QED
    BY <2>1, <2>2, <2>3, <2>4, <2>6, TagsAreApart DEF JobIsLast, Offset
<1>3. CASE pc = "append"
  <2>1. /\ job.tag \in Tags /\ job.val = count /\ job.page = Newest /\ DOMAIN page_seq # {}
        /\ HasHeader(flash, job.page)
    BY <1>3, RecordIsNewest
  <2>2. Live /\ FilledInv
    BY <1>3, <2>1 DEF Live, GentleInv
  <2>3. NewestIsTop
    BY <1>3, <2>2, NewestTop
  <2>4. Gapless(flash) /\ \A s \in Sectors : TornPage(flash, s) => s = job.page
    BY <2>2 DEF GentleInv, SessionInv
  <2>5. InUse(flash, job.page, 0)
    <3>1. 0 \in 0..(HeaderLen - 1) /\ job.page \in Sectors
      BY <2>1, <2>3, Sizes DEF NewestIsTop
    <3> QED
      BY <2>1, <3>1, HasHeaderIs
  <2> QED
    BY <2>1, <2>3, <2>4, <2>5, TagsAreApart DEF JobIsLast, NewestIsTop
<1> QED
  BY <1>1, <1>2, <1>3

(* A page that is not written is torn if it was.                            *)
LEMMA SameTorn ==
  ASSUME NEW f, NEW g, NEW s \in Sectors, \A o \in Offsets : g[Addr(s, o)] = f[Addr(s, o)]
  PROVE  /\ TornPage(g, s) <=> TornPage(f, s)
         /\ Ascends(f, s) => Ascends(g, s)
<1>1. HasHeader(g, s) <=> HasHeader(f, s)
  BY SamePage
<1>2. CutShort(g, s) <=> CutShort(f, s)
  BY DEF CutShort, InUse
<1> QED
  BY <1>1, <1>2 DEF TornPage, Ascends

LEMMA ProgramFilled ==
  ASSUME FlashInv, JobFits, CanProgram, FilledInv, JobIsLast, flash' = WithWord,
         count' = count, count \in Nat
  PROVE  /\ FilledInv' /\ Gapless(flash')
         /\ \A s \in Sectors : TornPage(flash', s) => s = job.page
         /\ \A s \in Sectors : HasHeader(flash', s) => s <= job.page
<1>1. /\ Offset \in Offsets /\ job.page \in Sectors /\ Exact(job.page)
      /\ Offset < HeaderLen => job.tag = "header" /\ job.k = Offset
  BY ProgramPlace
<1>2. /\ \A s \in Sectors, o \in Offsets : WithWord[Addr(s, o)] =
           IF s = job.page /\ o = Offset THEN TheWord ELSE flash[Addr(s, o)]
      /\ \A s \in Sectors, o \in Offsets : InUse(WithWord, s, o) <=>
           (s = job.page /\ o = Offset) \/ InUse(flash, s, o)
      /\ FlashType(WithWord, count)
  BY ProgramPages
<1>3. /\ \A s \in Sectors : HasHeader(WithWord, s) <=>
           HasHeader(flash, s) \/ (s = job.page /\ Offset = HeaderLen - 1)
      /\ \A s \in Sectors : HasHeader(flash, s) => Serial(WithWord, s) = Serial(flash, s)
      /\ Offset = HeaderLen - 1 =>
           ~HasHeader(flash, job.page) /\ Serial(WithWord, job.page) = job.val /\ IsLast
  BY ProgramHeaders
<1>4. \A s \in Sectors : s # job.page =>
        /\ TornPage(WithWord, s) <=> TornPage(flash, s)
        /\ Ascends(WithWord, s)
  BY <1>2, SameTorn DEF FilledInv, Filled
<1>5. count \in Nat /\ \A s \in Sectors : s \in Nat
  BY SectorsFinite
<1>6. \A s \in Sectors : HasHeader(WithWord, s) => s <= job.page
  BY <1>1, <1>3, <1>5 DEF JobIsLast
<1>7. \A s \in Sectors : TornPage(WithWord, s) => s = job.page
  BY <1>4 DEF JobIsLast
<1>8. Gapless(WithWord)
  BY <1>3 DEF JobIsLast, Gapless
<1>9. \A s \in Sectors : InUse(WithWord, s, 0) => s = 0 \/ s < count
  <2> TAKE s \in Sectors
  <2> HAVE InUse(WithWord, s, 0)
  <2>1. 0 \in Offsets
    BY Sizes DEF Offsets
  <2>2. InUse(flash, s, 0) \/ s = job.page
    BY <1>2, <2>1
  <2>3. InUse(flash, s, 0) => s = 0 \/ s < count
    BY DEF FilledInv, Filled
  <2> QED
    BY <2>2, <2>3 DEF JobIsLast
<1>10. \A s, u \in Sectors :
         HasHeader(WithWord, s) /\ HasHeader(WithWord, u) /\ s < u => Serial(WithWord, s) < Serial(WithWord, u)
  <2> TAKE s \in Sectors, u \in Sectors
  <2> HAVE HasHeader(WithWord, s) /\ HasHeader(WithWord, u) /\ s < u
  <2>1. CASE HasHeader(flash, u)
    <3>1. s # job.page
      BY <1>1, <1>5, <2>1 DEF JobIsLast
    <3> QED
      BY <1>3, <2>1, <3>1 DEF FilledInv, Filled
  <2>2. CASE ~HasHeader(flash, u)
    <3>1. u = job.page /\ Offset = HeaderLen - 1 /\ Serial(WithWord, u) = job.val
      BY <1>3, <2>2
    <3>2. s # job.page /\ HasHeader(flash, s)
      BY <1>3, <1>5, <3>1
    <3> QED
      BY <1>3, <2>2, <3>1, <3>2 DEF JobIsLast
  <2> QED
    BY <2>1, <2>2
<1>11. Ascends(WithWord, job.page)
  <2>1. SUFFICES ASSUME NEW o \in Offsets, NEW p \in Offsets, o < p,
                        WithWord[Addr(job.page, o)].tag \in Tags, WithWord[Addr(job.page, p)].tag \in Tags
                 PROVE  WithWord[Addr(job.page, o)].val <= WithWord[Addr(job.page, p)].val
    BY DEF Ascends
  <2>2. InUse(WithWord, job.page, o) /\ InUse(WithWord, job.page, p)
    BY <1>1, <1>2, <2>1, CellType
  <2>3. o < append_point[job.page] + 1 /\ p < append_point[job.page] + 1 /\ Offset = append_point[job.page]
        /\ o \in Nat /\ p \in Nat /\ Offset \in Nat
    <3>1. o \in Nat /\ p \in Nat /\ Offset \in Nat /\ Offset = append_point[job.page]
      BY <1>1 DEF Offsets, Offset
    <3> QED
      BY <1>1, <1>2, <2>2, <3>1 DEF Exact
  <2>4. o # Offset /\ WithWord[Addr(job.page, o)] = flash[Addr(job.page, o)]
    BY <1>1, <1>2, <2>1, <2>3
  <2>5. CASE p = Offset
    <3>1. WithWord[Addr(job.page, p)] = TheWord /\ job.tag \in Tags /\ TheWord.val = count
      <4>1. WithWord[Addr(job.page, p)] = TheWord
        BY <1>1, <1>2, <2>5
      <4>2. TheWord.tag = job.tag /\ TheWord.val = job.val
        BY DEF TheWord, Word
      <4> QED
        BY <2>1, <4>1, <4>2 DEF JobIsLast
    <3>2. WithWord[Addr(job.page, o)].val \in 1..count
      BY <1>1, <1>2, <2>1, <2>2 DEF FlashType
    <3> QED
      BY <1>5, <3>1, <3>2
  <2>6. CASE p # Offset
    <3>1. WithWord[Addr(job.page, p)] = flash[Addr(job.page, p)]
      BY <1>1, <1>2, <2>6
    <3>2. Ascends(flash, job.page)
      BY <1>1 DEF FilledInv, Filled
    <3> QED
      BY <2>1, <2>4, <3>1, <3>2 DEF Ascends
  <2> QED
    BY <2>5, <2>6
<1>12. \A s, u \in Sectors : TornPage(WithWord, s) /\ HasHeader(WithWord, u) => u <= s
  BY <1>6, <1>7
<1>13. Filled(WithWord, count)
  BY <1>4, <1>8, <1>9, <1>10, <1>11, <1>12 DEF Filled
<1>14. \A s \in Sectors : \A o \in HeaderLen..(PAGE_SIZE - 1) : WithWord[Addr(s, o)].tag # "header"
  <2> TAKE s \in Sectors
  <2> TAKE o \in HeaderLen..(PAGE_SIZE - 1)
  <2>1. o \in Offsets /\ o >= HeaderLen /\ o \in Nat
    BY Sizes DEF Offsets
  <2>2. CASE s = job.page /\ o = Offset
    <3>1. job.tag # "header"
      BY <1>1, <2>1, <2>2, Sizes DEF JobIsLast
    <3>2. WithWord[Addr(s, o)] = TheWord
      BY <1>2, <2>1, <2>2
    <3> QED
      BY <3>1, <3>2 DEF TheWord, Word
  <2>3. CASE ~(s = job.page /\ o = Offset)
    <3>1. WithWord[Addr(s, o)] = flash[Addr(s, o)]
      BY <1>2, <2>1, <2>3
    <3> QED
      BY <3>1 DEF FilledInv, Spoiled
  <2> QED
    BY <2>2, <2>3
<1>15. FilledInv'
  BY <1>13, <1>14 DEF FilledInv, Spoiled
<1> QED
  BY <1>6, <1>7, <1>8, <1>15

-----------------------------------------------------------------------------
(* The steps keep GentleInv.                                                *)

LEMMA ProgramWordGentle ==
  ASSUME IInv, GentleInv, ProgramWord
  PROVE  GentleInv'
<1>1. /\ pc \in {"first", "header", "append"} /\ CanProgram /\ ~IsLast
      /\ flash' = WithWord /\ append_point' = Advanced /\ job' = [job EXCEPT !.k = @ + 1]
      /\ page_seq' = page_seq /\ free_pages' = free_pages /\ values' = values /\ pc' = pc /\ count' = count
  BY DEF ProgramWord, CanProgram, Programming
<1>2. /\ JobFits /\ JobIsLast /\ FlashInv /\ FilledInv /\ job \in Jobs /\ count \in Nat
      /\ SessionInv /\ BegunInv /\ FreshInv
  BY <1>1, JobFitsWhile, JobIsLastWhile DEF IInv, Types, GentleInv
<1>3. /\ FilledInv' /\ Gapless(flash')
      /\ \A s \in Sectors : TornPage(flash', s) => s = job.page
  BY <1>1, <1>2, ProgramFilled
<1>4. job'.page = job.page /\ job'.k = job.k + 1
  BY <1>1, <1>2, BegunGrows
<1>5. \A s \in Sectors : append_point'[s] = IF s = job.page THEN Offset + 1 ELSE append_point[s]
  BY <1>1, <1>2, AdvancedRam
<1>6. Offset = append_point[job.page] /\ Offset \in Nat /\ job.page \in Sectors /\ job.page \in Nat
  BY <1>1, <1>2, ProgramPlace, SectorsFinite DEF Offset, Offsets
<1>7. \A s \in Sectors : HasHeader(flash', s) <=> HasHeader(flash, s)
  BY <1>1, <1>2, ProgramHeaders
<1>8. Newest' = Newest
  BY <1>1 DEF Newest
<1>9. pc = "header" =>
        /\ HasHeader(flash, Newest) /\ \A s \in Sectors : HasHeader(flash, s) => s <= Newest
        /\ job.page = Newest + 1 /\ job.page < count
        /\ append_point[job.page] = job.k /\ job.k < HeaderLen /\ job.tag = "header"
  BY <1>2 DEF BegunInv, IInv, HeaderInv
<1>10. ASSUME Live' PROVE SessionInv'
  <2>1. Live /\ pc \in {"header", "append"}
    BY <1>1, <1>10 DEF Live
  <2>2. LastBegun' = LastBegun /\ job.page = LastBegun
    <3>1. pc = "append" => job.page = Newest
      BY RecordIsNewest
    <3> QED
      BY <1>1, <1>4, <1>8, <2>1, <3>1 DEF LastBegun
  <2>3. \A s \in Sectors : TornPage(flash', s) => pc' = "append" /\ s = job'.page
    <3> TAKE s \in Sectors
    <3> HAVE TornPage(flash', s)
    <3>1. s = job.page /\ HasHeader(flash, s)
      BY <1>3, <1>7 DEF TornPage
    <3>2. CASE pc = "header"
      <4>1. Newest \in Sectors /\ Newest \in Nat
        BY <2>1, NewestIsSector, SectorsFinite DEF IInv, Live
      <4>2. s <= Newest /\ s = Newest + 1
        BY <1>9, <3>1, <3>2
      <4> QED
        BY <4>1, <4>2
    <3> QED
      BY <1>1, <1>4, <2>1, <3>1, <3>2
  <2>4. \A t \in Tags : IsLatest(flash', t, values'[t])
    BY <1>1, <1>2, <2>1, LatestKept DEF SessionInv
  <2>5. \A s \in Sectors : s > LastBegun' => append_point'[s] = 0
    <3> TAKE s \in Sectors
    <3> HAVE s > LastBegun'
    <3>1. s > LastBegun /\ s # job.page
      BY <1>6, <2>2
    <3> QED
      BY <1>2, <1>5, <2>1, <3>1 DEF SessionInv
  <2>6. /\ Len(free_pages') >= NSECTORS - 1 - LastBegun'
        /\ \A i \in DOMAIN free_pages' : i < NSECTORS - LastBegun' => free_pages'[i] = LastBegun' + i
    BY <1>1, <1>2, <2>1, <2>2 DEF SessionInv
  <2> QED
    BY <1>3, <2>3, <2>4, <2>5, <2>6 DEF SessionInv
<1>11. ASSUME pc' = "header" PROVE BegunInv'
  <2>1. pc = "header" /\ Newest \in Sectors /\ Newest \in Nat
    <3>1. pc = "header"
      BY <1>1, <1>11
    <3>2. DOMAIN page_seq # {}
      BY <3>1 DEF IInv, HeaderInv
    <3> QED
      BY <3>1, <3>2, NewestIsSector, SectorsFinite DEF IInv
  <2>2. HasHeader(flash', Newest') /\ \A s \in Sectors : HasHeader(flash', s) => s <= Newest'
    BY <1>7, <1>8, <1>9, <2>1
  <2>3. job'.page = Newest' + 1 /\ job'.page < count'
    BY <1>1, <1>4, <1>8, <1>9, <2>1
  <2>4. append_point'[job'.page] = job'.k
    BY <1>4, <1>5, <1>6, <1>9, <2>1
  <2>5. job'.k < HeaderLen
    <3>1. job.k + 1 # HeaderLen /\ job.k \in Nat
      BY <1>1, <1>2, <1>9, <2>1, TagsAreApart DEF IsLast, JobFits, Begun
    <3> QED
      BY <1>4, <1>9, <2>1, <3>1, Sizes
  <2> QED
    BY <2>2, <2>3, <2>4, <2>5 DEF BegunInv
<1>12. FreshInv'
  BY <1>1, <1>2 DEF FreshInv
<1>13. pc' \notin {"erasing", "reclaim", "off", "ready", "wiping"}
  BY <1>1
<1> QED
  BY <1>3, <1>10, <1>11, <1>12, <1>13 DEF GentleInv, SessionInv, BegunInv, BlankInv, WipeInv

(* The last halfword leaves the page whole.                                 *)
LEMMA ProgramWhole ==
  ASSUME FlashInv, JobFits, CanProgram, IsLast
  PROVE  ~TornPage(WithWord, job.page)
<1>1. job.page \in Sectors /\ Offset \in Offsets /\ Offset \in Nat /\ Exact(job.page)
  BY ProgramPlace DEF Offsets
<1>2. WithWord[Addr(job.page, Offset)] = TheWord
  BY <1>1, ProgramPages
<1>3. \A o \in Offsets : InUse(WithWord, job.page, o) <=> o < Offset + 1
  <2> TAKE o \in Offsets
  <2>1. InUse(flash, job.page, o) <=> o < Offset
    BY <1>1 DEF Exact, Offset
  <2>2. InUse(WithWord, job.page, o) <=> o = Offset \/ InUse(flash, job.page, o)
    BY <1>1, ProgramPages
  <2> QED
    BY <1>1, <2>1, <2>2 DEF Offsets
<1>4. IsLastWord(TheWord)
  <2>1. job.k \in Int /\ LenOf(job.tag) \in Int
    BY TagsAreApart DEF JobFits, Begun
  <2> QED
    BY <2>1 DEF IsLast, IsLastWord, TheWord, Word
<1>5. SUFFICES ASSUME NEW o \in Offsets, InUse(WithWord, job.page, o), ~IsLastWord(WithWord[Addr(job.page, o)]),
                      \A p \in Offsets : o < p => ~InUse(WithWord, job.page, p)
               PROVE  FALSE
  BY DEF TornPage, CutShort
<1>6. o \in Nat /\ o < Offset + 1 /\ InUse(WithWord, job.page, Offset)
  BY <1>1, <1>3, <1>5 DEF Offsets
<1>7. o = Offset
  BY <1>1, <1>5, <1>6
<1> QED
  BY <1>2, <1>4, <1>5, <1>7

LEMMA RecordWrittenGentle ==
  ASSUME IInv, GentleInv, RecordWritten
  PROVE  GentleInv'
<1>1. /\ pc = "append" /\ CanProgram /\ IsLast
      /\ flash' = WithWord /\ append_point' = Advanced /\ values' = [values EXCEPT ![job.tag] = job.val]
      /\ page_seq' = page_seq /\ free_pages' = free_pages /\ pc' = "ready" /\ count' = count
  BY DEF RecordWritten
<1>2. /\ JobFits /\ JobIsLast /\ FlashInv /\ FilledInv /\ count \in Nat
      /\ SessionInv /\ values \in [Tags -> {0} \cup done]
  BY <1>1, JobFitsWhile, JobIsLastWhile DEF IInv, Types, GentleInv
<1>3. /\ FilledInv' /\ Gapless(flash')
      /\ \A s \in Sectors : TornPage(flash', s) => s = job.page
  BY <1>1, <1>2, ProgramFilled
<1>4. /\ job.tag \in Tags /\ job.val = count /\ job.page = Newest /\ DOMAIN page_seq # {}
  BY <1>1, RecordIsNewest
<1>5. Live /\ LastBegun = Newest /\ LastBegun' = Newest
  BY <1>1, <1>4 DEF Live, LastBegun, Newest
<1>6. \A s \in Sectors : ~TornPage(flash', s)
  BY <1>1, <1>2, <1>3, ProgramWhole
<1>7. \A t \in Tags : IsLatest(flash', t, values'[t])
  <2> TAKE t \in Tags
  <2>1. IsLatest(flash, t, values[t])
    BY <1>2, <1>5 DEF SessionInv
  <2>2. values'[t] = IF t = job.tag THEN count ELSE values[t]
    BY <1>1, <1>2, <1>4
  <2> QED
    BY <1>1, <1>2, <1>4, <2>1, <2>2, LatestPut
<1>8. \A s \in Sectors : s > LastBegun' => append_point'[s] = 0
  <2> TAKE s \in Sectors
  <2> HAVE s > LastBegun'
  <2>1. Newest \in Nat
    BY <1>4, NewestIsSector, SectorsFinite DEF IInv
  <2>2. s # job.page /\ s > LastBegun
    BY <1>4, <1>5, <2>1
  <2>3. append_point'[s] = append_point[s]
    BY <1>1, <1>2, <2>2, AdvancedRam
  <2> QED
    BY <1>2, <1>5, <2>2, <2>3 DEF SessionInv
<1>9. SessionInv'
  BY <1>1, <1>2, <1>3, <1>5, <1>6, <1>7, <1>8 DEF SessionInv
<1> QED
  BY <1>1, <1>3, <1>4, <1>9 DEF GentleInv, BegunInv, FreshInv, BlankInv, WipeInv

LEMMA HeaderWrittenGentle ==
  ASSUME IInv, IInv', CountInv', GentleInv, HeaderWritten
  PROVE  GentleInv' /\ pc' = "append"
<1>1. /\ pc = "header" /\ CanProgram /\ IsLast
      /\ flash' = WithWord /\ append_point' = Advanced /\ values' = values
      /\ page_seq' = Updated(page_seq, [n \in {job.val} |-> job.page])
      /\ free_pages' = free_pages /\ count' = count
      /\ \/ pc' = "reclaim"
         \/ DoSave(job.page, job.then, count, HasRoom(Offset + 1, RecordLen[job.then]))
  BY DEF HeaderWritten
<1>2. /\ JobFits /\ JobIsLast /\ FlashInv /\ FilledInv /\ count \in Nat /\ SessionInv
  BY <1>1, JobFitsWhile, JobIsLastWhile DEF IInv, Types, GentleInv
<1>3. /\ FilledInv' /\ Gapless(flash')
      /\ \A s \in Sectors : TornPage(flash', s) => s = job.page
      /\ \A s \in Sectors : HasHeader(flash', s) => s <= job.page
  BY <1>1, <1>2, ProgramFilled
<1>4. /\ job.page = Newest + 1 /\ append_point[job.page] = job.k /\ job.tag = "header" /\ job.then \in Tags
      /\ DOMAIN page_seq # {}
  BY <1>1 DEF GentleInv, BegunInv, IInv, HeaderInv
<1>5. Offset = HeaderLen - 1 /\ Offset + 1 = HeaderLen /\ Offset \in Nat /\ job.page \in Sectors
  <2>1. job.k \in Nat /\ job.k + 1 = HeaderLen /\ Offset = job.k
    BY <1>1, <1>2, <1>4, TagsAreApart DEF IsLast, JobFits, Begun, Offset
  <2> QED
    BY <1>1, <1>2, <2>1, Sizes, ProgramPlace
<1>6. pc' = "append" /\ job'.page = job.page
  <2>1. HasRoom(Offset + 1, RecordLen[job.then])
    BY <1>4, <1>5, Sizes DEF HasRoom
  <2>2. /\ pc' = "append"
        /\ job' = [NoJob EXCEPT !.page = job.page, !.tag = job.then, !.val = count]
    BY <1>1, <2>1 DEF CountInv, DoSave
  <2> QED
    BY <2>2 DEF NoJob
<1>7. Live'
  <2>1. job.val \in DOMAIN page_seq'
    BY <1>1 DEF Updated
  <2> QED
    BY <1>6, <2>1 DEF Live
<1>8. Newest' = job.page
  <2>1. Newest' \in Sectors /\ HasHeader(flash', Newest') /\ \A s \in Sectors : HasHeader(flash', s) => s <= Newest'
    BY <1>3, <1>6, <1>7, NewestTopNext DEF NewestIsTop
  <2>2. HasHeader(flash', job.page)
    BY <1>1, <1>2, <1>5, ProgramHeaders
  <2>3. Newest' <= job.page /\ job.page <= Newest' /\ Newest' \in Nat /\ job.page \in Nat
    BY <1>3, <1>5, <2>1, <2>2, SectorsFinite
  <2> QED
    BY <2>3
<1>9. LastBegun = job.page /\ LastBegun' = job.page /\ Live
  BY <1>1, <1>4, <1>6, <1>8 DEF LastBegun, Live
<1>10. \A t \in Tags : IsLatest(flash', t, values'[t])
  BY <1>1, <1>2, <1>4, <1>9, LatestKept DEF SessionInv
<1>11. \A s \in Sectors : s > LastBegun' => append_point'[s] = 0
  <2> TAKE s \in Sectors
  <2> HAVE s > LastBegun'
  <2>1. s # job.page /\ s > LastBegun
    BY <1>5, <1>9, SectorsFinite
  <2>2. append_point'[s] = append_point[s]
    BY <1>1, <1>2, <2>1, AdvancedRam
  <2> QED
    BY <1>2, <1>9, <2>1, <2>2 DEF SessionInv
<1>12. SessionInv'
  BY <1>1, <1>2, <1>3, <1>6, <1>9, <1>10, <1>11 DEF SessionInv
<1> QED
  BY <1>3, <1>6, <1>12 DEF GentleInv, BegunInv, FreshInv, BlankInv, WipeInv

-----------------------------------------------------------------------------
(* What a load finds in the filled pages.                                   *)

LEMMA SortedFrom ==
  ASSUME NEW a \in Nat, a <= NSECTORS
  PROVE  LET q == Sorted(a..(NSECTORS - 1))
         IN /\ Len(q) = NSECTORS - a /\ DOMAIN q = 1..(NSECTORS - a)
            /\ \A i \in DOMAIN q : q[i] = a + i - 1
<1> DEFINE S == a..(NSECTORS - 1)
           Q == Sorted(S)
<1>1. S \in SUBSET Sectors /\ S \in SUBSET Nat /\ IsFiniteSet(S) /\ Cardinality(S) = NSECTORS - a
  BY Sizes, FS_Interval DEF Sectors
<1>2. /\ Q \in Seq(S) /\ Len(Q) = NSECTORS - a /\ DOMAIN Q = 1..(NSECTORS - a)
  <2> HIDE DEF S
  <2> QED
    BY <1>1, SortedIs
<1>3. \A x \in S : Rank(S, x) = x - a
  <2> TAKE x \in S
  <2>1. Below(S, x) = a..(x - 1) /\ x \in Nat /\ x >= a
    BY Sizes DEF Below
  <2>2. Cardinality(a..(x - 1)) = x - a
    <3>1. Cardinality(a..(x - 1)) = IF a > x - 1 THEN 0 ELSE (x - 1) - a + 1
      BY <2>1, FS_Interval
    <3> QED
      BY <2>1, <3>1
  <2> QED
    BY <2>1, <2>2 DEF Rank
<1>4. \A i \in 1..(NSECTORS - a) : Q[i] = a + i - 1
  <2> TAKE i \in 1..(NSECTORS - a)
  <2>1. Q[i] = CHOOSE x \in S : Rank(S, x) = i - 1
    BY <1>1 DEF Sorted, Rank, Below
  <2>2. a + i - 1 \in S /\ (a + i - 1) - a = i - 1
    BY Sizes
  <2> HIDE DEF S, Q
  <2>3. \E x \in S : Rank(S, x) = i - 1
    BY <1>3, <2>2
  <2>4. Q[i] \in S /\ Rank(S, Q[i]) = i - 1
    BY <2>1, <2>3
  <2>5. Q[i] - a = i - 1 /\ Q[i] \in Nat
    BY <1>1, <1>3, <2>4
  <2> QED
    BY <2>5
<1> QED
  BY <1>2, <1>4

(* The pages without a header are those after the last one with a header.   *)
LEMMA UnheaderedRest ==
  ASSUME NEW f, NEW a \in Nat, a <= NSECTORS, \A s \in Sectors : HasHeader(f, s) <=> s < a
  PROVE  LET q == Unheadered(f, NSECTORS)
         IN /\ Len(q) = NSECTORS - a /\ DOMAIN q = 1..(NSECTORS - a)
            /\ \A i \in DOMAIN q : q[i] = a + i - 1
<1>1. {s \in 0..(NSECTORS - 1) : ~HasHeader(f, s)} = a..(NSECTORS - 1)
  BY Sizes DEF Sectors
<1>2. Unheadered(f, NSECTORS) = Sorted(a..(NSECTORS - 1))
  BY <1>1 DEF Unheadered
<1> QED
  BY <1>2, SortedFrom

LEMMA UpdatedAll ==
  ASSUME NEW old, NEW new, IsMap(new), DOMAIN old \subseteq DOMAIN new
  PROVE  Updated(old, new) = new
<1>1. DOMAIN old \cup DOMAIN new = DOMAIN new
  OBVIOUS
<1>2. Updated(old, new) = [n \in DOMAIN new |-> new[n]]
  BY <1>1 DEF Updated
<1>3. new = [n \in DOMAIN new |-> new[n]]
  BY DEF IsMap
<1> QED
  BY <1>2, <1>3

ReadsRight ==
  /\ (\E n \in DOMAIN Reads : Reads[n].how # "end") <=> AnyTorn(flash)
  /\ \A t \in Tags : IsLatest(flash, t, LastValue(Reads, t, 0))

LEMMA ReadsAreRight == IInv /\ FilledInv => ReadsRight
BY ReadsAre DEF ReadsRight

LEMMA ReadsAreNext == (IInv /\ FilledInv)' => ReadsRight'
BY ReadsAreRight, PTL

(* Values of what do_load has read, or an exception at the torn page.       *)
LEMMA LoadReads ==
  ASSUME IInv', FilledInv', NEW try, values = Nothing, count' = count, done' = done,
         page_seq' = Headered(flash', NSECTORS), ReadPages(flash', page_seq', try)
  PROVE  \/ /\ pc' = "ready" /\ ~AnyTorn(flash')
            /\ \A t \in Tags : IsLatest(flash', t, values'[t])
            /\ \A s \in Sectors : ~HasHeader(flash', s) => append_point'[s] = append_point[s]
         \/ /\ AnyTorn(flash') /\ (pc' = "halted" \/ (pc' = "wiping" /\ todo' = Sorted(Sectors)))
<1> DEFINE seq == page_seq'
           reads == [n \in DOMAIN seq |-> PageRead(flash', seq[n])]
           bad == {n \in DOMAIN seq : reads[n].how # "end"}
           endOf(s) == reads[Largest({n \in DOMAIN seq : seq[n] = s})].at - Addr(s, 0)
<1>1. reads = Reads'
  BY DEF Reads
<1>2. /\ bad # {} <=> AnyTorn(flash')
      /\ \A t \in Tags : IsLatest(flash', t, LastValue(reads, t, 0))
  BY <1>1, ReadsAreNext DEF ReadsRight
<1>3. CASE bad = {}
  <2>1. /\ append_point' = [s \in Sectors |->
             IF \E n \in DOMAIN seq : seq[n] = s THEN endOf(s) ELSE append_point[s]]
        /\ values' = [t \in Tags |-> LastValue(reads, t, values[t])] /\ pc' = "ready"
    BY <1>3 DEF ReadPages
  <2>2. \A n \in DOMAIN seq : HasHeader(flash', seq[n])
    <3>1. WellFormed(flash') /\ SerialsDiffer(flash')
      <4>1. (Types /\ FlashInv)' => (WellFormed(flash) /\ SerialsDiffer(flash) /\ done \subseteq Nat)'
        BY FlashIsWellFormed, PTL
      <4> QED
        BY <4>1 DEF IInv, WellFormed
    <3> QED
      BY <3>1, HeaderedIs
  <2>3. \A t \in Tags : IsLatest(flash', t, values'[t])
    BY <1>2, <2>1 DEF Nothing
  <2>4. \A s \in Sectors : ~HasHeader(flash', s) => append_point'[s] = append_point[s]
    BY <2>1, <2>2
  <2> QED
    BY <1>2, <1>3, <2>1, <2>3, <2>4
<1>4. CASE bad # {}
  <2>1. IF reads[Least(bad)].how = "unknown_tag" THEN Halt("unknown_tag") ELSE LoadThrows(try)
    BY <1>4 DEF ReadPages
  <2>2. pc' = "halted" \/ (pc' = "wiping" /\ todo' = Sorted(Sectors))
    BY <2>1 DEF Halt, LoadThrows
  <2> QED
    BY <1>2, <1>4, <2>2
<1> QED
  BY <1>3, <1>4

(* The session that a load without an exception begins.                     *)
LEMMA LoadedSession ==
  ASSUME IInv', FilledInv', pc' = "ready", DOMAIN page_seq' # {}, ~AnyTorn(flash'),
         \A t \in Tags : IsLatest(flash', t, values'[t]),
         \A s \in Sectors : ~HasHeader(flash', s) => append_point'[s] = 0,
         \A m \in Sectors : (\A s \in Sectors : HasHeader(flash', s) <=> s <= m) =>
           /\ Len(free_pages') >= NSECTORS - 1 - m
           /\ \A i \in DOMAIN free_pages' : i < NSECTORS - m => free_pages'[i] = m + i
  PROVE  SessionInv'
<1>1. Live' /\ LastBegun' = Newest'
  BY DEF Live, LastBegun
<1>2. /\ Newest' \in Sectors /\ HasHeader(flash', Newest')
      /\ \A s \in Sectors : HasHeader(flash', s) => s <= Newest'
  BY <1>1, NewestTopNext DEF NewestIsTop
<1>3. Gapless(flash') /\ \A s \in Sectors : ~TornPage(flash', s)
  BY DEF FilledInv, Filled, AnyTorn
<1>4. \A s \in Sectors : HasHeader(flash', s) <=> s <= Newest'
  <2> TAKE s \in Sectors
  <2>1. s \in Nat /\ Newest' \in Nat
    BY <1>2, SectorsFinite
  <2>2. s < Newest' => HasHeader(flash', s)
    BY <1>2, <1>3 DEF Gapless
  <2> QED
    BY <1>2, <2>1, <2>2
<1>5. \A s \in Sectors : s > Newest' => append_point'[s] = 0
  <2> TAKE s \in Sectors
  <2>1. s \in Nat /\ Newest' \in Nat
    BY <1>2, SectorsFinite
  <2> QED
    BY <1>4, <2>1
<1> QED
  BY <1>1, <1>2, <1>3, <1>4, <1>5 DEF SessionInv

(* A flash that has not changed is filled as before.                        *)
LEMMA SameFilled ==
  ASSUME FilledInv, flash' = flash, count \in Nat, count' \in Nat, count <= count'
  PROVE  FilledInv'
<1>1. \A s \in Sectors : InUse(flash, s, 0) => s = 0 \/ s < count'
  <2> TAKE s \in Sectors
  <2>1. s \in Nat
    BY SectorsFinite
  <2> QED
    BY <2>1 DEF FilledInv, Filled
<1> QED
  BY <1>1 DEF FilledInv, Filled, Spoiled

LEMMA PowerOnGentle ==
  ASSUME IInv, IInv', GentleInv, PowerOn
  PROVE  GentleInv' /\ (pc' \in {"wiping", "halted"} => AnyTorn(flash))
<1> DEFINE on == Headered(flash, NSECTORS)
           free == Unheadered(flash, NSECTORS)
<1>1. /\ pc = "off" /\ DoLoad(flash, 1) /\ flash' = flash /\ count' = count /\ done' = done
      /\ page_seq = NoPages /\ values = Nothing /\ FilledInv /\ count \in Nat
      /\ \A s \in Sectors : append_point[s] = 0
  BY DEF PowerOn, IInv, OffInv, GentleInv, Types
<1>2. free_pages = << >>
  BY <1>1 DEF IInv, Types
<1>3. FilledInv'
  BY <1>1, SameFilled
<1>4. WellFormed(flash) /\ SerialsDiffer(flash)
  BY FlashIsWellFormed DEF IInv
<1>5. /\ IsMap(on)
      /\ \A n \in DOMAIN on : HasHeader(flash, on[n]) /\ on[n] \in Sectors
      /\ \A s \in Sectors : HasHeader(flash, s) => Serial(flash, s) \in DOMAIN on
  BY <1>4, HeaderedIs DEF IsMap
<1>6. free \in Seq(Sectors)
  BY UnheaderedIs
<1>7. Updated(page_seq, on) = on /\ free_pages \o free = free
  <2>1. DOMAIN page_seq \subseteq DOMAIN on
    BY <1>1, NoPagesIsMap
  <2> HIDE DEF on, free
  <2> QED
    BY <1>2, <1>5, <1>6, <2>1, UpdatedAll
<1>8. /\ page_seq' = on
      /\ DOMAIN on # {} => free_pages' = free /\ ReadPages(flash, on, 1)
      /\ DOMAIN on = {} => free_pages' = Tail(free) /\ pc' = "first" /\ values' = values
  <2>1. LET seq == Updated(page_seq, on)
        IN /\ page_seq' = seq
           /\ DOMAIN seq # {} => free_pages' = free_pages \o free /\ ReadPages(flash, seq, 1)
           /\ DOMAIN seq = {} => free_pages' = Tail(free_pages \o free) /\ pc' = "first" /\ values' = values
    <3>1. free_pages \o Unheadered(flash, NSECTORS) = free_pages \o free
      OBVIOUS
    <3> QED
      BY <1>1, <1>4, DoLoadIs, Zenon
  <2> HIDE DEF on, free
  <2> QED
    BY <1>7, <2>1
<1>9. CASE DOMAIN on = {}
  <2>1. \A s \in Sectors : HasHeader(flash, s) <=> s < 0
    BY <1>5, <1>9, SectorsFinite
  <2>2. Len(free) = NSECTORS /\ DOMAIN free = 1..NSECTORS /\ \A i \in DOMAIN free : free[i] = i - 1
    <3>1. Len(free) = NSECTORS - 0 /\ DOMAIN free = 1..(NSECTORS - 0) /\ \A i \in DOMAIN free : free[i] = 0 + i - 1
      BY <2>1, Sizes, UnheaderedRest
    <3> HIDE DEF free
    <3> QED
      BY <3>1, Sizes
  <2>3. Len(free_pages') = NSECTORS - 1 /\ \A i \in DOMAIN free_pages' : free_pages'[i] = i
    <3>1. free # << >> /\ free_pages' = Tail(free)
      BY <1>8, <1>9, <2>2, Sizes
    <3>2. Len(Tail(free)) = Len(free) - 1 /\ DOMAIN Tail(free) = 1..Len(Tail(free))
          /\ \A i \in DOMAIN Tail(free) : i + 1 \in DOMAIN free /\ Tail(free)[i] = free[i + 1]
      <4> HIDE DEF free
      <4> QED
        BY <1>6, <3>1, TailIs
    <3> HIDE DEF free
    <3> QED
      BY <2>2, <3>1, <3>2, Sizes
  <2> QED
    BY <1>1, <1>3, <1>8, <1>9, <2>3 DEF GentleInv, FreshInv, SessionInv, Live, BegunInv, BlankInv, WipeInv
<1>10. CASE DOMAIN on # {}
  <2>1. ReadPages(flash', page_seq', 1) /\ page_seq' = Headered(flash', NSECTORS) /\ free_pages' = free
    BY <1>1, <1>8, <1>10
  <2>2. \/ /\ pc' = "ready" /\ ~AnyTorn(flash')
           /\ \A t \in Tags : IsLatest(flash', t, values'[t])
           /\ \A s \in Sectors : ~HasHeader(flash', s) => append_point'[s] = append_point[s]
        \/ /\ AnyTorn(flash') /\ (pc' = "halted" \/ (pc' = "wiping" /\ todo' = Sorted(Sectors)))
    BY <1>1, <1>3, <2>1, LoadReads
  <2>3. CASE pc' = "ready"
    <3>1. ~AnyTorn(flash') /\ (\A t \in Tags : IsLatest(flash', t, values'[t]))
          /\ \A s \in Sectors : ~HasHeader(flash', s) => append_point'[s] = append_point[s]
      BY <2>2, <2>3
    <3>2. \A s \in Sectors : ~HasHeader(flash', s) => append_point'[s] = 0
      BY <1>1, <3>1
    <3>3. ASSUME NEW m \in Sectors, \A s \in Sectors : HasHeader(flash', s) <=> s <= m
          PROVE  /\ Len(free_pages') >= NSECTORS - 1 - m
                 /\ \A i \in DOMAIN free_pages' : i < NSECTORS - m => free_pages'[i] = m + i
      <4>1. m + 1 \in Nat /\ m + 1 <= NSECTORS /\ m \in Nat
        BY Sizes DEF Sectors
      <4>2. \A s \in Sectors : HasHeader(flash, s) <=> s < m + 1
        BY <1>1, <3>3, <4>1, SectorsFinite
      <4>3. Len(free) = NSECTORS - (m + 1) /\ DOMAIN free = 1..(NSECTORS - (m + 1))
            /\ \A i \in DOMAIN free : free[i] = (m + 1) + i - 1
        BY <4>1, <4>2, UnheaderedRest
      <4> HIDE DEF free
      <4> QED
        BY <2>1, <4>1, <4>3, Sizes
    <3>4. DOMAIN page_seq' # {}
      BY <1>8, <1>10
    <3>5. SessionInv'
      BY <1>3, <2>3, <3>1, <3>2, <3>3, <3>4, LoadedSession
    <3> QED
      BY <1>3, <2>3, <3>4, <3>5 DEF GentleInv, FreshInv, BegunInv, BlankInv, WipeInv
  <2>4. CASE pc' = "halted"
    BY <1>1, <1>3, <2>2, <2>4 DEF GentleInv, FreshInv, SessionInv, Live, BegunInv, BlankInv, WipeInv
  <2>5. CASE pc' = "wiping"
    <3>1. AnyTorn(flash') /\ todo' = Sorted(0..(NSECTORS - 1))
      BY <2>2, <2>5 DEF Sectors
    <3>2. Len(todo') = NSECTORS /\ DOMAIN todo' = 1..NSECTORS /\ \A i \in DOMAIN todo' : todo'[i] = i - 1
      <4>1. Len(todo') = NSECTORS - 0 /\ DOMAIN todo' = 1..(NSECTORS - 0)
            /\ \A i \in DOMAIN todo' : todo'[i] = 0 + i - 1
        BY <3>1, Sizes, SortedFrom
      <4> QED
        BY <4>1, Sizes
    <3>3. WipeInv'
      <4>1. \A i \in DOMAIN todo' : todo'[i] = NSECTORS - Len(todo') + i - 1
        BY <3>2, Sizes
      <4>2. \A s \in Sectors : ~(s < NSECTORS - Len(todo'))
        BY <3>2, Sizes, SectorsFinite
      <4> QED
        BY <3>1, <4>1, <4>2 DEF WipeInv
    <3> QED
      BY <1>1, <1>3, <2>5, <3>1, <3>3 DEF GentleInv, FreshInv, SessionInv, Live, BegunInv, BlankInv
  <2> QED
    BY <2>2, <2>3, <2>4, <2>5
<1> QED
  BY <1>9, <1>10

LEMMA FirstWrittenGentle ==
  ASSUME IInv, IInv', GentleInv, FirstWritten
  PROVE  GentleInv' /\ pc' = "ready" /\ ~AnyTorn(flash')
<1> DEFINE one == [n \in {job.page} |-> job.page]
           on == Headered(WithWord, NSECTORS)
           free == Unheadered(WithWord, NSECTORS)
           put == Updated(page_seq, one)
           seq == Updated(put, on)
<1>1. /\ pc = "first" /\ CanProgram /\ IsLast /\ flash' = WithWord /\ count' = count /\ done' = done
  BY DEF FirstWritten
<1>2. /\ page_seq = NoPages /\ job.page = 0 /\ job.tag = "header" /\ job.val = 0
      /\ \A s \in Sectors : ~HasHeader(flash, s)
      /\ \A s \in Sectors \ {0} : append_point[s] = 0
      /\ append_point[0] = job.k
  BY <1>1 DEF IInv, FirstInv
<1>3. /\ JobFits /\ JobIsLast /\ FlashInv /\ FilledInv /\ count \in Nat
      /\ values = Nothing /\ Len(free_pages) = NSECTORS - 1 /\ free_pages \in Seq(Sectors)
      /\ \A i \in DOMAIN free_pages : free_pages[i] = i
  BY <1>1, JobFitsWhile, JobIsLastWhile DEF IInv, Types, GentleInv, FreshInv
<1>4. FilledInv' /\ ~AnyTorn(flash')
  <2>1. FilledInv' /\ \A s \in Sectors : TornPage(flash', s) => s = job.page
    BY <1>1, <1>3, ProgramFilled
  <2>2. ~TornPage(flash', job.page)
    BY <1>1, <1>3, ProgramWhole
  <2> QED
    BY <2>1, <2>2 DEF AnyTorn
<1>5. Offset = HeaderLen - 1 /\ 0 \in Sectors
  <2>1. job.k \in Nat /\ job.k + 1 = HeaderLen
    BY <1>1, <1>2, <1>3, TagsAreApart DEF JobFits, Begun, IsLast
  <2> QED
    BY <1>2, <2>1, SectorsFinite, Sizes DEF Offset
<1>6. /\ \A s \in Sectors : HasHeader(WithWord, s) <=> s = 0
      /\ Serial(WithWord, 0) = 0
  BY <1>1, <1>2, <1>3, <1>5, ProgramHeaders
<1>7. WellFormed(WithWord) /\ SerialsDiffer(WithWord)
  BY <1>1 DEF IInv, FlashInv, WellFormed
<1>8. ScanStop(WithWord) = NSECTORS /\ ~(NSECTORS < NSECTORS)
  BY <1>7, ScanFindsNoOtherTag, Sizes
<1>9. page_seq' = seq /\ free_pages' = free_pages \o free /\ ReadPages(WithWord, seq, job.try)
  BY <1>8 DEF FirstWritten
<1>10. /\ IsMap(on) /\ 0 \in DOMAIN on
  BY <1>5, <1>6, <1>7, HeaderedIs
<1>11. seq = on
  <2>1. DOMAIN put \subseteq DOMAIN on
    <3>1. DOMAIN put = {0}
      BY <1>2, NoPagesIsMap DEF Updated
    <3> HIDE DEF on, put
    <3> QED
      BY <1>10, <3>1
  <2> HIDE DEF on, put
  <2> QED
    BY <1>10, <2>1, UpdatedAll
<1>12. /\ page_seq' = Headered(flash', NSECTORS) /\ ReadPages(flash', page_seq', job.try)
  BY <1>1, <1>9, <1>11
<1>13. /\ pc' = "ready" /\ \A t \in Tags : IsLatest(flash', t, values'[t])
       /\ \A s \in Sectors : ~HasHeader(flash', s) => append_point'[s] = append_point[s]
  BY <1>1, <1>3, <1>4, <1>12, LoadReads
<1>14. \A s \in Sectors : ~HasHeader(flash', s) => append_point'[s] = 0
  BY <1>1, <1>2, <1>6, <1>13
<1>15. ASSUME NEW m \in Sectors, \A s \in Sectors : HasHeader(flash', s) <=> s <= m
       PROVE  /\ Len(free_pages') >= NSECTORS - 1 - m
              /\ \A i \in DOMAIN free_pages' : i < NSECTORS - m => free_pages'[i] = m + i
  <2>1. m = 0
    <3>1. m \in Nat
      BY SectorsFinite
    <3>2. HasHeader(flash', m)
      BY <1>15, <3>1
    <3> QED
      BY <1>1, <1>6, <3>2
  <2>2. free \in Seq(Sectors)
    BY UnheaderedIs
  <2> HIDE DEF free
  <2>3. /\ Len(free_pages \o free) = Len(free_pages) + Len(free) /\ Len(free) \in Nat
        /\ free_pages \o free \in Seq(Sectors)
        /\ \A i \in DOMAIN (free_pages \o free) :
             \/ i \in DOMAIN free_pages /\ (free_pages \o free)[i] = free_pages[i]
             \/ i - Len(free_pages) \in DOMAIN free /\ (free_pages \o free)[i] = free[i - Len(free_pages)]
    <3>1. Len(free) \in Nat
      BY <2>2
    <3> QED
      BY <1>3, <2>2, <3>1, ConcatIs, Zenon
  <2>4. \A i \in DOMAIN free_pages' : i < NSECTORS => free_pages'[i] = i
    <3> TAKE i \in DOMAIN free_pages'
    <3> HAVE i < NSECTORS
    <3>1. i \in Nat /\ ~(i - Len(free_pages) \in DOMAIN free)
      BY <1>3, <1>9, <2>2, <2>3, Sizes
    <3> QED
      BY <1>3, <1>9, <2>3, <3>1
  <2> QED
    BY <1>3, <1>9, <2>1, <2>3, <2>4, Sizes
<1>16. DOMAIN page_seq' # {}
  BY <1>9, <1>10, <1>11
<1>17. SessionInv'
  BY <1>4, <1>13, <1>14, <1>15, <1>16, LoadedSession
<1>18. GentleInv'
  BY <1>4, <1>13, <1>16, <1>17 DEF GentleInv, FreshInv, BegunInv, BlankInv, WipeInv
<1> QED
  BY <1>4, <1>13, <1>18

LEMMA PowerOffGentle ==
  ASSUME IInv, GentleInv, PowerOff
  PROVE  GentleInv'
<1>1. /\ flash' = flash /\ count' = count /\ pc' = "off" /\ values' = Nothing
      /\ FilledInv /\ count \in Nat
  BY DEF PowerOff, GentleInv, IInv, Types
<1>2. FilledInv'
  BY <1>1, SameFilled
<1> QED
  BY <1>1, <1>2 DEF GentleInv, SessionInv, Live, FreshInv, BegunInv, BlankInv, WipeInv

(* A page that has been begun and has no header stops in the middle of it.  *)
LEMMA BegunIsTorn ==
  ASSUME FlashInv, FilledInv, NEW s \in Sectors, InUse(flash, s, 0), ~HasHeader(flash, s)
  PROVE  Torn
<1> DEFINE Missing == {o \in 0..(HeaderLen - 1) : ~InUse(flash, s, o)}
<1>1. PICK o \in Missing : \A p \in Missing : o <= p
  <2>1. Missing # {} /\ Missing \subseteq Nat
    BY HasHeaderIs
  <2> HIDE DEF Missing
  <2> QED
    BY <2>1, LeastNumber
<1>2. o \in 1..(HeaderLen - 1) /\ ~InUse(flash, s, o) /\ o - 1 \in Offsets /\ o \in Offsets
  BY <1>1, Sizes DEF Offsets
<1>3. InUse(flash, s, o - 1)
  <2>1. o - 1 \notin Missing /\ o - 1 \in 0..(HeaderLen - 1)
    <3>1. o - 1 \in Int /\ o \in Int /\ ~(o <= o - 1)
      BY <1>2
    <3> HIDE DEF Missing
    <3> QED
      BY <1>1, <1>2, <3>1, Sizes
  <2> QED
    BY <2>1
<1> HIDE DEF Missing
<1>4. Placed(flash, s) /\ FlashType(flash, count)
  BY DEF FlashInv
<1>5. /\ flash[Addr(s, o - 1)].tag = "header" /\ flash[Addr(s, o - 1)].k = o - 1
  BY <1>2, <1>3, <1>4, Sizes DEF Placed
<1>6. /\ Addr(s, o - 1) \in Area /\ Addr(s, o - 1) + 1 = Addr(s, o)
  <2>1. Addr(s, o - 1) + 1 = Addr(s, (o - 1) + 1) /\ (o - 1) + 1 = o
    BY <1>2, AddrSum
  <2> QED
    BY <1>2, <2>1, AddrBounds DEF Offsets
<1>7. flash[Addr(s, o)] # [flash[Addr(s, o - 1)] EXCEPT !.k = @ + 1]
  <2>1. flash[Addr(s, o)] = Erased
    BY <1>2 DEF InUse
  <2>2. [flash[Addr(s, o - 1)] EXCEPT !.k = @ + 1].tag = "header"
    <3>1. flash[Addr(s, o - 1)] = [tag |-> flash[Addr(s, o - 1)].tag, val |-> flash[Addr(s, o - 1)].val, k |-> flash[Addr(s, o - 1)].k]
      BY <1>2, <1>4, CellType
    <3> QED
      BY <1>5, <3>1
  <2> QED
    BY <2>1, <2>2, TagsAreApart DEF Erased
<1>8. flash[Addr(s, o - 1)].k < LenOf(flash[Addr(s, o - 1)].tag) - 1
  BY <1>2, <1>5, TagsAreApart
<1> QED
  BY <1>3, <1>6, <1>7, <1>8 DEF Torn, InUse

(* A torn page does so in the middle of a record.                           *)
LEMMA TornIsTorn ==
  ASSUME FlashInv, FilledInv, AnyTorn(flash)
  PROVE  Torn
<1>1. PICK s \in Sectors, o \in Offsets :
        /\ InUse(flash, s, o) /\ ~IsLastWord(flash[Addr(s, o)])
        /\ \A p \in Offsets : o < p => ~InUse(flash, s, p)
  BY DEF AnyTorn, TornPage, CutShort
<1>2. Placed(flash, s) /\ FlashType(flash, count)
  BY DEF FlashInv
<1> DEFINE w == flash[Addr(s, o)]
<1>3. /\ w = [tag |-> w.tag, val |-> w.val, k |-> w.k] /\ w.tag \in Tags \cup {"header"}
      /\ w.k \in 0..(LenOf(w.tag) - 1) /\ w # Erased
  BY <1>1, <1>2, CellType DEF InUse
<1>4. w.k < LenOf(w.tag) - 1
  BY <1>1, <1>3, TagsAreApart DEF IsLastWord
<1>5. o + 1 \in Offsets
  <2>1. CASE w.tag \in Tags
    <3>1. o - w.k + LenOf(w.tag) < PAGE_SIZE
      BY <1>1, <1>2, <2>1 DEF Placed
    <3> QED
      BY <1>3, <1>4, <3>1, TagsAreApart, Sizes DEF Offsets
  <2>2. CASE w.tag = "header"
    <3>1. o < HeaderLen
      <4>1. o >= HeaderLen => o \in HeaderLen..(PAGE_SIZE - 1)
        BY Sizes DEF Offsets
      <4>2. ~(o \in HeaderLen..(PAGE_SIZE - 1))
        BY <2>2 DEF FilledInv, Spoiled
      <4> QED
        BY <4>1, <4>2, Sizes DEF Offsets
    <3>2. w.k = o
      BY <1>1, <1>2, <3>1 DEF Placed
    <3> QED
      BY <1>4, <2>2, <3>2, TagsAreApart, Sizes DEF Offsets
  <2> QED
    BY <1>3, <2>1, <2>2
<1>6. /\ Addr(s, o) \in Area /\ Addr(s, o) + 1 = Addr(s, o + 1)
  <2>1. o \in Int /\ 1 \in Int /\ o \in Nat
    BY DEF Offsets
  <2> QED
    BY <2>1, AddrSum, AddrBounds
<1>7. flash[Addr(s, o) + 1] # [w EXCEPT !.k = @ + 1]
  <2>1. o < o + 1
    BY DEF Offsets
  <2>2. flash[Addr(s, o + 1)] = Erased
    BY <1>1, <1>5, <2>1 DEF InUse
  <2>3. [w EXCEPT !.k = @ + 1].tag = w.tag
    <3> HIDE DEF w
    <3> QED
      BY <1>3
  <2> HIDE DEF w
  <2> QED
    BY <1>3, <1>6, <2>2, <2>3, TagsAreApart DEF Erased
<1> QED
  BY <1>3, <1>4, <1>6, <1>7 DEF Torn

LEMMA SaveGentle ==
  ASSUME Gentle, IInv, CountInv, GentleInv, NEW t \in Tags, Save(t)
  PROVE  /\ GentleInv' /\ flash' = flash /\ values' = values
         /\ \/ pc' \in {"header", "append"}
            \/ pc' = "halted" /\ Torn
<1>1. /\ pc = "ready" /\ count < MaxSaves /\ count' = count + 1
      /\ flash' = flash /\ append_point' = append_point /\ page_seq' = page_seq /\ values' = values
      /\ FilledInv /\ FlashInv /\ SessionInv /\ BlankInv
      /\ count \in Nat /\ free_pages \in Seq(Sectors) /\ MaxSaves \in Nat /\ 2 * MaxSaves <= NSECTORS
  BY Sizes DEF Save, GentleInv, IInv, Types, Gentle
<1>2. FilledInv'
  BY <1>1, SameFilled
<1>3. CASE DOMAIN page_seq = {}
  <2>1. pc' = "halted"
    BY <1>3 DEF Save, Halt
  <2>2. Torn
    <3>1. 0 \in Sectors /\ InUse(flash, 0, 0) /\ ~HasHeader(flash, 0)
      BY <1>1, <1>3, SectorsFinite DEF BlankInv
    <3> QED
      BY <1>1, <3>1, BegunIsTorn
  <2> QED
    BY <1>1, <1>2, <2>1, <2>2 DEF GentleInv, SessionInv, Live, FreshInv, BegunInv, BlankInv, WipeInv
<1>4. CASE DOMAIN page_seq # {}
  <2>1. Live /\ LastBegun = Newest /\ Newest' = Newest
    BY <1>1, <1>4 DEF Live, LastBegun, Newest
  <2>2. /\ Newest \in Sectors /\ HasHeader(flash, Newest)
        /\ \A s \in Sectors : HasHeader(flash, s) => s <= Newest
    BY <1>1, <2>1, NewestTop DEF NewestIsTop
  <2>3. Newest = 0 \/ Newest < count
    <3>1. 0 \in 0..(HeaderLen - 1)
      BY Sizes
    <3>2. InUse(flash, Newest, 0)
      BY <2>2, <3>1, HasHeaderIs
    <3> QED
      BY <1>1, <2>2, <3>2 DEF FilledInv, Filled
  <2>4. Newest \in Nat /\ Newest < NSECTORS - 1
    BY <1>1, <2>2, <2>3, Sizes, SectorsFinite
  <2>5. /\ Gapless(flash) /\ \A s \in Sectors : ~TornPage(flash, s)
        /\ \A u \in Tags : IsLatest(flash, u, values[u])
        /\ \A s \in Sectors : s > Newest => append_point[s] = 0
        /\ Len(free_pages) >= NSECTORS - 1 - Newest
        /\ \A i \in DOMAIN free_pages : i < NSECTORS - Newest => free_pages[i] = Newest + i
    BY <1>1, <2>1 DEF SessionInv
  <2>6. CASE HasRoom(append_point[Newest], RecordLen[t])
    <3>1. pc' = "append" /\ free_pages' = free_pages
      BY <1>4, <2>6 DEF Save, DoSave
    <3>2. LastBegun' = Newest
      BY <2>1, <3>1 DEF LastBegun
    <3>3. SessionInv'
      BY <1>1, <2>5, <3>1, <3>2 DEF SessionInv
    <3> QED
      BY <1>1, <1>2, <3>1, <3>3 DEF GentleInv, FreshInv, BegunInv, BlankInv, WipeInv
  <2>7. CASE ~HasRoom(append_point[Newest], RecordLen[t])
    <3>1. free_pages # << >> /\ Len(free_pages) \in Nat
      BY <1>1, <2>4, <2>5, Sizes
    <3>2. /\ free_pages' = Tail(free_pages) /\ pc' = "header"
          /\ job' = [NoJob EXCEPT !.page = Head(free_pages), !.tag = "header", !.val = NextSerial, !.then = t]
      BY <1>4, <2>7, <3>1 DEF Save
    <3>3. /\ Head(free_pages) = free_pages[1] /\ 1 \in DOMAIN free_pages
          /\ Len(Tail(free_pages)) = Len(free_pages) - 1
          /\ \A i \in DOMAIN Tail(free_pages) : i + 1 \in DOMAIN free_pages /\ Tail(free_pages)[i] = free_pages[i + 1]
          /\ \A i \in DOMAIN Tail(free_pages) : i \in Nat
      <4>1. Tail(free_pages) \in Seq(Sectors)
        BY <1>1, <3>1, TailIs
      <4> QED
        BY <1>1, <3>1, <4>1, TailIs
    <3>4. /\ job'.page = Newest + 1 /\ job'.k = 0
      <4>1. free_pages[1] = Newest + 1
        BY <2>4, <2>5, <3>3, Sizes
      <4> QED
        BY <3>2, <3>3, <4>1 DEF NoJob
    <3>5. LastBegun' = Newest + 1 /\ Newest + 1 \in Sectors /\ Newest + 1 > Newest
      BY <2>4, <3>2, <3>4, Sizes DEF LastBegun, Sectors
    <3>6. Newest + 1 < count + 1
      <4>1. count # 0
        BY <1>1, <1>4, <2>7, FirstSaveFits
      <4> QED
        BY <1>1, <2>3, <2>4, <4>1
    <3>7. BegunInv'
      BY <1>1, <2>1, <2>2, <2>5, <3>4, <3>5, <3>6, Sizes DEF BegunInv
    <3>8. /\ \A s \in Sectors : s > LastBegun' => append_point'[s] = 0
          /\ Len(free_pages') >= NSECTORS - 1 - LastBegun'
          /\ \A i \in DOMAIN free_pages' : i < NSECTORS - LastBegun' => free_pages'[i] = LastBegun' + i
      <4>1. \A s \in Sectors : s > LastBegun' => append_point'[s] = 0
        BY <1>1, <2>4, <2>5, <3>5, SectorsFinite
      <4>2. Len(free_pages') >= NSECTORS - 1 - LastBegun'
        BY <2>4, <2>5, <3>1, <3>2, <3>3, <3>5, Sizes
      <4>3. ASSUME NEW i \in DOMAIN free_pages', i < NSECTORS - LastBegun'
            PROVE  free_pages'[i] = LastBegun' + i
        <5>1. i \in Nat /\ i + 1 \in DOMAIN free_pages /\ free_pages'[i] = free_pages[i + 1]
          BY <3>2, <3>3, <4>3
        <5>2. i + 1 < NSECTORS - Newest
          BY <2>4, <3>5, <4>3, <5>1, Sizes
        <5>3. free_pages[i + 1] = Newest + (i + 1)
          BY <2>5, <5>1, <5>2
        <5> QED
          BY <2>4, <3>5, <5>1, <5>3
      <4> QED
        BY <4>1, <4>2, <4>3
    <3>9. SessionInv'
      BY <1>1, <2>5, <3>8 DEF SessionInv
    <3> QED
      BY <1>1, <1>2, <3>2, <3>7, <3>9 DEF GentleInv, FreshInv, BlankInv, WipeInv
  <2> QED
    BY <2>6, <2>7
<1> QED
  BY <1>3, <1>4

LEMMA WriteRefusedGentle ==
  ASSUME IInv, GentleInv, WriteRefused
  PROVE  /\ GentleInv' /\ flash' = flash /\ values' = values
         /\ \/ pc = "first" /\ pc' = "ready"
            \/ pc = "header" /\ pc' = "halted" /\ Torn
<1>1. /\ pc \in {"first", "header", "append"} /\ Offset < PAGE_SIZE /\ Programmed(flash, Cell)
      /\ append_point' = Advanced /\ flash' = flash /\ values' = values
      /\ page_seq' = page_seq /\ free_pages' = free_pages /\ count' = count
      /\ FilledInv /\ FlashInv /\ FreshInv /\ BegunInv /\ count \in Nat
  BY DEF WriteRefused, Programming, GentleInv, IInv, Types
<1>2. FilledInv'
  BY <1>1, SameFilled
<1>3. JobFits /\ job.page \in Sectors /\ Offset \in Offsets
  <2>1. JobFits
    BY <1>1, JobFitsWhile
  <2>2. job.page \in Sectors
    BY <2>1 DEF JobFits, Begun
  <2>3. Offset \in 0..PAGE_SIZE
    BY <2>1, <2>2 DEF JobFits, Offset
  <2> QED
    BY <1>1, <2>1, <2>2, <2>3, Sizes DEF Offsets
<1>4. InUse(flash, job.page, Offset)
  BY <1>1, <1>3, ProgrammedIs DEF Cell
<1>5. InUse(flash, job.page, 0)
  <2>1. 0 \in Offsets /\ (Offset = 0 \/ 0 < Offset)
    BY <1>3, Sizes DEF Offsets
  <2>2. Packed(flash, job.page)
    BY <1>1, <1>3 DEF FlashInv
  <2> QED
    BY <1>3, <1>4, <2>1, <2>2 DEF Packed
<1>6. CASE pc = "first"
  <2>1. pc' = "ready"
    BY <1>6 DEF WriteRefused
  <2>2. /\ page_seq = NoPages /\ job.page = 0 /\ values = Nothing /\ \A s \in Sectors : ~HasHeader(flash, s)
    BY <1>1, <1>6 DEF IInv, FirstInv, FreshInv
  <2>3. DOMAIN page_seq' = {}
    BY <1>1, <2>2, NoPagesIsMap
  <2> QED
    BY <1>1, <1>2, <1>5, <1>6, <2>1, <2>2, <2>3 DEF GentleInv, SessionInv, Live, FreshInv, BegunInv, BlankInv, WipeInv
<1>7. CASE pc = "header"
  <2>1. /\ \A s \in Sectors : HasHeader(flash, s) => s <= Newest
        /\ job.page = Newest + 1 /\ ~HasRoom(append_point[Newest], RecordLen[job.then])
        /\ DOMAIN page_seq # {}
    BY <1>1, <1>7 DEF BegunInv, IInv, HeaderInv
  <2>2. Newest \in Nat /\ Newest \in Sectors
    BY <2>1, NewestIsSector, SectorsFinite DEF IInv
  <2>3. Advanced[Newest] = append_point[Newest]
    <3>1. Newest # job.page
      BY <2>1, <2>2
    <3> QED
      BY <1>3, <2>2, <3>1 DEF Advanced, JobFits
  <2>4. DoSave(Newest, job.then, count, HasRoom(Advanced[Newest], RecordLen[job.then]))
    BY <1>7 DEF WriteRefused
  <2>5. pc' = "halted"
    BY <2>1, <2>3, <2>4 DEF DoSave, Halt
  <2>6. Torn
    <3>1. ~HasHeader(flash, job.page)
      BY <1>3, <2>1, <2>2
    <3> QED
      BY <1>1, <1>3, <1>5, <3>1, BegunIsTorn
  <2> QED
    BY <1>1, <1>2, <1>7, <2>5, <2>6 DEF GentleInv, SessionInv, Live, FreshInv, BegunInv, BlankInv, WipeInv
<1>8. CASE pc = "append"
  <2>1. Exact(job.page) /\ Offset = append_point[job.page] /\ Offset \in Nat
    BY <1>3, <1>8, RecordIsNewest DEF Offset, Offsets
  <2> QED
    BY <1>3, <1>4, <2>1 DEF Exact
<1> QED
  BY <1>1, <1>6, <1>7, <1>8

(* No job reaches the end of a page.                                        *)
LEMMA NoWriteBeyond ==
  ASSUME IInv, GentleInv, WriteBeyond
  PROVE  FALSE
<1>1. pc \in {"first", "header", "append"} /\ Offset >= PAGE_SIZE /\ Offset = append_point[job.page]
  BY DEF WriteBeyond, Programming, Offset
<1>2. JobFits /\ JobIsLast
  BY <1>1, JobFitsWhile, JobIsLastWhile
<1>3. Offset \in Nat /\ job.k \in Nat
  BY <1>1, <1>2, Sizes DEF JobFits, Begun
<1>4. CASE job.tag = "header"
  BY <1>1, <1>2, <1>3, <1>4, Sizes DEF JobIsLast
<1>5. CASE job.tag \in Tags
  <2>1. append_point[job.page] - job.k + LenOf(job.tag) < PAGE_SIZE /\ job.k <= LenOf(job.tag) - 1
    BY <1>2, <1>5, TagsAreApart DEF JobFits, Begun
  <2> QED
    BY <1>1, <1>3, <1>5, <2>1, TagsAreApart, Sizes
<1> QED
  BY <1>2, <1>4, <1>5 DEF JobFits

LEMMA ErasePageGentle ==
  ASSUME Gentle, IInv, CountInv, GentleInv, ErasePage
  PROVE  GentleInv' /\ pc = "wiping" /\ pc' = "wiping"
<1> DEFINE h == Head(todo)
           e == ErasedSector(h)
           l == Len(todo)
<1>1. /\ pc = "wiping" /\ pc' = "wiping" /\ todo # << >> /\ todo' = Tail(todo)
      /\ flash' = Without(h) /\ count' = count /\ done' = done
      /\ FlashInv /\ FilledInv /\ WipeInv /\ todo \in Seq(Sectors)
      /\ count \in Nat /\ count <= MaxSaves /\ 2 * MaxSaves <= NSECTORS /\ MaxSaves \in Nat
  BY Sizes DEF ErasePage, CountInv, GentleInv, IInv, Types, Gentle
<1>2. /\ h \in Sectors /\ h = todo[1] /\ l > 0 /\ l \in Nat /\ 1 \in DOMAIN todo
      /\ Len(todo') = l - 1
      /\ \A i \in DOMAIN todo' : i \in Nat /\ i + 1 \in DOMAIN todo /\ todo'[i] = todo[i + 1]
  <2>1. Tail(todo) \in Seq(Sectors) /\ l \in Nat
    BY <1>1, TailIs
  <2> QED
    BY <1>1, <2>1, TailIs
<1> HIDE DEF h, l
<1>3. /\ \A i \in DOMAIN todo : todo[i] = NSECTORS - l + i - 1
      /\ \A s \in Sectors : s < NSECTORS - l => ~InUse(flash, s, 0)
      /\ AnyTorn(flash) \/ \A s \in Sectors : ~HasHeader(flash, s)
  BY <1>1 DEF WipeInv, l
<1>4. h = NSECTORS - l /\ h \in Nat
  BY <1>2, <1>3, Sizes, SectorsFinite
<1>5. e \in Sectors /\ e = IF h = NSECTORS \div 2 THEN 0 ELSE h
  <2>1. e = IF h = NSECTORS \div 2 THEN 0 ELSE h
    BY <1>2, ErasedSectorIs
  <2> HIDE DEF e
  <2> QED
    BY <1>2, <2>1, SectorsFinite
<1>6. /\ \A s \in Sectors, o \in Offsets : flash'[Addr(s, o)] = IF s = e THEN Erased ELSE flash[Addr(s, o)]
      /\ \A s \in Sectors, o \in Offsets : InUse(flash', s, o) <=> s # e /\ InUse(flash, s, o)
      /\ \A s \in Sectors : HasHeader(flash', s) <=> s # e /\ HasHeader(flash, s)
      /\ \A s \in Sectors : s # e => Serial(flash', s) = Serial(flash, s)
  BY <1>1, <1>2, ErasedFlash
<1> HIDE DEF e
<1>7. \A s \in Sectors : s # e => /\ TornPage(flash', s) <=> TornPage(flash, s)
                                  /\ Ascends(flash', s)
  BY <1>1, <1>6, SameTorn DEF FilledInv, Filled
<1>8. Ascends(flash', e) /\ ~TornPage(flash', e)
  BY <1>5, <1>6, TagsAreApart DEF Ascends, TornPage, Erased
<1>9. 0 \in Offsets /\ \A s \in Sectors : HasHeader(flash, s) => InUse(flash, s, 0)
  <2>1. 0 \in Offsets /\ 0 \in 0..(HeaderLen - 1)
    BY Sizes DEF Offsets
  <2> QED
    BY <2>1, HasHeaderIs
<1>10. AnyTorn(flash') \/ \A s \in Sectors : ~HasHeader(flash', s)
  <2>1. CASE \A s \in Sectors : ~HasHeader(flash, s)
    BY <1>6, <2>1
  <2>2. CASE AnyTorn(flash)
    <3>1. PICK p \in Sectors : TornPage(flash, p)
      BY <2>2 DEF AnyTorn
    <3>2. CASE p # e
      BY <1>7, <3>1, <3>2 DEF AnyTorn
    <3>3. CASE p = e
      <4>1. ASSUME NEW u \in Sectors, HasHeader(flash', u) PROVE FALSE
        <5>1. HasHeader(flash, u) /\ u # e /\ u \in Nat /\ e \in Nat
          BY <1>5, <1>6, <4>1, SectorsFinite
        <5>2. u <= e
          BY <1>1, <3>1, <3>3, <5>1 DEF FilledInv, Filled
        <5>3. u < h /\ u < NSECTORS - l
          BY <1>4, <1>5, <5>1, <5>2
        <5> QED
          BY <1>3, <1>9, <5>1, <5>3
      <4> QED
        BY <4>1
    <3> QED
      BY <3>2, <3>3
  <2> QED
    BY <1>3, <2>1, <2>2
<1>11. Filled(flash', count')
  <2>1. \A s \in Sectors : InUse(flash', s, 0) => s = 0 \/ s < count'
    BY <1>1, <1>6, <1>9 DEF FilledInv, Filled
  <2>2. \A s \in Sectors : Ascends(flash', s)
    BY <1>7, <1>8
  <2>3. \A s, u \in Sectors :
          HasHeader(flash', s) /\ HasHeader(flash', u) /\ s < u => Serial(flash', s) < Serial(flash', u)
    BY <1>1, <1>6 DEF FilledInv, Filled
  <2>4. \A s, u \in Sectors : TornPage(flash', s) /\ HasHeader(flash', u) => u <= s
    <3> TAKE s \in Sectors, u \in Sectors
    <3> HAVE TornPage(flash', s) /\ HasHeader(flash', u)
    <3>1. TornPage(flash, s) /\ HasHeader(flash, u)
      BY <1>6, <1>7, <1>8
    <3> QED
      BY <1>1, <3>1 DEF FilledInv, Filled
  <2>5. AnyTorn(flash') \/ Gapless(flash')
    BY <1>10 DEF Gapless
  <2> QED
    BY <2>1, <2>2, <2>3, <2>4, <2>5 DEF Filled
<1>12. \A s \in Sectors : \A o \in HeaderLen..(PAGE_SIZE - 1) : flash'[Addr(s, o)].tag # "header"
  <2> TAKE s \in Sectors
  <2> TAKE o \in HeaderLen..(PAGE_SIZE - 1)
  <2>1. o \in Offsets
    BY Sizes DEF Offsets
  <2>2. flash'[Addr(s, o)] = IF s = e THEN Erased ELSE flash[Addr(s, o)]
    BY <1>6, <2>1
  <2>3. flash[Addr(s, o)].tag # "header"
    BY <1>1 DEF FilledInv, Spoiled
  <2> QED
    BY <2>2, <2>3, TagsAreApart DEF Erased
<1>13. FilledInv'
  BY <1>11, <1>12 DEF FilledInv, Spoiled
<1>14. \A i \in DOMAIN todo' : todo'[i] = NSECTORS - Len(todo') + i - 1
  <2> TAKE i \in DOMAIN todo'
  <2>1. i \in Nat /\ todo'[i] = NSECTORS - l + (i + 1) - 1
    BY <1>2, <1>3
  <2> QED
    BY <1>2, <2>1, Sizes
<1>15. \A s \in Sectors : s < NSECTORS - Len(todo') => ~InUse(flash', s, 0)
  <2> TAKE s \in Sectors
  <2> HAVE s < NSECTORS - Len(todo')
  <2>1. s \in Nat /\ (s < NSECTORS - l \/ s = h)
    BY <1>2, <1>4, Sizes, SectorsFinite
  <2>2. CASE s < NSECTORS - l
    BY <1>3, <1>6, <1>9, <2>2
  <2>3. CASE s = h /\ h # NSECTORS \div 2
    BY <1>5, <1>6, <1>9, <2>3
  <2>4. CASE s = h /\ h = NSECTORS \div 2
    <3>1. s # 0 /\ ~(s < count)
      BY <1>1, <2>1, <2>4, SizesAssumption
    <3>2. ~InUse(flash, s, 0)
      BY <1>1, <3>1 DEF FilledInv, Filled
    <3> QED
      BY <1>6, <1>9, <3>2
  <2> QED
    BY <2>1, <2>2, <2>3, <2>4
<1>16. WipeInv'
  BY <1>10, <1>14, <1>15 DEF WipeInv
<1> QED
  BY <1>1, <1>13, <1>16 DEF GentleInv, SessionInv, Live, FreshInv, BegunInv, BlankInv

(* The second load finds pages in its map that it cannot read any more.     *)
LEMMA WipedGentle ==
  ASSUME Gentle, IInv, GentleInv, Wiped
  PROVE  GentleInv' /\ flash' = flash /\ pc = "wiping" /\ pc' = "halted"
<1> DEFINE on == Headered(flash, NSECTORS)
<1>1. /\ pc = "wiping" /\ todo = << >> /\ DoLoad(flash, 2) /\ flash' = flash /\ count' = count /\ done' = done
      /\ FilledInv /\ WipeInv /\ WipingInv /\ count \in Nat
      /\ IsMap(page_seq) /\ append_point \in [Sectors -> 0..PAGE_SIZE] /\ values \in [Tags -> {0} \cup done]
  BY DEF Wiped, GentleInv, IInv, Types, IsMap
<1>2. FilledInv'
  BY <1>1, SameFilled
<1>3. WellFormed(flash) /\ SerialsDiffer(flash) /\ done \subseteq Nat
  BY FlashIsWellFormed DEF IInv
<1>4. \A s \in Sectors : ~InUse(flash, s, 0)
  <2>1. \A s \in Sectors : s < NSECTORS - Len(todo)
    BY <1>1, Sizes DEF Sectors
  <2> QED
    BY <1>1, <2>1 DEF WipeInv
<1>5. \A s \in Sectors : ~HasHeader(flash, s) /\ ~InUse(flash, s, 1)
  <2> TAKE s \in Sectors
  <2>1. 0 \in 0..(HeaderLen - 1) /\ 0 \in Offsets /\ 1 \in Offsets /\ 0 < 1
    BY Sizes DEF Offsets
  <2>2. Packed(flash, s)
    BY <1>3 DEF WellFormed
  <2> QED
    BY <1>4, <2>1, <2>2, HasHeaderIs DEF Packed
<1>6. IsMap(on) /\ DOMAIN on = {}
  <2>1. IsMap(on) /\ \A n \in DOMAIN on : HasHeader(flash, on[n])
    BY <1>3, HeaderedIs
  <2> HIDE DEF on
  <2> QED
    BY <1>5, <2>1 DEF IsMap
<1> DEFINE seq == Updated(page_seq, on)
<1>7. IsMap(seq) /\ DOMAIN seq # {} /\ \A n \in DOMAIN seq : seq[n] \in Sectors
  <2>1. IsMap(seq) /\ DOMAIN seq = DOMAIN page_seq \cup DOMAIN on
    <3> HIDE DEF on
    <3> QED
      BY <1>1, <1>6, UpdatedIs
  <2> HIDE DEF seq, on
  <2> QED
    BY <1>1, <1>6, <2>1 DEF WipingInv, IsMap
<1>8. ReadPages(flash, seq, 2)
  BY <1>1, <1>3, <1>7, DoLoadIs
<1>9. \A n \in DOMAIN seq : PageRead(flash, seq[n]).how = "ecc_error"
  <2> TAKE n \in DOMAIN seq
  <2>1. ~Programmed(flash, Addr(seq[n], 1))
    <3>1. 1 \in Offsets
      BY Sizes DEF Offsets
    <3> HIDE DEF seq
    <3> QED
      BY <1>5, <1>7, <3>1, ProgrammedIs
  <2> QED
    BY <2>1 DEF PageRead
<1> HIDE DEF seq
<1>10. pc' = "halted"
  <2> DEFINE reads == [n \in DOMAIN seq |-> PageRead(flash, seq[n])]
             bad == {n \in DOMAIN seq : reads[n].how # "end"}
  <2>1. bad # {}
    BY <1>7, <1>9
  <2>2. IF reads[Least(bad)].how = "unknown_tag" THEN Halt("unknown_tag") ELSE LoadThrows(2)
    BY <1>8, <2>1 DEF ReadPages
  <2> QED
    BY <2>2 DEF Halt, LoadThrows
<1> QED
  BY <1>1, <1>2, <1>10 DEF GentleInv, SessionInv, Live, FreshInv, BegunInv, BlankInv, WipeInv

LEMMA InitGentle ==
  ASSUME Init
  PROVE  GentleInv /\ \A s \in Sectors : ~HasHeader(flash, s)
<1>1. \A s \in Sectors, o \in Offsets : flash[Addr(s, o)] = Erased /\ ~InUse(flash, s, o)
  <2> TAKE s \in Sectors, o \in Offsets
  <2>1. Addr(s, o) \in Area
    BY AddrBounds DEF Offsets
  <2> QED
    BY <2>1 DEF InUse, Init
<1>2. 0 \in Offsets /\ 0 \in 0..(HeaderLen - 1)
  BY Sizes DEF Offsets
<1>3. \A s \in Sectors : ~HasHeader(flash, s)
  BY <1>1, <1>2, HasHeaderIs
<1>4. Filled(flash, count)
  BY <1>1, <1>2, <1>3, TagsAreApart DEF Filled, Ascends, TornPage, Gapless, Erased
<1>5. \A s \in Sectors : ~Spoiled(s)
  <2>1. HeaderLen..(PAGE_SIZE - 1) \subseteq Offsets
    BY Sizes DEF Offsets
  <2> QED
    BY <1>1, <2>1, TagsAreApart DEF Spoiled, Erased
<1>6. pc = "off" /\ values = Nothing
  BY DEF Init
<1> QED
  BY <1>3, <1>4, <1>5, <1>6 DEF GentleInv, FilledInv, SessionInv, Live, FreshInv, BegunInv, BlankInv, WipeInv

LEMMA StutterGentle ==
  ASSUME GentleInv, UNCHANGED vars
  PROVE  GentleInv'
<1>1. /\ flash' = flash /\ append_point' = append_point /\ page_seq' = page_seq /\ free_pages' = free_pages
      /\ values' = values /\ pc' = pc /\ job' = job /\ todo' = todo /\ count' = count
  BY DEF vars
<1>2. FilledInv'
  BY <1>1 DEF GentleInv, FilledInv, Filled, Spoiled
<1>3. Newest' = Newest /\ LastBegun' = LastBegun
  BY <1>1 DEF Newest, LastBegun
<1>4. SessionInv'
  BY <1>1, <1>3 DEF GentleInv, SessionInv, Live
<1>5. BegunInv'
  BY <1>1, <1>3 DEF GentleInv, BegunInv
<1>6. FreshInv' /\ BlankInv' /\ WipeInv'
  BY <1>1 DEF GentleInv, FreshInv, BlankInv, WipeInv
<1> QED
  BY <1>1, <1>2, <1>4, <1>5, <1>6 DEF GentleInv

(* No other step than these is taken.                                       *)
LEMMA GentleSteps ==
  ASSUME Gentle, IInv, CountInv, GentleInv, Next
  PROVE  \/ PowerOn \/ PowerOff \/ ProgramWord \/ FirstWritten \/ HeaderWritten \/ RecordWritten
         \/ WriteRefused \/ ErasePage \/ Wiped \/ \E t \in Tags : Save(t)
<1>1. ~WriteBeyond
  BY NoWriteBeyond
<1>2. ~Reclaimed /\ ~Erase /\ ~EraseDone
  BY DEF Reclaimed, Erase, EraseDone, Gentle, CountInv, GentleInv
<1> QED
  BY <1>1, <1>2 DEF Next

LEMMA NextGentle ==
  ASSUME Gentle, IInv, IInv', CountInv, CountInv', GentleInv, Next
  PROVE  GentleInv' /\ (pc # "wiping" /\ pc' \in {"wiping", "halted"} => Torn)
<1>1. CASE PowerOn
  <2>1. GentleInv' /\ (pc' \in {"wiping", "halted"} => AnyTorn(flash))
    BY <1>1, PowerOnGentle
  <2> QED
    BY <2>1, TornIsTorn DEF IInv, GentleInv
<1>2. CASE PowerOff
  BY <1>2, PowerOffGentle DEF PowerOff
<1>3. CASE ProgramWord
  <2>1. pc' \in {"first", "header", "append"}
    BY <1>3 DEF ProgramWord, CanProgram, Programming
  <2> QED
    BY <1>3, <2>1, ProgramWordGentle
<1>4. CASE FirstWritten
  BY <1>4, FirstWrittenGentle
<1>5. CASE HeaderWritten
  BY <1>5, HeaderWrittenGentle
<1>6. CASE RecordWritten
  BY <1>6, RecordWrittenGentle DEF RecordWritten
<1>7. CASE WriteRefused
  BY <1>7, WriteRefusedGentle
<1>8. CASE ErasePage
  BY <1>8, ErasePageGentle
<1>9. CASE Wiped
  BY <1>9, WipedGentle
<1>10. CASE \E t \in Tags : Save(t)
  BY <1>10, SaveGentle
<1> QED
  BY <1>1, <1>2, <1>3, <1>4, <1>5, <1>6, <1>7, <1>8, <1>9, <1>10, GentleSteps

LEMMA GentleIsFew == Gentle => FewSaves
BY Sizes DEF Gentle, FewSaves

LEMMA GentleSpec == Gentle => (Spec => [](IInv /\ CountInv /\ GentleInv))
<1> SUFFICES ASSUME Gentle PROVE Spec => [](IInv /\ CountInv /\ GentleInv)
  OBVIOUS
<1>1. Init => GentleInv
  BY InitGentle
<1>2. IInv /\ CountInv /\ (IInv /\ CountInv)' /\ GentleInv /\ [Next]_vars => GentleInv'
  BY NextGentle, StutterGentle
<1>3. Spec => [](IInv /\ CountInv)
  BY GentleIsFew, FewSpec
<1> QED
  BY <1>1, <1>2, <1>3, PTL DEF Spec

-----------------------------------------------------------------------------
(* What a user reads is what flash keeps.                                   *)

NothingKept == Kept = Nothing
UserReads == Kept = values /\ values \in [Tags -> Nat]

LEMMA NoHeaderNoValue ==
  ASSUME IInv, \A s \in Sectors : ~HasHeader(flash, s)
  PROVE  ~AnyTorn(flash) /\ \A t \in Tags : IsLatest(flash, t, 0)
<1>1. \A s \in Sectors : Packed(flash, s) /\ Placed(flash, s) /\ FlashType(flash, count) /\ count \in Nat
  BY DEF IInv, FlashInv, Types
<1>2. \A s \in Sectors, o \in Offsets : \A t \in Tags : ~EndsRecord(flash, s, o, t)
  BY <1>1, RecordHasHeader
<1> QED
  BY <1>2 DEF AnyTorn, TornPage, IsLatest

LEMMA NoHeaderKept ==
  IInv /\ FilledInv /\ (\A s \in Sectors : ~HasHeader(flash, s)) => NothingKept
<1> SUFFICES ASSUME IInv, FilledInv, \A s \in Sectors : ~HasHeader(flash, s) PROVE NothingKept
  OBVIOUS
<1>1. /\ Kept = [t \in Tags |-> LastValue(Reads, t, 0)]
      /\ \A t \in Tags : IsLatest(flash, t, Kept[t])
  BY NoHeaderNoValue, KeptIs DEF KeptRight
<1>2. \A t \in Tags : Kept[t] = 0
  <2> TAKE t \in Tags
  <2>1. FlashType(flash, count) /\ count \in Nat
    BY DEF IInv, FlashInv, Types
  <2> QED
    BY <1>1, <2>1, NoHeaderNoValue, LatestIsOne
<1> QED
  BY <1>1, <1>2 DEF NothingKept, Nothing

(* Before the first header is there, and while a wiping goes on.            *)
LEMMA DownKept == IInv /\ GentleInv /\ pc \in {"first", "wiping"} => NothingKept
<1> SUFFICES ASSUME IInv, GentleInv, pc \in {"first", "wiping"} PROVE NothingKept
  OBVIOUS
<1>1. CASE pc = "first"
  BY <1>1, NoHeaderKept DEF IInv, FirstInv, GentleInv
<1>2. CASE pc = "wiping" /\ AnyTorn(flash)
  BY <1>2, KeptIs DEF KeptRight, GentleInv, NothingKept
<1>3. CASE pc = "wiping" /\ ~AnyTorn(flash)
  BY <1>3, NoHeaderKept DEF GentleInv, WipeInv
<1> QED
  BY <1>1, <1>2, <1>3

LEMMA UpKept == IInv /\ GentleInv /\ pc \in {"ready", "header", "append"} => UserReads
<1> SUFFICES ASSUME IInv, GentleInv, pc \in {"ready", "header", "append"} PROVE UserReads
  OBVIOUS
<1>1. values \in [Tags -> Nat] /\ FlashType(flash, count) /\ count \in Nat
  <2>1. values \in [Tags -> {0} \cup done] /\ done \subseteq 1..count /\ count \in Nat
    BY DEF IInv, Types
  <2>2. {0} \cup done \subseteq Nat
    BY <2>1
  <2>3. FlashType(flash, count)
    BY DEF IInv, FlashInv
  <2> QED
    BY <2>1, <2>2, <2>3
<1>2. CASE Live
  <2>1. pc = "append" \/ ~AnyTorn(flash)
    BY <1>2 DEF GentleInv, SessionInv, AnyTorn
  <2>2. /\ Kept = [t \in Tags |-> LastValue(Reads, t, 0)]
        /\ \A t \in Tags : IsLatest(flash, t, Kept[t])
    BY <2>1, KeptIs DEF KeptRight, GentleInv
  <2>3. \A t \in Tags : IsLatest(flash, t, values[t])
    BY <1>2 DEF GentleInv, SessionInv
  <2>4. \A t \in Tags : Kept[t] = values[t]
    BY <1>1, <2>2, <2>3, LatestIsOne
  <2>5. Kept = [t \in Tags |-> Kept[t]] /\ values = [t \in Tags |-> values[t]]
    BY <1>1, <2>2
  <2> QED
    BY <1>1, <2>4, <2>5 DEF UserReads
<1>3. CASE ~Live
  <2>1. pc = "ready" /\ DOMAIN page_seq = {}
    BY <1>3 DEF Live, IInv, HeaderInv, AppendInv
  <2>2. values = Nothing /\ \A s \in Sectors : ~HasHeader(flash, s)
    BY <2>1 DEF GentleInv, BlankInv
  <2>3. NothingKept
    BY <2>2, NoHeaderKept DEF GentleInv
  <2> QED
    BY <1>1, <2>2, <2>3 DEF NothingKept, UserReads
<1> QED
  BY <1>2, <1>3

LEMMA DownKeptNext == (IInv /\ GentleInv /\ pc \in {"first", "wiping"})' => NothingKept'
BY DownKept, PTL

LEMMA UpKeptNext == (IInv /\ GentleInv /\ pc \in {"ready", "header", "append"})' => UserReads'
BY UpKept, PTL

LEMMA DoLoadEnds ==
  ASSUME NEW f, NEW try, DoLoad(f, try)
  PROVE  pc' \in {"first", "ready", "wiping", "halted"}
<1>1. ASSUME LoadThrows(try) PROVE pc' \in {"wiping", "halted"}
  BY <1>1 DEF LoadThrows, Halt
<1>2. ASSUME NEW seq, ReadPages(f, seq, try) PROVE pc' \in {"ready", "wiping", "halted"}
  BY <1>1, <1>2 DEF ReadPages, Halt
<1> QED
  BY <1>1, <1>2 DEF DoLoad

(* Where flash does not change, what it keeps changes only by the failure   *)
(* that leaves a torn record behind.                                        *)
LEMMA SameFlashKept ==
  ASSUME flash' = flash, pc' # "append"
  PROVE  Kept' \in {Kept, Nothing} /\ (pc # "append" => Kept' = Kept)
BY DEF Kept

LEMMA ViewIs ==
  /\ View = IF pc \in {"ready", "header", "append", "reclaim", "erasing"} THEN values ELSE Store!Down
  /\ View' = IF pc' \in {"ready", "header", "append", "reclaim", "erasing"} THEN values' ELSE Store!Down
BY DEF View, NoPages, Store!Down

LEMMA StoreStep ==
  ASSUME Gentle, IInv, IInv', CountInv, CountInv', GentleInv, GentleInv', Next
  PROVE  Store!Next \/ UNCHANGED <<Kept, View>>
<1>1. Store!Nothing = Nothing
  BY DEF Store!Nothing, Nothing
<1>2. CASE PowerOn
  <2>1. /\ flash' = flash /\ pc = "off" /\ pc' \in {"first", "ready", "wiping", "halted"}
    BY <1>2, DoLoadEnds DEF PowerOn
  <2>2. Kept' = Kept /\ View = Store!Down
    BY <2>1, SameFlashKept, ViewIs
  <2>3. CASE pc' = "ready"
    BY <2>2, <2>3, UpKeptNext, ViewIs DEF UserReads, Store!Next, Store!Boot
  <2>4. CASE pc' # "ready"
    BY <2>1, <2>2, <2>4, ViewIs
  <2> QED
    BY <2>3, <2>4
<1>3. CASE PowerOff
  <2>1. flash' = flash /\ pc' = "off"
    BY <1>3 DEF PowerOff
  <2> QED
    BY <1>1, <2>1, SameFlashKept, ViewIs DEF Store!Next, Store!Fail
<1>4. CASE ProgramWord
  <2>1. pc \in {"first", "header", "append"} /\ pc' = pc /\ values' = values
    BY <1>4 DEF ProgramWord, CanProgram, Programming
  <2>2. CASE pc = "first"
    BY <2>1, <2>2, DownKept, DownKeptNext, ViewIs DEF NothingKept, Nothing
  <2>3. CASE pc # "first"
    BY <2>1, <2>3, UpKept, UpKeptNext, ViewIs DEF UserReads
  <2> QED
    BY <2>2, <2>3
<1>5. CASE FirstWritten
  <2>1. pc = "first" /\ CanProgram /\ flash' = WithWord
    BY <1>5 DEF FirstWritten
  <2>2. pc' = "ready" /\ ~AnyTorn(flash')
    BY <1>5, FirstWrittenGentle
  <2>3. Kept = Nothing
    BY <2>1, DownKept DEF NothingKept
  <2>4. /\ Kept' = [t \in Tags |-> LastValue(Reads', t, 0)]
        /\ \A t \in Tags : IsLatest(flash', t, Kept'[t])
    BY <2>2, KeptIsNext DEF KeptRight, GentleInv
  <2>5. \A t \in Tags : IsLatest(flash', t, 0)
    <3>1. JobFits /\ job.tag = "header" /\ FlashInv /\ \A s \in Sectors : ~HasHeader(flash, s)
      BY <2>1, JobFitsWhile DEF IInv, FirstInv
    <3> QED
      BY <2>1, <3>1, NoHeaderNoValue, LatestKept
  <2>6. \A t \in Tags : Kept'[t] = 0
    <3>1. FlashType(flash', count') /\ count' \in Nat
      BY DEF IInv, FlashInv, Types
    <3> QED
      BY <2>4, <2>5, <3>1, LatestIsOne
  <2>7. Kept' = Kept
    BY <2>3, <2>4, <2>6 DEF Nothing
  <2> QED
    BY <2>1, <2>2, <2>7, UpKeptNext, ViewIs DEF UserReads, Store!Next, Store!Boot
<1>6. CASE HeaderWritten
  <2>1. pc = "header" /\ pc' = "append" /\ values' = values
    BY <1>6, HeaderWrittenGentle DEF HeaderWritten
  <2> QED
    BY <2>1, UpKept, UpKeptNext, ViewIs DEF UserReads
<1>7. CASE RecordWritten
  <2>1. /\ pc = "append" /\ pc' = "ready" /\ values' = [values EXCEPT ![job.tag] = job.val]
        /\ job.tag \in Tags /\ job.val = count
    BY <1>7, RecordIsNewest DEF RecordWritten
  <2>2. Kept = values /\ Kept' = values' /\ View = values /\ View' = values' /\ values \in [Tags -> Nat]
    BY <2>1, UpKept, UpKeptNext, ViewIs DEF UserReads
  <2>3. View # Store!Down
    BY <2>1, <2>2 DEF Store!Down
  <2>4. count \in 1..MaxSaves
    <3>1. count \in 0..MaxSaves /\ count >= 1
      BY <2>1 DEF IInv, Types, AppendInv
    <3> QED
      BY <3>1, Sizes
  <2>5. Store!Put(job.tag, count)
    BY <2>1, <2>2, <2>3 DEF Store!Put
  <2> QED
    BY <2>1, <2>4, <2>5 DEF Store!Next
<1>8. CASE WriteRefused
  <2>1. /\ flash' = flash /\ values' = values
        /\ (pc = "first" /\ pc' = "ready") \/ (pc = "header" /\ pc' = "halted")
    BY <1>8, WriteRefusedGentle
  <2>2. Kept' = Kept
    BY <2>1, SameFlashKept
  <2>3. CASE pc' = "ready"
    BY <2>1, <2>2, <2>3, UpKeptNext, ViewIs DEF UserReads, Store!Next, Store!Boot
  <2>4. CASE pc' = "halted"
    BY <2>2, <2>4, ViewIs DEF Store!Next, Store!Fail
  <2> QED
    BY <2>1, <2>3, <2>4
<1>9. CASE ErasePage
  <2>1. pc = "wiping" /\ pc' = "wiping"
    BY <1>9, ErasePageGentle
  <2> QED
    BY <2>1, DownKept, DownKeptNext, ViewIs DEF NothingKept, Nothing
<1>10. CASE Wiped
  <2>1. flash' = flash /\ pc = "wiping" /\ pc' = "halted"
    BY <1>10, WipedGentle
  <2> QED
    BY <2>1, SameFlashKept, ViewIs
<1>11. ASSUME NEW t \in Tags, Save(t) PROVE Store!Next \/ UNCHANGED <<Kept, View>>
  <2>1. /\ flash' = flash /\ values' = values /\ pc = "ready"
        /\ pc' \in {"header", "append", "halted"}
    BY <1>11, SaveGentle DEF Save
  <2>2. CASE pc' = "halted"
    BY <2>1, <2>2, SameFlashKept, ViewIs DEF Store!Next, Store!Fail
  <2>3. CASE pc' # "halted"
    BY <2>1, <2>3, UpKept, UpKeptNext, ViewIs DEF UserReads
  <2> QED
    BY <2>2, <2>3
<1> QED
  BY <1>2, <1>3, <1>4, <1>5, <1>6, <1>7, <1>8, <1>9, <1>10, <1>11, GentleSteps

(* Until half of the sectors are used, the store is the abstract one: what  *)
(* a user reads is what flash keeps, a save is atomic, a power failure at   *)
(* whatever halfword loses the values altogether or none of them.           *)
THEOREM GentleIsStore == Gentle => (Spec => IsKeyValueStore)
<1> SUFFICES ASSUME Gentle PROVE Spec => IsKeyValueStore
  OBVIOUS
<1>1. Init => Store!Init
  <2> SUFFICES ASSUME Init PROVE Store!Init
    OBVIOUS
  <2>1. Kept = Nothing
    BY InitInv, InitGentle, NoHeaderKept DEF GentleInv, NothingKept
  <2>2. View = Store!Down
    BY ViewIs DEF Init
  <2> QED
    BY <2>1, <2>2 DEF Store!Init, Store!Nothing, Nothing
<1>2. (IInv /\ CountInv /\ GentleInv) /\ (IInv /\ CountInv /\ GentleInv)' /\ [Next]_vars
        => [Store!Next]_<<Kept, View>>
  <2> SUFFICES ASSUME IInv /\ CountInv /\ GentleInv, (IInv /\ CountInv /\ GentleInv)', [Next]_vars
               PROVE  Store!Next \/ UNCHANGED <<Kept, View>>
    OBVIOUS
  <2>1. CASE Next
    BY <2>1, StoreStep
  <2>2. CASE UNCHANGED vars
    BY <2>2 DEF vars, Kept, View
  <2> QED
    BY <2>1, <2>2
<1> QED
  BY <1>1, <1>2, GentleSpec, PTL DEF Spec, IsKeyValueStore, Store!Spec

(* Until then load() throws its state away, and an assert fails, only where *)
(* a power failure left a record or a header without its last halfwords.    *)
THEOREM GentleOnlyTornStops == Gentle => (Spec => OnlyTornStops)
<1> SUFFICES ASSUME Gentle PROVE Spec => OnlyTornStops
  OBVIOUS
<1>1. (IInv /\ CountInv /\ GentleInv) /\ (IInv /\ CountInv)' /\ [Next]_vars
        => [pc # "wiping" /\ pc' \in {"wiping", "halted"} => Torn]_vars
  BY NextGentle
<1> QED
  BY <1>1, GentleSpec, PTL DEF Spec, OnlyTornStops

=============================================================================
