---------------------------- MODULE ConfigStore ----------------------------
(***************************************************************************)
(* The configuration store (threadxx/config_data) over the high-cycle data  *)
(* flash: records are appended to the newest page, a page starts with a     *)
(* header that carries its serial number, and load() rebuilds the state in  *)
(* RAM from what it reads. The flash is programmed a halfword at a time;    *)
(* reading an erased halfword raises UncorrectibleECCError.                 *)
(***************************************************************************)
EXTENDS Integers, Sequences, FiniteSets

CONSTANTS
  NSECTORS,      \* sectors of the area; page i is sector i
  PAGE_SIZE,     \* halfwords in a page
  HeaderLen,     \* halfwords of config_header
  Tags,          \* the tags of the registry
  RecordLen,     \* halfwords of the record of each tag
  MaxSaves,      \* bound: how many saves a behaviour makes
  Allowed        \* what may happen besides saving: a subset of Liberties

(* "cut": the power may fail at any moment, and not only between commands;  *)
(* "erase": the user may enter `config erase`.                              *)
Liberties == {"cut", "erase"}

ASSUME SizesAssumption ==
  /\ NSECTORS \in Nat /\ NSECTORS > 1 /\ NSECTORS % 2 = 0
  /\ PAGE_SIZE \in Nat /\ HeaderLen \in 2..(PAGE_SIZE - 1)
  /\ RecordLen \in [Tags -> Nat]
  /\ \A t \in Tags : RecordLen[t] > 1 /\ HeaderLen + RecordLen[t] < PAGE_SIZE
ASSUME BoundsAssumption == MaxSaves \in Nat /\ Allowed \subseteq Liberties
ASSUME TagsAssumption == {"header", "erased"} \cap Tags = {}

VARIABLES
  flash,         \* the halfwords, by their offset in the area
  append_point,  \* page::append_point of each page
  page_seq,      \* serial -> page, a partial function
  free_pages,    \* the deque of page numbers
  values,        \* the last record of each tag, 0 when there is none
  pc,            \* where the firmware is
  job,           \* the record being programmed
  todo,          \* the pages an erasing loop has left
  why,           \* what stopped the firmware
  count,         \* saves begun; also the payload of the last one
  done,          \* history: the saves whose last halfword was programmed
  scans          \* history: how often scan_headers has run since power-on

ram == <<append_point, page_seq, free_pages, values>>
vars == <<flash, append_point, page_seq, free_pages, values, pc, job, todo,
          why, count, done, scans>>

Sectors == 0..(NSECTORS - 1)
Area == 0..(NSECTORS * PAGE_SIZE - 1)
Addr(s, off) == s * PAGE_SIZE + off
LenOf(tag) == IF tag = "header" THEN HeaderLen ELSE RecordLen[tag]

Erased == [tag |-> "erased", val |-> 0, k |-> 0]
Word(tag, val, k) == [tag |-> tag, val |-> val, k |-> k]
Nothing == [t \in Tags |-> 0]
NoJob == [page |-> 0, tag |-> "erased", val |-> 0, k |-> 0, try |-> 1, then |-> "none"]
NoPages == [n \in {} |-> 0]

(* The map `old` after the entries of `new` have been put into it.          *)
Updated(old, new) ==
  [n \in DOMAIN old \cup DOMAIN new |-> IF n \in DOMAIN new THEN new[n] ELSE old[n]]

Largest(S) == CHOOSE x \in S : \A y \in S : y <= x
Least(S) == CHOOSE x \in S : \A y \in S : x <= y
Sorted(S) ==
  [i \in 1..Cardinality(S) |-> CHOOSE x \in S : Cardinality({y \in S : y < x}) = i - 1]

-----------------------------------------------------------------------------
(* Reading the flash f.                                                     *)

Programmed(f, a) == a \in Area /\ f[a] # Erased

(* read<config_header>(s, 0): it throws UncorrectibleECCError unless every  *)
(* halfword is programmed, and InvalidTagException on another record.       *)
BadTag(f, s) == /\ Programmed(f, Addr(s, 0)) /\ Programmed(f, Addr(s, 1))
                /\ f[Addr(s, 0)].tag # "header"
HasHeader(f, s) == \A k \in 0..(HeaderLen - 1) : Programmed(f, Addr(s, k))

(* Mutant: the halfwords of a record are not checked.                       *)
WalkUnchecked(f) == LET walk[a \in 0..(2 * NSECTORS * PAGE_SIZE)] ==
  IF ~Programmed(f, a) THEN [how |-> "end", at |-> a, vals |-> Nothing]
  ELSE IF f[a].tag \notin Tags THEN [how |-> "unknown_tag", at |-> a, vals |-> Nothing]
  ELSE [walk[a + RecordLen[f[a].tag]] EXCEPT
          !.vals[f[a].tag] = IF @ = 0 THEN f[a].val ELSE @]
  IN walk

(* The loop of do_load from the halfword at a: how it ends, where, and the  *)
(* last value it saw of each tag.                                           *)
Walk(f) == LET walk[a \in 0..(2 * NSECTORS * PAGE_SIZE)] ==
  IF ~Programmed(f, a) THEN [how |-> "end", at |-> a, vals |-> Nothing]
  ELSE IF f[a].tag \notin Tags THEN [how |-> "unknown_tag", at |-> a, vals |-> Nothing]
  ELSE IF \E k \in 1..(RecordLen[f[a].tag] - 1) : ~Programmed(f, a + k)
  THEN [how |-> "ecc_error", at |-> a, vals |-> Nothing]
  ELSE [walk[a + RecordLen[f[a].tag]] EXCEPT
          !.vals[f[a].tag] = IF @ = 0 THEN f[a].val ELSE @]
  IN walk

(* Mutant: the append point is where the loop starts, not where it ends.    *)
PageReadAtStart(f, s) ==
  IF Programmed(f, Addr(s, 1)) THEN [Walk(f)[Addr(s, HeaderLen)] EXCEPT !.at = Addr(s, HeaderLen)]
  ELSE [how |-> "ecc_error", at |-> Addr(s, 1), vals |-> Nothing]

(* One turn of do_load's loop over page_seq: read16(1) is outside the try.  *)
PageRead(f, s) ==
  IF Programmed(f, Addr(s, 1)) THEN Walk(f)[Addr(s, HeaderLen)]
  ELSE [how |-> "ecc_error", at |-> Addr(s, 1), vals |-> Nothing]

(* The value do_load leaves for tag t: that of the page read last.          *)
LastValue(reads, t, old) ==
  LET with == {n \in DOMAIN reads : reads[n].vals[t] # 0}
  IN IF with = {} THEN old ELSE reads[Largest(with)].vals[t]

-----------------------------------------------------------------------------
(* load().                                                                  *)

Init ==
  /\ flash = [a \in Area |-> Erased]
  /\ append_point = [s \in Sectors |-> 0] /\ page_seq = NoPages
  /\ free_pages = << >> /\ values = Nothing
  /\ pc = "off" /\ job = NoJob /\ todo = << >> /\ why = "none"
  /\ count = 0 /\ done = {} /\ scans = 0

Halt(reason) == pc' = "halted" /\ why' = reason /\ job' = NoJob /\ todo' = << >>

(* An exception in do_load: load() catches that of the first try only.      *)
LoadThrows(try) ==
  IF try = 1
  THEN /\ pc' = "wiping" /\ todo' = Sorted(Sectors)
       /\ job' = [NoJob EXCEPT !.try = 2] /\ UNCHANGED why
  ELSE Halt("uncaught")

(* Mutants: every page is listed as free; the loop ends a sector early.     *)
UnheaderedAll(f, stop) == Sorted(0..(stop - 1))
HeaderedBelow(f, stop) ==
  LET on == {s \in 0..(stop - 2) : HasHeader(f, s)}
      serial(s) == f[Addr(s, 0)].val
  IN [n \in {serial(s) : s \in on} |-> Largest({s \in on : serial(s) = n})]

(* scan_headers, up to the sector `stop` at which it throws.                *)
Unheadered(f, stop) == Sorted({s \in 0..(stop - 1) : ~HasHeader(f, s)})
Headered(f, stop) ==
  LET on == {s \in 0..(stop - 1) : HasHeader(f, s)}
      serial(s) == f[Addr(s, 0)].val
  IN [n \in {serial(s) : s \in on} |-> Largest({s \in on : serial(s) = n})]
ScanStop(f) == LET bad == {s \in Sectors : BadTag(f, s)}
               IN IF bad = {} THEN NSECTORS ELSE Least(bad)

(* The loop of do_load over the pages of seq, in the order of the serials.  *)
ReadPages(f, seq, try) ==
  LET reads == [n \in DOMAIN seq |-> PageRead(f, seq[n])]
      bad == {n \in DOMAIN seq : reads[n].how # "end"}
      endOf(s) == reads[Largest({n \in DOMAIN seq : seq[n] = s})].at - Addr(s, 0)
  IN IF bad = {}
     THEN /\ append_point' = [s \in Sectors |->
               IF \E n \in DOMAIN seq : seq[n] = s THEN endOf(s) ELSE append_point[s]]
          /\ values' = [t \in Tags |-> LastValue(reads, t, values[t])]
          /\ pc' = "ready" /\ job' = NoJob /\ todo' = << >>
          /\ UNCHANGED why
     ELSE /\ UNCHANGED <<append_point, values>>
          /\ IF reads[Least(bad)].how = "unknown_tag"
             THEN Halt("unknown_tag")     \* assert(read_map.contains(tag))
             ELSE LoadThrows(try)

(* do_load, up to the first halfword it programs.                           *)
DoLoad(f, try) ==
  LET stop == ScanStop(f)
      seq == Updated(page_seq, Headered(f, stop))
      free == free_pages \o Unheadered(f, stop)
  IN IF stop < NSECTORS
     THEN /\ page_seq' = seq /\ free_pages' = free /\ LoadThrows(try)
          /\ UNCHANGED <<append_point, values>>
     ELSE /\ page_seq' = seq
          /\ IF DOMAIN seq = {}
             THEN /\ free_pages' = Tail(free)
                  /\ pc' = "first"
                  /\ job' = [NoJob EXCEPT !.page = Head(free), !.tag = "header", !.try = try]
                  /\ UNCHANGED <<append_point, values, todo, why>>
             ELSE /\ free_pages' = free /\ ReadPages(f, seq, try)

PowerOn ==
  /\ pc = "off"
  /\ DoLoad(flash, 1) /\ scans' = 1
  /\ UNCHANGED <<flash, count, done>>

-----------------------------------------------------------------------------
(* save() and allocate_page().                                              *)

(* Mutants: the first page of the map; `>=` for `>`; the serial not raised. *)
NewestFirst == page_seq[Least(DOMAIN page_seq)]
HasRoomExactly(append, l) == PAGE_SIZE - append >= l
SerialRepeated == Largest(DOMAIN page_seq)

Newest == page_seq[Largest(DOMAIN page_seq)]
HasRoom(append, l) == PAGE_SIZE - append > l
NextSerial == Largest(DOMAIN page_seq) + 1

(* _do_save(), up to the first halfword it programs: record t on page s.   *)
DoSave(s, t, val, room) ==
  IF room
  THEN /\ pc' = "append" /\ todo' = << >> /\ UNCHANGED why
       /\ job' = [NoJob EXCEPT !.page = s, !.tag = t, !.val = val]
  ELSE Halt("has_room")

Save(t) ==
  /\ pc = "ready" /\ count < MaxSaves
  /\ count' = count + 1
  /\ IF DOMAIN page_seq = {}                  \* --page_seq.end() of an empty map
     THEN Halt("no_newest") /\ UNCHANGED free_pages
     ELSE IF HasRoom(append_point[Newest], RecordLen[t])
     THEN DoSave(Newest, t, count + 1, TRUE) /\ UNCHANGED free_pages
     ELSE IF free_pages = << >>                \* front() of an empty deque
     THEN Halt("no_free_page") /\ UNCHANGED free_pages
     ELSE /\ free_pages' = Tail(free_pages)
          /\ pc' = "header"
          /\ job' = [NoJob EXCEPT !.page = Head(free_pages), !.tag = "header",
                                  !.val = NextSerial, !.then = t]
          /\ UNCHANGED <<todo, why>>
  /\ UNCHANGED <<flash, append_point, page_seq, values, done, scans>>

-----------------------------------------------------------------------------
(* page::append, one halfword at a time.                                    *)

Offset == append_point[job.page]
Cell == Addr(job.page, Offset)
Programming == pc \in {"first", "header", "append"}
CanProgram == Programming /\ Offset < PAGE_SIZE /\ ~Programmed(flash, Cell)
IsLast == job.k + 1 = LenOf(job.tag)

WithWord == [flash EXCEPT ![Cell] = Word(job.tag, job.val, job.k)]
Advanced == [append_point EXCEPT ![job.page] = @ + 1]

(* Mutant: the value is there for readers before its last halfword.         *)
ProgramWordEager ==
  /\ CanProgram /\ ~IsLast
  /\ flash' = WithWord /\ append_point' = Advanced
  /\ job' = [job EXCEPT !.k = @ + 1]
  /\ values' = [t \in Tags |-> IF t = job.tag THEN job.val ELSE values[t]]
  /\ UNCHANGED <<page_seq, free_pages, pc, todo, why, count, done, scans>>

ProgramWord ==
  /\ CanProgram /\ ~IsLast
  /\ flash' = WithWord /\ append_point' = Advanced
  /\ job' = [job EXCEPT !.k = @ + 1]
  /\ UNCHANGED <<page_seq, free_pages, values, pc, todo, why, count, done, scans>>

(* The header of the first page is there: do_load scans again and reads.    *)
FirstWritten ==
  LET stop == ScanStop(WithWord)
      put == Updated(page_seq, [n \in {job.page} |-> job.page])
      seq == Updated(put, Headered(WithWord, stop))
  IN /\ pc = "first" /\ CanProgram /\ IsLast
     /\ flash' = WithWord
     /\ page_seq' = seq
     /\ free_pages' = free_pages \o Unheadered(WithWord, stop)
     /\ IF stop < NSECTORS
        THEN LoadThrows(job.try) /\ UNCHANGED <<append_point, values>>
        ELSE ReadPages(WithWord, seq, job.try)
     /\ scans' = scans + 1
     /\ UNCHANGED <<count, done>>

(* The header of a new page is there. When the last free page is taken the  *)
(* older ones are reclaimed; no code puts a tag into page::valid_tags, so   *)
(* that nothing is copied from them.                                        *)
HeaderWritten ==
  LET seq == Updated(page_seq, [n \in {job.val} |-> job.page])
      serials == Sorted(DOMAIN seq)
  IN /\ pc = "header" /\ CanProgram /\ IsLast
     /\ flash' = WithWord /\ append_point' = Advanced
     /\ page_seq' = seq
     /\ IF free_pages = << >> /\ Len(serials) > 1
        THEN /\ pc' = "reclaim"
             /\ todo' = [i \in 1..(Len(serials) - 1) |-> seq[serials[i]]]
             /\ job' = [NoJob EXCEPT !.page = job.page, !.then = job.then]
             /\ UNCHANGED why
        ELSE DoSave(job.page, job.then, count, HasRoom(Offset + 1, RecordLen[job.then]))
     /\ UNCHANGED <<free_pages, values, count, done, scans>>

RecordWritten ==
  /\ pc = "append" /\ CanProgram /\ IsLast
  /\ flash' = WithWord /\ append_point' = Advanced
  /\ values' = [values EXCEPT ![job.tag] = job.val]
  /\ done' = done \cup {job.val}
  /\ pc' = "ready" /\ job' = NoJob
  /\ UNCHANGED <<page_seq, free_pages, todo, why, count, scans>>

(* The halfword is programmed already: ProgramSequenceError. do_load        *)
(* returns, allocate_page returns -1 to save, which does not look at it,    *)
(* and _do_save lets the exception go to the command loop.                  *)
WriteRefused ==
  /\ Programming /\ Offset < PAGE_SIZE /\ Programmed(flash, Cell)
  /\ append_point' = Advanced
  /\ IF pc = "header"
     THEN DoSave(Newest, job.then, count, HasRoom(Advanced[Newest], RecordLen[job.then]))
     ELSE pc' = "ready" /\ job' = NoJob /\ UNCHANGED <<todo, why>>
  /\ UNCHANGED <<flash, page_seq, free_pages, values, count, done, scans>>

(* assert(off < PAGE_SIZE) in page::write16.                                *)
WriteBeyond ==
  /\ Programming /\ Offset >= PAGE_SIZE
  /\ append_point' = Advanced
  /\ Halt("past_end")
  /\ UNCHANGED <<flash, page_seq, free_pages, values, count, done, scans>>

-----------------------------------------------------------------------------
(* Erasing: load()'s recovery, allocate_page's reclaiming, config.erase().  *)

(* The bank is `sector > NSECTORS/2`, the sector in it `sector & 7`.        *)
ErasedSector(s) ==
  (IF s > NSECTORS \div 2 THEN NSECTORS \div 2 ELSE 0) + (s % (NSECTORS \div 2))

Without(s) == [a \in Area |->
  IF a \in Addr(ErasedSector(s), 0)..Addr(ErasedSector(s), PAGE_SIZE - 1)
  THEN Erased ELSE flash[a]]

(* Mutant: append_point gets the sentinel of the serial.                    *)
ErasePageSentinel ==
  /\ pc \in {"wiping", "reclaim", "erasing"} /\ todo # << >>
  /\ flash' = Without(Head(todo))
  /\ append_point' = [append_point EXCEPT ![Head(todo)] = -1]
  /\ todo' = Tail(todo)
  /\ UNCHANGED <<page_seq, free_pages, values, pc, job, why, count, done, scans>>

(* erase_page; page_seq.erase(p.serial) comes after p.serial is overwritten *)
(* and takes nothing out of the map.                                        *)
ErasePage ==
  /\ pc \in {"wiping", "reclaim", "erasing"} /\ todo # << >>
  /\ flash' = Without(Head(todo))
  /\ append_point' = [append_point EXCEPT ![Head(todo)] = 0]
  /\ todo' = Tail(todo)
  /\ UNCHANGED <<page_seq, free_pages, values, pc, job, why, count, done, scans>>

Wiped ==
  /\ pc = "wiping" /\ todo = << >>
  /\ DoLoad(flash, 2) /\ scans' = scans + 1
  /\ UNCHANGED <<flash, count, done>>

Reclaimed ==
  /\ pc = "reclaim" /\ todo = << >>
  /\ DoSave(job.page, job.then, count, HasRoom(Offset, RecordLen[job.then]))
  /\ UNCHANGED <<flash, append_point, page_seq, free_pages, values, count, done, scans>>

Erase ==
  /\ "erase" \in Allowed /\ pc = "ready"
  /\ page_seq' = NoPages /\ values' = Nothing
  /\ pc' = "erasing" /\ todo' = Sorted(Sectors)
  /\ UNCHANGED <<flash, append_point, free_pages, job, why, count, done, scans>>

EraseDone ==
  /\ pc = "erasing" /\ todo = << >>
  /\ pc' = "ready"
  /\ UNCHANGED <<flash, append_point, page_seq, free_pages, values, job, todo,
                 why, count, done, scans>>

(* The switch, the reset after a halt, or a power failure. What is in RAM   *)
(* is gone.                                                                 *)
PowerOff ==
  /\ \/ pc \in {"ready", "halted"}
     \/ "cut" \in Allowed /\ pc # "off"
  /\ append_point' = [s \in Sectors |-> 0] /\ page_seq' = NoPages
  /\ free_pages' = << >> /\ values' = Nothing
  /\ pc' = "off" /\ job' = NoJob /\ todo' = << >> /\ why' = "none"
  /\ scans' = 0
  /\ UNCHANGED <<flash, count, done>>

Next ==
  \/ PowerOn \/ PowerOff
  \/ ProgramWord \/ FirstWritten \/ HeaderWritten \/ RecordWritten
  \/ WriteRefused \/ WriteBeyond
  \/ ErasePage \/ Wiped \/ Reclaimed \/ Erase \/ EraseDone
  \/ \E t \in Tags : Save(t)

Spec == Init /\ [][Next]_vars

-----------------------------------------------------------------------------
(* Properties.                                                              *)

(* Every variable has its type; the deque never holds more than the scans   *)
(* of three loads put there.                                                *)
TypeOK ==
  /\ \A a \in Area : flash[a] # Erased =>
       /\ flash[a].tag \in Tags \cup {"header"}
       /\ flash[a].k \in 0..(LenOf(flash[a].tag) - 1)
  /\ append_point \in [Sectors -> 0..(PAGE_SIZE + 1)]
  /\ DOMAIN page_seq \subseteq Nat /\ \A n \in DOMAIN page_seq : page_seq[n] \in Sectors
  /\ free_pages \in Seq(Sectors) /\ Len(free_pages) <= 3 * NSECTORS
  /\ values \in [Tags -> 0..MaxSaves]
  /\ pc \in {"off", "first", "wiping", "ready", "header", "reclaim", "append", "erasing", "halted"}
  /\ todo \in Seq(Sectors) /\ count \in 0..MaxSaves /\ done \subseteq 1..MaxSaves
  /\ scans \in 0..3

(* load() throws its state away, and an assert fails, only where a power    *)
(* failure left a record or a header without its last halfwords.            *)
Torn == \E a \in Area :
  /\ flash[a] # Erased /\ flash[a].k < LenOf(flash[a].tag) - 1
  /\ flash[a + 1] # [flash[a] EXCEPT !.k = @ + 1]
OnlyTornStops ==
  [][pc # "wiping" /\ pc' \in {"wiping", "halted"} => Torn]_vars

(* What is left of the newest page is erased, so that a save can program it.*)
RoomIsErased ==
  pc = "ready" /\ DOMAIN page_seq # {} =>
    \A off \in append_point[Newest]..(PAGE_SIZE - 1) : ~Programmed(flash, Addr(Newest, off))

(* The session that writes the first header lists the free pages twice and  *)
(* may append to a page in use. In every other one a page that is listed as *)
(* free has no header and is listed once, and no record is appended past    *)
(* the end of a page.                                                       *)
FreePagesAreFree ==
  scans = 1 =>
    /\ why # "past_end"
    /\ pc = "ready" => \A i \in DOMAIN free_pages :
         /\ ~HasHeader(flash, free_pages[i])
         /\ \A j \in DOMAIN free_pages : free_pages[i] = free_pages[j] => i = j

(* A page that the next load() will read is known to this session too, so   *)
(* that its serial is not given out again. `config erase` empties the map   *)
(* and the flash together, but for the sector it does not reach.            *)
PagesAreKnown ==
  pc = "ready" =>
    \A s \in Sectors \ {NSECTORS \div 2} :
      HasHeader(flash, s) => \E n \in DOMAIN page_seq : page_seq[n] = s

(* A value that load() returned, or a save put there, was programmed to its *)
(* last halfword: no torn record is ever taken for a value.                 *)
OnlyWholeRecords == \A t \in Tags : values[t] \in {0} \cup done

(* A page with a header among its records: one that was taken as free while *)
(* it was in use. The loop of do_load stops at it with a failing assert.    *)
Spoiled(s) == \E off \in HeaderLen..(PAGE_SIZE - 1) : flash[Addr(s, off)].tag = "header"

(* The order in which do_load reads the pages is the order of the saves: in *)
(* the pages it can read, a record in a page of a higher serial is a later  *)
(* one.                                                                     *)
LogIsOrdered ==
  \A s, u \in Sectors :
    /\ HasHeader(flash, s) /\ ~Spoiled(s)
    /\ HasHeader(flash, u) /\ ~Spoiled(u)
    /\ flash[Addr(s, 0)].val < flash[Addr(u, 0)].val
    => \A i, j \in HeaderLen..(PAGE_SIZE - 1) :
         flash[Addr(s, i)].tag \in Tags /\ flash[Addr(u, j)].tag \in Tags
         => flash[Addr(s, i)].val < flash[Addr(u, j)].val

(* What survives if the power fails now: the last whole record of each tag; *)
(* nothing at all once a torn record waits for the next load() to find it.  *)
Kept ==
  LET pages == Headered(flash, NSECTORS)
      reads == [n \in DOMAIN pages |-> PageRead(flash, pages[n])]
  IN IF pc # "append" /\ \E n \in DOMAIN pages : reads[n].how # "end"
     THEN Nothing
     ELSE [t \in Tags |-> LastValue(reads, t, 0)]

View == IF pc \in {"ready", "header", "append", "reclaim", "erasing"} THEN values ELSE NoPages

(* The store implements KeyValueStore: a reader sees what flash keeps, a    *)
(* save is atomic, a power failure loses all or nothing.                    *)
Store == INSTANCE KeyValueStore
  WITH Values <- 1..MaxSaves, NoValue <- 0, kept <- Kept, view <- View
IsKeyValueStore == Store!Spec

(* allocate_page: a page is erased only when its valid records have been    *)
(* copied forward, so that reclaiming changes nothing of what flash keeps.  *)
ReclaimKeepsValues == [][pc = "reclaim" => Kept' = Kept]_vars

(* After `config erase` no record is left in flash.                         *)
EraseErases ==
  [][pc = "erasing" /\ pc' = "ready" => \A a \in Area : flash'[a] = Erased]_vars
=============================================================================
