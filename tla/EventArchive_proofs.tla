------------------------ MODULE EventArchive_proofs ------------------------
(***************************************************************************)
(* Proofs about the event log and its archive, for any number of writers,  *)
(* compactors, readers, lines and faults.  No file that was ever at the    *)
(* path of the log is lost, lines are only added to a file, and what a     *)
(* compactor carries over was in a file already.                           *)
(***************************************************************************)
EXTENDS EventArchive, SequenceTheorems, TLAPS

(***************************************************************************)
(* The invariant.                                                          *)
(***************************************************************************)
LinesOf(t) == {t[i] : i \in 1 .. Len(t)}

(* The event whose bytes are in a line, if any. *)
Holds(l, e) == l.kind \in {"event", "joined"} /\ l.of = e /\ e # 0

(* Events are numbered, and a summary names what is indexed. *)
LineOK(l) ==
    /\ l \in Line
    /\ l.kind = "event" => l.of \in 1 .. MaxEvents
    /\ l.kind = "joined" => l.of \in 0 .. MaxEvents
    /\ l.kind = "torn" => l.of = 0
    /\ l.kind = "summary" => l.of \in {0} \union index

(* What a compactor has in hand is in the files. *)
SeedOK(s) ==
    /\ s \in Seq(Line)
    /\ \A l \in LinesOf(s) : LineOK(l) /\ \A e : Holds(l, e) => e \in History

Lines ==
    /\ \A f \in Files : \A l \in LinesOf(text[f]) : LineOK(l)
    /\ \A c \in Compactor : SeedOK(seed[c])

(* A mover works on a file that it has put into the archive, a writer on   *)
(* an event. *)
AtWork ==
    /\ \A p \in Mover : pc[p] \in {"index", "reread"} => file[p] \in archived
    /\ \A w \in Writer : pc[w] # "idle" => event[w] # 0

(* Who is behind a lock owns it, unless it has outlived its sixty seconds; *)
(* only such a lock is taken from its owner. *)
OwnsLock ==
    /\ \A p \in Mover : pc[p] \in Inside /\ LockOf(p) \notin outlived => lock[LockOf(p)] = p
    /\ \A p \in Mover : pc[p] = "evict" => LockOf(p) \in outlived

(* A reader knows no event that is not in a file, and misses none that is  *)
(* not in a file it will still read, or refuse over. *)
LiveEvents == IF live = 0 THEN {} ELSE Parsed(live)
Elsewhere(r) == UNION {Parsed(f) : f \in Files \ seen[r]}

Query(r) ==
    /\ pc[r] = "gens" => known[r] \subseteq Readable
    /\ pc[r] = "list" => known[r] \subseteq answer[r] \union Elsewhere(r)
    /\ pc[r] = "live" /\ tier[r] = "healthy" /\ ~moved[r] =>
          known[r] \subseteq answer[r] \union LiveEvents
    /\ pc[r] = "answered" /\ tier[r] = "healthy" /\ ~moved[r] => known[r] \subseteq answer[r]

Queries == \A r \in Reader : Query(r)

IInv == TypeOK /\ Lines /\ AtWork /\ OwnsLock /\ Queries

(***************************************************************************)
(* Lines.                                                                  *)
(***************************************************************************)
LEMMA LinesIn == ASSUME NEW S, NEW t \in Seq(S) PROVE LinesOf(t) \subseteq S
  BY ElementOfSeq DEF LinesOf

LEMMA LinesConcat ==
  ASSUME NEW S, NEW s \in Seq(S), NEW t \in Seq(S)
  PROVE  s \o t \in Seq(S) /\ LinesOf(s \o t) = LinesOf(s) \union LinesOf(t)
<1>1. /\ s \o t \in Seq(S) /\ Len(s \o t) = Len(s) + Len(t)
      /\ \A i \in 1 .. Len(s) + Len(t) :
            (s \o t)[i] = IF i <= Len(s) THEN s[i] ELSE t[i - Len(s)]
  BY ConcatProperties
<1>2. Len(s) \in Nat /\ Len(t) \in Nat
  BY LenProperties
<1>3. ASSUME NEW l \in LinesOf(s \o t) PROVE l \in LinesOf(s) \union LinesOf(t)
  <2>1. PICK i \in 1 .. Len(s) + Len(t) : l = (s \o t)[i]
    BY <1>1, <1>3 DEF LinesOf
  <2>2. CASE i <= Len(s)
    BY <1>1, <1>2, <2>1, <2>2 DEF LinesOf
  <2>3. CASE i > Len(s)
    <3>1. i - Len(s) \in 1 .. Len(t) /\ l = t[i - Len(s)]
      BY <1>1, <1>2, <2>1, <2>3
    <3> QED BY <3>1 DEF LinesOf
  <2> QED BY <1>2, <2>2, <2>3
<1>4. ASSUME NEW i \in 1 .. Len(s) PROVE s[i] \in LinesOf(s \o t)
  <2>1. i \in 1 .. Len(s) + Len(t) /\ (s \o t)[i] = s[i]
    BY <1>1, <1>2
  <2> QED BY <1>1, <2>1 DEF LinesOf
<1>5. ASSUME NEW i \in 1 .. Len(t) PROVE t[i] \in LinesOf(s \o t)
  <2>1. /\ Len(s) + i \in 1 .. Len(s) + Len(t) /\ ~(Len(s) + i <= Len(s))
        /\ (Len(s) + i) - Len(s) = i
    BY <1>2
  <2>2. (s \o t)[Len(s) + i] = t[i]
    BY <1>1, <2>1
  <2> QED BY <1>1, <2>1, <2>2 DEF LinesOf
<1> QED BY <1>1, <1>3, <1>4, <1>5 DEF LinesOf

LEMMA LinesSub ==
  ASSUME NEW S, NEW s \in Seq(S), NEW m \in Nat \ {0}, NEW n \in Int, n <= Len(s)
  PROVE  /\ SubSeq(s, m, n) \in Seq(S) /\ LinesOf(SubSeq(s, m, n)) \subseteq LinesOf(s)
         /\ Len(SubSeq(s, m, n)) = IF m <= n THEN n - m + 1 ELSE 0
         /\ \A i \in m .. n : s[i] \in LinesOf(SubSeq(s, m, n))
<1>1. Len(s) \in Nat
  BY LenProperties
<1>2. \A i \in m .. n : s[i] \in S
  BY <1>1, ElementOfSeq
<1>3. /\ SubSeq(s, m, n) \in Seq(S)
      /\ Len(SubSeq(s, m, n)) = IF m <= n THEN n - m + 1 ELSE 0
      /\ \A i \in 1 .. n - m + 1 : SubSeq(s, m, n)[i] = s[m + i - 1]
  <2>1. m \in Int
    OBVIOUS
  <2> QED BY <1>2, <2>1, SubSeqProperties
<1>4. ASSUME NEW i \in 1 .. Len(SubSeq(s, m, n)) PROVE SubSeq(s, m, n)[i] \in LinesOf(s)
  <2>1. i \in 1 .. n - m + 1 /\ m + i - 1 \in 1 .. Len(s)
    BY <1>1, <1>3
  <2>2. SubSeq(s, m, n)[i] = s[m + i - 1]
    BY <1>3, <2>1
  <2> QED BY <2>1, <2>2 DEF LinesOf
<1>5. ASSUME NEW i \in m .. n PROVE s[i] \in LinesOf(SubSeq(s, m, n))
  <2>1. i - m + 1 \in 1 .. n - m + 1 /\ m + (i - m + 1) - 1 = i /\ m <= n
    OBVIOUS
  <2>2. SubSeq(s, m, n)[i - m + 1] = s[i]
    BY <1>3, <2>1
  <2> QED BY <1>3, <2>1, <2>2 DEF LinesOf
<1> QED BY <1>3, <1>4, <1>5 DEF LinesOf

LEMMA LinesOne == ASSUME NEW S, NEW l \in S
                  PROVE <<l>> \in Seq(S) /\ LinesOf(<<l>>) = {l} /\ <<l>>[1] = l /\ Len(<<l>>) = 1
  BY DEF LinesOf

LEMMA LinesNone == ASSUME NEW S PROVE <<>> \in Seq(S) /\ LinesOf(<<>>) = {} /\ Len(<<>>) = 0
<1>1. <<>> \in Seq(S) /\ Len(<<>>) = 0
  BY EmptySeq
<1> QED BY <1>1 DEF LinesOf

LEMMA KindsOfLines ==
  /\ \A e \in Nat : EventLine(e) \in Line
  /\ \A f \in Nat : SummaryOf(f) \in Line
  /\ Torn \in Line
  /\ \A l \in Line : Joined(l) \in Line
  BY DEF EventLine, SummaryOf, Torn, Joined, Line, Kinds

(* What an append makes of a file: nothing that could be read is lost, and *)
(* what is new is what was appended, the first line joined or not.         *)
LEMMA AppendedIs ==
  ASSUME NEW t \in Seq(Line), NEW new \in Seq(Line)
  PROVE  /\ Appended(t, new) \in Seq(Line)
         /\ \A l \in LinesOf(Appended(t, new)) :
               \/ l \in LinesOf(t) \/ l \in LinesOf(new)
               \/ \E m \in LinesOf(new) : l = Joined(m)
         /\ \A l \in LinesOf(t) : l.kind # "torn" => l \in LinesOf(Appended(t, new))
<1>0. Len(t) \in Nat /\ Len(new) \in Nat
  BY LenProperties
<1>1. CASE t # <<>> /\ new # <<>> /\ t[Len(t)].kind = "torn"
  <2> DEFINE a == SubSeq(t, 1, Len(t) - 1)
             b == SubSeq(new, 2, Len(new))
             j == <<Joined(new[1])>>
  <2>1. Len(t) \in Nat \ {0} /\ Len(new) \in Nat \ {0}
    BY <1>1, EmptySeq
  <2>2. new[1] \in Line /\ new[1] \in LinesOf(new)
    <3>1. 1 \in 1 .. Len(new)
      BY <2>1
    <3> QED BY <3>1, ElementOfSeq DEF LinesOf
  <2>3. j \in Seq(Line) /\ LinesOf(j) = {Joined(new[1])}
    BY <2>2, KindsOfLines, LinesOne
  <2>4. /\ a \in Seq(Line) /\ LinesOf(a) \subseteq LinesOf(t)
        /\ \A i \in 1 .. Len(t) - 1 : t[i] \in LinesOf(a)
    <3>1. Len(t) - 1 <= Len(t) /\ Len(t) - 1 \in Int /\ 1 \in Nat \ {0}
      BY <2>1
    <3> QED BY <3>1, LinesSub
  <2>5. b \in Seq(Line) /\ LinesOf(b) \subseteq LinesOf(new)
    <3>1. Len(new) <= Len(new) /\ Len(new) \in Int /\ 2 \in Nat \ {0}
      BY <2>1
    <3> QED BY <3>1, LinesSub
  <2>6. Appended(t, new) = a \o j \o b
    BY <1>1 DEF Appended
  <2> HIDE DEF a, b, j
  <2> DEFINE c == a \o j
  <2>7. c \in Seq(Line) /\ LinesOf(c) = LinesOf(a) \union LinesOf(j)
    BY <2>3, <2>4, LinesConcat
  <2>8. c \o b \in Seq(Line) /\ LinesOf(c \o b) = LinesOf(c) \union LinesOf(b)
    <3> HIDE DEF c
    <3> QED BY <2>5, <2>7, LinesConcat
  <2>9. ASSUME NEW i \in 1 .. Len(t), t[i].kind # "torn" PROVE t[i] \in LinesOf(a)
    <3>1. i # Len(t)
      BY <1>1, <2>9
    <3>2. i \in 1 .. Len(t) - 1
      BY <2>1, <3>1
    <3> QED BY <2>4, <3>2
  <2>10. \A l \in LinesOf(t) : l.kind # "torn" => l \in LinesOf(a)
    BY <2>9 DEF LinesOf
  <2> QED BY <2>2, <2>3, <2>4, <2>5, <2>6, <2>7, <2>8, <2>10
<1>2. CASE ~(t # <<>> /\ new # <<>> /\ t[Len(t)].kind = "torn")
  <2>1. Appended(t, new) = t \o new
    BY <1>2 DEF Appended
  <2> QED BY <2>1, LinesConcat
<1> QED BY <1>1, <1>2

LEMMA PartialIs ==
  ASSUME NEW s \in Seq(Line), NEW new \in Partial(s)
  PROVE  new \in Seq(Line) /\ \A l \in LinesOf(new) : l \in LinesOf(s) \/ l = Torn
<1>1. CASE new = <<>>
  BY <1>1, LinesNone
<1>2. CASE new # <<>>
  <2>0. Len(s) \in Nat
    BY LenProperties
  <2>1. PICK n \in 0 .. Len(s) - 1 : new = Append(SubSeq(s, 1, n), Torn)
    BY <1>2 DEF Partial
  <2> DEFINE a == SubSeq(s, 1, n)
  <2>2. a \in Seq(Line) /\ LinesOf(a) \subseteq LinesOf(s)
    <3>1. n \in Int /\ n <= Len(s) /\ 1 \in Nat \ {0}
      BY <2>0, <2>1
    <3> QED BY <3>1, LinesSub
  <2> HIDE DEF a
  <2>3. new = a \o <<Torn>>
    BY <2>1, <2>2, AppendIsConcat, KindsOfLines DEF a
  <2>4. <<Torn>> \in Seq(Line) /\ LinesOf(<<Torn>>) = {Torn}
    BY KindsOfLines, LinesOne
  <2>5. a \o <<Torn>> \in Seq(Line) /\ LinesOf(a \o <<Torn>>) = LinesOf(a) \union LinesOf(<<Torn>>)
    BY <2>2, <2>4, LinesConcat
  <2> QED BY <2>2, <2>3, <2>4, <2>5
<1> QED BY <1>1, <1>2

LEMMA LastLinesAre ==
  ASSUME NEW t \in Seq(Line)
  PROVE  LastLines(t) \in Seq(Line) /\ LinesOf(LastLines(t)) \subseteq LinesOf(t)
<1>1. CASE Len(t) <= Keep
  BY <1>1 DEF LastLines
<1>2. CASE ~(Len(t) <= Keep)
  <2>1. Len(t) \in Nat /\ Keep \in Nat
    BY LenProperties, SizesAssumption
  <2>2. Len(t) - Keep + 1 \in Nat \ {0} /\ Len(t) \in Int /\ Len(t) <= Len(t)
    BY <1>2, <2>1
  <2> QED BY <1>2, <2>2, LinesSub DEF LastLines
<1> QED BY <1>1, <1>2

(* What a file holds is a matter of its lines. *)
LEMMA ParsedIs ==
  /\ \A f \in Files : \A e :
        e \in Parsed(f) <=> \E l \in LinesOf(text[f]) : l.kind = "event" /\ l.of = e
  /\ \A f \in Files : \A e : e \in Held(f) <=> \E l \in LinesOf(text[f]) : Holds(l, e)
  BY DEF Parsed, Held, LinesOf, Holds

(***************************************************************************)
(* The parts of TypeOK.                                                    *)
(***************************************************************************)
DiskOK ==
    /\ text \in Seq(Seq(Line))
    /\ live \in {0} \union Files /\ live \notin archived
    /\ archived \union {live} = IF live = 0 THEN {0} \union Files ELSE Files
    /\ index \subseteq archived

LocksOK ==
    /\ lock \in [Locks -> Mover \union {Nobody}]
    /\ aged \subseteq {l \in Locks : lock[l] # Nobody}
    /\ aged \subseteq outlived /\ outlived \subseteq Locks

PlacesOK ==
    /\ pc \in [Proc -> WriterPlaces \union CompactorPlaces \union ReaderPlaces]
    /\ \A w \in Writer : pc[w] \in WriterPlaces
    /\ \A c \in Compactor : pc[c] \in CompactorPlaces
    /\ \A r \in Reader : pc[r] \in ReaderPlaces

WorkOK ==
    /\ file \in [Mover -> {0} \union Files]
    /\ \A p \in Mover : pc[p] \in Holding \ {"open_seed"} => file[p] # 0
    /\ event \in [Writer -> 0 .. MaxEvents]
    /\ seed \in [Compactor -> Seq(Line)]
    /\ seen \in [Compactor \union Reader -> SUBSET archived]

QueryOK ==
    /\ known \in [Reader -> SUBSET (1 .. MaxEvents)]
    /\ answer \in [Reader -> SUBSET (1 .. MaxEvents)]
    /\ tier \in [Reader -> Tiers]
    /\ moved \in [Reader -> BOOLEAN]

CountsOK == next \in 0 .. MaxEvents /\ faults \in 0 .. MaxFaults

LEMMA Parts == TypeOK <=> /\ DiskOK /\ LocksOK /\ PlacesOK
                          /\ WorkOK /\ QueryOK /\ CountsOK
  BY DEF TypeOK, DiskOK, LocksOK, PlacesOK, WorkOK, QueryOK, CountsOK

LEMMA FilesAre == ASSUME DiskOK PROVE Len(text) \in Nat /\ Files = 1 .. Len(text) /\ 0 \notin Files
                                      /\ archived \subseteq Files /\ Reachable = Files
<1>1. Len(text) \in Nat
  BY LenProperties DEF DiskOK
<1>2. Files = 1 .. Len(text) /\ 0 \notin Files
  BY <1>1 DEF Files
<1> QED BY <1>1, <1>2 DEF DiskOK, Reachable

LEMMA FileIs == ASSUME DiskOK, NEW f \in Files PROVE text[f] \in Seq(Line)
<1>1. f \in 1 .. Len(text)
  BY DEF Files
<1> QED BY <1>1, ElementOfSeq DEF DiskOK

(***************************************************************************)
(* What becomes of the files.                                              *)
(***************************************************************************)
Written(f, new) ==
    /\ text' = [text EXCEPT ![f] = Appended(@, new)]
    /\ UNCHANGED <<live, archived, index>>

Created ==
    /\ live = 0
    /\ text' = Append(text, <<>>) /\ live' = Len(text) + 1
    /\ UNCHANGED <<archived, index>>

Indexed ==
    /\ index \subseteq index' /\ index' \subseteq archived
    /\ UNCHANGED <<text, live, archived>>

Retired ==
    /\ live # 0
    /\ archived' = archived \union {live} /\ live' = 0
    /\ UNCHANGED <<text, index>>

(* Files stay, with all their lines but a torn one. *)
Grown ==
    /\ Len(text) <= Len(text') /\ archived \subseteq archived' /\ index \subseteq index'
    /\ \A f \in Files : \A l \in LinesOf(text[f]) : l.kind # "torn" => l \in LinesOf(text'[f])

(* All that is new in them are these lines, as they are or joined. *)
OnlyNew(lines) ==
    \A f \in Files' : \A l \in LinesOf(text'[f]) :
        \/ f \in Files /\ l \in LinesOf(text[f])
        \/ \E m \in lines : l = m \/ l = Joined(m)

LEMMA WrittenIs ==
  ASSUME DiskOK, NEW f \in Files, NEW new \in Seq(Line), Written(f, new)
  PROVE  DiskOK' /\ Grown /\ OnlyNew(LinesOf(new)) /\ Files' = Files
<1>0. text \in Seq(Seq(Line)) /\ f \in 1 .. Len(text) /\ Len(text) \in Nat
  BY FilesAre DEF DiskOK, Files
<1>1. text[f] \in Seq(Line)
  BY FileIs
<1> DEFINE t == Appended(text[f], new)
<1>2. /\ t \in Seq(Line)
      /\ \A l \in LinesOf(t) :
            \/ l \in LinesOf(text[f]) \/ l \in LinesOf(new)
            \/ \E m \in LinesOf(new) : l = Joined(m)
      /\ \A l \in LinesOf(text[f]) : l.kind # "torn" => l \in LinesOf(t)
  BY <1>1, AppendedIs
<1>3. text' = [text EXCEPT ![f] = t]
  BY DEF Written
<1> HIDE DEF t
<1>4. /\ text' \in Seq(Seq(Line)) /\ Len(text') = Len(text)
      /\ \A g \in 1 .. Len(text) : text'[g] = IF g = f THEN t ELSE text[g]
  BY <1>0, <1>2, <1>3, ExceptSeq
<1>5. Files' = Files
  BY <1>4 DEF Files
<1>6. DiskOK'
  BY <1>4, <1>5 DEF DiskOK, Written
<1>7. Grown
  BY <1>0, <1>2, <1>4 DEF Grown, Written, Files
<1>8. OnlyNew(LinesOf(new))
  BY <1>2, <1>4, <1>5 DEF OnlyNew, Files
<1> QED BY <1>5, <1>6, <1>7, <1>8

LEMMA CreatedIs ==
  ASSUME DiskOK, Created
  PROVE  /\ DiskOK' /\ Grown /\ OnlyNew({}) /\ Files' = Files \union {live'}
         /\ LinesOf(text'[live']) = {} /\ live' \in Files'
<1>0. text \in Seq(Seq(Line)) /\ Len(text) \in Nat /\ <<>> \in Seq(Line) /\ archived = Files
  BY FilesAre, LinesNone DEF DiskOK, Created
<1>1. /\ text' \in Seq(Seq(Line)) /\ Len(text') = Len(text) + 1
      /\ \A g \in 1 .. Len(text) : text'[g] = text[g]
      /\ text'[Len(text) + 1] = <<>>
  BY <1>0, AppendProperties DEF Created
<1>2. /\ Files' = 1 .. Len(text) + 1 /\ Files = 1 .. Len(text) /\ live' = Len(text) + 1
      /\ Files' = Files \union {live'}
  BY <1>0, <1>1 DEF Files, Created
<1>3. DiskOK'
  BY <1>0, <1>1, <1>2 DEF DiskOK, Created
<1>4. Grown
  BY <1>0, <1>1, <1>2 DEF Grown, Created
<1>5. LinesOf(text'[live']) = {}
  BY <1>1, <1>2, LinesNone
<1>6. OnlyNew({})
  BY <1>1, <1>2, <1>5 DEF OnlyNew
<1> QED BY <1>2, <1>3, <1>4, <1>5, <1>6

LEMMA MovedIs ==
  ASSUME DiskOK, UNCHANGED disk \/ Indexed \/ Retired
  PROVE  DiskOK' /\ Grown /\ OnlyNew({}) /\ Files' = Files
<1>1. Files' = Files /\ Len(text) \in Nat /\ text' = text
  BY FilesAre DEF Files, disk, Indexed, Retired
<1>2. DiskOK'
  BY <1>1, FilesAre DEF DiskOK, disk, Indexed, Retired
<1>3. Grown /\ OnlyNew({})
  BY <1>1 DEF Grown, OnlyNew, disk, Indexed, Retired
<1> QED BY <1>1, <1>2, <1>3

(***************************************************************************)
(* What a step makes of the files.                                         *)
(***************************************************************************)
OpenedBy(p) ==
    \/ Created /\ file' = [file EXCEPT ![p] = live']
    \/ live # 0 /\ UNCHANGED disk /\ file' = [file EXCEPT ![p] = live]

WrittenBy(w) ==
    pc[w] = "write" /\ w \in Writer /\ Written(file[w], <<EventLine(event[w])>>)

SeededBy(c) ==
    /\ pc[c] = "seed" /\ c \in Compactor
    /\ \E new \in Seq(Line) : /\ Written(file[c], new)
                              /\ \A l \in LinesOf(new) : l \in LinesOf(seed[c]) \/ l = Torn

LEMMA SomePlaces ==
  /\ \A w \in Writer : w \in Mover /\ w \notin Compactor /\ w \notin Reader /\ w \in Proc
  /\ \A c \in Compactor : c \in Mover /\ c \notin Writer /\ c \notin Reader /\ c \in Proc
  /\ \A r \in Reader : r \notin Mover /\ r \notin Writer /\ r \notin Compactor /\ r \in Proc
  BY ProcAssumption DEF Mover, Proc

LEMMA CrashIs ==
  ASSUME TypeOK, NEW p \in Mover, Crash(p)
  PROVE  UNCHANGED disk \/ SeededBy(p)
<1>1. CASE pc[p] = "seed"
  <2>1. PICK new \in Partial(seed[p]) : text' = [text EXCEPT ![file[p]] = Appended(@, new)]
    BY <1>1 DEF Crash
  <2>2. p \in Compactor
    BY <1>1 DEF TypeOK, Mover, WriterPlaces, MoverPlaces, Inside
  <2>3. new \in Seq(Line) /\ \A l \in LinesOf(new) : l \in LinesOf(seed[p]) \/ l = Torn
    BY <2>1, <2>2, PartialIs DEF TypeOK
  <2>4. Written(file[p], new)
    BY <2>1 DEF Crash, Written
  <2> QED BY <1>1, <2>2, <2>3, <2>4 DEF SeededBy
<1>2. CASE pc[p] # "seed"
  BY <1>2 DEF Crash, disk
<1> QED BY <1>1, <1>2

LEMMA DiskChange ==
  ASSUME TypeOK, AtWork, [Next]_vars
  PROVE  \/ UNCHANGED disk
         \/ Indexed
         \/ Retired /\ \E p \in Mover : Move(p)
         \/ \E p \in Mover : Created /\ OpenedBy(p)
         \/ \E w \in Writer : WrittenBy(w)
         \/ \E c \in Compactor : SeededBy(c)
<1> USE DEF disk
<1>1. CASE UNCHANGED vars
  BY <1>1 DEF vars
<1>2. ASSUME NEW p \in Mover, Crash(p) PROVE UNCHANGED disk \/ \E c \in Compactor : SeededBy(c)
  BY <1>2, CrashIs DEF SeededBy
<1>3. ASSUME NEW p \in Mover, MoverStep(p)
      PROVE  UNCHANGED disk \/ Indexed \/ (Retired /\ Move(p))
  <2>1. CASE Index(p)
    BY <2>1 DEF Index, Indexed, TypeOK, AtWork
  <2>2. CASE Move(p)
    BY <2>2 DEF Move, Retired
  <2> QED BY <1>3, <2>1, <2>2
          DEF MoverStep, TakeLock, JudgeLock, EvictLock, RetryLock, Release, Verify, MoveFails
<1>4. ASSUME NEW w \in Writer, WriterStep(w)
      PROVE  UNCHANGED disk \/ (Created /\ OpenedBy(w)) \/ WrittenBy(w)
  <2>1. CASE OpenLog(w)
    BY <2>1 DEF OpenLog, OpenLive, Created, OpenedBy
  <2>2. CASE WriteEvent(w)
    BY <2>2 DEF WriteEvent, Written, WrittenBy
  <2> QED BY <1>4, <2>1, <2>2 DEF WriterStep, StartLog, AppendFails
<1>5. ASSUME NEW c \in Compactor, CompactorStep(c)
      PROVE  UNCHANGED disk \/ Indexed \/ (Created /\ OpenedBy(c)) \/ SeededBy(c)
  <2>1. CASE Reconcile(c)
    BY <2>1, SomePlaces DEF Reconcile, Indexed, TypeOK
  <2>2. CASE OpenSeed(c)
    BY <2>2 DEF OpenSeed, OpenLive, Created, OpenedBy
  <2>3. CASE WriteSeed(c)
    <3>1. Written(file[c], seed[c]) /\ seed[c] \in Seq(Line) /\ pc[c] = "seed"
      BY <2>3 DEF WriteSeed, Written, TypeOK
    <3> QED BY <3>1 DEF SeededBy
  <2>4. CASE WriteSeedFails(c)
    <3>1. PICK new \in Partial(seed[c]) : text' = [text EXCEPT ![file[c]] = Appended(@, new)]
      BY <2>4 DEF WriteSeedFails
    <3>2. new \in Seq(Line) /\ \A l \in LinesOf(new) : l \in LinesOf(seed[c]) \/ l = Torn
      BY <3>1, PartialIs DEF TypeOK
    <3>3. Written(file[c], new) /\ pc[c] = "seed"
      BY <2>4, <3>1 DEF WriteSeedFails, Written
    <3> QED BY <3>2, <3>3 DEF SeededBy
  <2> QED BY <1>5, <2>1, <2>2, <2>3, <2>4
          DEF CompactorStep, StartCompact, FoldNeeded, ReadArchived, ReadArchivedFails
<1>6. ASSUME NEW r \in Reader, ReaderStep(r) PROVE UNCHANGED disk
  BY <1>6 DEF ReaderStep, StartQuery, ReadGenerations, ListArchive, ReadLive, EndQuery
<1>7. ASSUME NEW l \in Locks, AgeLock(l) PROVE UNCHANGED disk
  BY <1>7 DEF AgeLock
<1> QED BY <1>1, <1>2, <1>3, <1>4, <1>5, <1>6, <1>7, SomePlaces DEF Next

(* Every step adds lines that are as they should be, of one event more.    *)
DiskGoes(e) ==
    /\ DiskOK' /\ Grown /\ Files \subseteq Files'
    /\ \E lines : /\ OnlyNew(lines)
                  /\ \A m \in lines : LineOK(m) /\ \A x : Holds(m, x) => x \in History \union {e}

LEMMA WorkedFile ==
  ASSUME TypeOK, NEW p \in Mover, pc[p] \in {"write", "seed", "index", "reread"}
  PROVE  file[p] \in Files
  BY DEF TypeOK, Holding

LEMMA DiskStep ==
  ASSUME TypeOK, Lines, AtWork, [Next]_vars
  PROVE  \E e \in 1 .. MaxEvents \union {0} : DiskGoes(e)
<1>1. DiskOK
  BY Parts
<1>2. CASE UNCHANGED disk \/ Indexed \/ Retired
  <2>1. DiskGoes(0)
    BY <1>1, <1>2, MovedIs DEF DiskGoes
  <2> QED BY <2>1
<1>3. CASE Created
  <2>1. DiskGoes(0)
    BY <1>1, <1>3, CreatedIs DEF DiskGoes
  <2> QED BY <2>1
<1>4. ASSUME NEW w \in Writer, WrittenBy(w) PROVE \E e \in 1 .. MaxEvents : DiskGoes(e)
  <2> DEFINE e == event[w]
             l == EventLine(e)
  <2>1. e \in 1 .. MaxEvents
    BY <1>4, SizesAssumption DEF WrittenBy, AtWork, TypeOK
  <2>2. l \in Line /\ l.kind = "event" /\ l.of = e /\ e # 0
    BY <2>1, KindsOfLines, SizesAssumption DEF EventLine
  <2>3. LineOK(l) /\ \A x : Holds(l, x) => x = e
    BY <2>1, <2>2 DEF LineOK, Holds
  <2>4. file[w] \in Files /\ Written(file[w], <<l>>)
    BY <1>4, WorkedFile, SomePlaces DEF WrittenBy
  <2> HIDE DEF l, e
  <2>5. <<l>> \in Seq(Line) /\ LinesOf(<<l>>) = {l}
    BY <2>2, LinesOne
  <2>6. DiskOK' /\ Grown /\ OnlyNew({l}) /\ Files' = Files
    BY <1>1, <2>4, <2>5, WrittenIs
  <2>7. DiskGoes(e)
    BY <2>3, <2>6 DEF DiskGoes
  <2> QED BY <2>1, <2>7
<1>5. ASSUME NEW c \in Compactor, SeededBy(c) PROVE DiskGoes(0)
  <2>1. PICK new \in Seq(Line) : /\ Written(file[c], new)
                                 /\ \A l \in LinesOf(new) : l \in LinesOf(seed[c]) \/ l = Torn
    BY <1>5 DEF SeededBy
  <2>2. file[c] \in Files
    BY <1>5, WorkedFile, SomePlaces DEF SeededBy
  <2>3. DiskOK' /\ Grown /\ OnlyNew(LinesOf(new)) /\ Files' = Files
    BY <1>1, <2>1, <2>2, WrittenIs
  <2>4. LineOK(Torn) /\ \A x : ~Holds(Torn, x)
    BY KindsOfLines DEF LineOK, Holds, Torn
  <2>5. \A m \in LinesOf(new) : LineOK(m) /\ \A x : Holds(m, x) => x \in History
    BY <2>1, <2>4 DEF Lines, SeedOK
  <2> QED BY <2>3, <2>5 DEF DiskGoes
<1> QED BY <1>2, <1>3, <1>4, <1>5, DiskChange

(***************************************************************************)
(* History.                                                                *)
(***************************************************************************)
LEMMA HistoryIs ==
  ASSUME DiskOK
  PROVE  /\ \A e : e \in History <=> \E f \in Files : \E l \in LinesOf(text[f]) : Holds(l, e)
         /\ Readable = UNION {Parsed(f) : f \in Files}
  BY FilesAre, ParsedIs DEF History, Readable

LEMMA HistoryNextIs ==
  ASSUME DiskOK'
  PROVE  \A e : e \in History' <=> \E f \in Files' : \E l \in LinesOf(text'[f]) : Holds(l, e)
<1>1. Len(text') \in Nat
  BY LenProperties DEF DiskOK
<1>2. Files' = 1 .. Len(text') /\ 0 \notin Files'
  BY <1>1 DEF Files
<1>3. Reachable' = Files'
  BY <1>1, <1>2 DEF DiskOK, Reachable
<1>4. \A f \in Files' : \A e : e \in Held(f)' <=> \E l \in LinesOf(text'[f]) : Holds(l, e)
  BY DEF Held, LinesOf, Holds
<1> QED BY <1>3, <1>4 DEF History

LEMMA JoinedIs ==
  ASSUME NEW m, LineOK(m)
  PROVE  LineOK(Joined(m)) /\ \A x : Holds(Joined(m), x) => Holds(m, x)
<1>1. Joined(m) \in Line /\ Joined(m).kind = "joined"
      /\ Joined(m).of = IF m.kind = "summary" THEN 0 ELSE m.of
  BY KindsOfLines DEF Joined, LineOK
<1>2. m.kind \in Kinds
  BY DEF LineOK, Line
<1>3. Joined(m).of \in 0 .. MaxEvents
  BY <1>1, <1>2, SizesAssumption DEF LineOK, Kinds
<1>4. LineOK(Joined(m))
  BY <1>1, <1>3 DEF LineOK
<1>5. ASSUME NEW x, Holds(Joined(m), x) PROVE Holds(m, x)
  BY <1>1, <1>2, <1>5 DEF Holds, LineOK, Kinds
<1> QED BY <1>4, <1>5

LEMMA HistoryStep ==
  ASSUME DiskOK, NEW e \in 1 .. MaxEvents \union {0}, DiskGoes(e)
  PROVE  /\ History \subseteq History' /\ History' \subseteq History \union {e}
         /\ 0 \notin History'
<1>1. PICK lines : /\ OnlyNew(lines)
                   /\ \A m \in lines : LineOK(m)
                                       /\ \A x : Holds(m, x) => x \in History \union {e}
  BY DEF DiskGoes
<1>2. \A x : x \in History <=> \E f \in Files : \E l \in LinesOf(text[f]) : Holds(l, x)
  BY HistoryIs
<1>3. \A x : x \in History' <=> \E f \in Files' : \E l \in LinesOf(text'[f]) : Holds(l, x)
  BY HistoryNextIs DEF DiskGoes
<1>4. ASSUME NEW x \in History PROVE x \in History'
  <2>1. PICK f \in Files : \E l \in LinesOf(text[f]) : Holds(l, x)
    BY <1>2, <1>4
  <2>2. PICK l \in LinesOf(text[f]) : Holds(l, x)
    BY <2>1
  <2>3. f \in Files' /\ l \in LinesOf(text'[f])
    BY <2>1, <2>2 DEF DiskGoes, Grown, Holds
  <2> QED BY <1>3, <2>2, <2>3
<1>5. ASSUME NEW x \in History' PROVE x \in History \union {e}
  <2>1. PICK f \in Files' : \E l \in LinesOf(text'[f]) : Holds(l, x)
    BY <1>3, <1>5
  <2>2. PICK l \in LinesOf(text'[f]) : Holds(l, x)
    BY <2>1
  <2>3. CASE f \in Files /\ l \in LinesOf(text[f])
    BY <1>2, <2>2, <2>3
  <2>4. ASSUME NEW m \in lines, l = m \/ l = Joined(m) PROVE x \in History \union {e}
    BY <1>1, <2>2, <2>4, JoinedIs
  <2> QED BY <1>1, <2>2, <2>3, <2>4 DEF OnlyNew
<1>6. 0 \notin History'
  BY <1>3 DEF Holds
<1> QED BY <1>4, <1>5, <1>6

LEMMA LineStays == ASSUME NEW l, LineOK(l), index \subseteq index' PROVE LineOK(l)'
  BY DEF LineOK

LEMMA TextStep ==
  ASSUME DiskOK, Lines, NEW e, DiskGoes(e)
  PROVE  \A f \in Files' : \A l \in LinesOf(text'[f]) : LineOK(l)'
<1>1. PICK lines : OnlyNew(lines) /\ \A m \in lines : LineOK(m)
  BY DEF DiskGoes
<1>2. index \subseteq index'
  BY DEF DiskGoes, Grown
<1> SUFFICES ASSUME NEW f \in Files', NEW l \in LinesOf(text'[f]) PROVE LineOK(l)'
  OBVIOUS
<1>3. LineOK(l)
  <2>1. CASE f \in Files /\ l \in LinesOf(text[f])
    BY <2>1 DEF Lines
  <2>2. ASSUME NEW m \in lines, l = m \/ l = Joined(m) PROVE LineOK(l)
    BY <1>1, <2>2, JoinedIs
  <2> QED BY <1>1, <2>1, <2>2 DEF OnlyNew
<1> QED BY <1>2, <1>3, LineStays

(* The events that a parser finds stay, too. *)
LEMMA ParsedStay ==
  ASSUME NEW e, DiskGoes(e), NEW f \in Files
  PROVE  Parsed(f) \subseteq Parsed(f)'
<1>1. ASSUME NEW x \in Parsed(f) PROVE x \in Parsed(f)'
  <2>1. PICK l \in LinesOf(text[f]) : l.kind = "event" /\ l.of = x
    BY <1>1, ParsedIs
  <2>2. l \in LinesOf(text'[f])
    BY <2>1 DEF DiskGoes, Grown
  <2> QED BY <2>1, <2>2 DEF Parsed, LinesOf
<1> QED BY <1>1

LEMMA ParsedNumbered ==
  ASSUME Lines, NEW f \in Files
  PROVE  Parsed(f) \subseteq 1 .. MaxEvents
  BY ParsedIs DEF Lines, LineOK

(***************************************************************************)
(* Types, part by part.                                                    *)
(***************************************************************************)
LEMMA LocksStep == ASSUME TypeOK, [Next]_vars PROVE LocksOK'
<1>0. LocksOK /\ \A p \in Mover : LockOf(p) \in Locks
  BY Parts DEF LockOf, Locks
<1>1. ASSUME UNCHANGED locks PROVE LocksOK'
  BY <1>0, <1>1 DEF LocksOK, locks
<1>2. ASSUME NEW p \in Mover, lock[LockOf(p)] = Nobody, Own(LockOf(p), p) PROVE LocksOK'
  BY <1>0, <1>2 DEF LocksOK, Own
<1>3. ASSUME NEW p \in Mover, Unlink(LockOf(p)) PROVE LocksOK'
  BY <1>0, <1>3 DEF LocksOK, Unlink
<1>4. ASSUME NEW p \in Mover, MoverStep(p) \/ Crash(p) PROVE LocksOK'
  BY <1>1, <1>2, <1>3, <1>4
  DEF MoverStep, TakeLock, JudgeLock, EvictLock, RetryLock, Release, Verify, Move, MoveFails,
      Index, Crash
<1>5. ASSUME NEW w \in Writer, WriterStep(w) PROVE LocksOK'
  BY <1>1, <1>5 DEF WriterStep, StartLog, OpenLog, WriteEvent, AppendFails
<1>6. ASSUME NEW c \in Compactor, CompactorStep(c) PROVE LocksOK'
  BY <1>1, <1>6 DEF CompactorStep, StartCompact, Reconcile, FoldNeeded, ReadArchived,
                    ReadArchivedFails, OpenSeed, WriteSeed, WriteSeedFails
<1>7. ASSUME NEW r \in Reader, ReaderStep(r) PROVE LocksOK'
  BY <1>1, <1>7 DEF ReaderStep, StartQuery, ReadGenerations, ListArchive, ReadLive, EndQuery
<1>8. ASSUME NEW l \in Locks, AgeLock(l) PROVE LocksOK'
  BY <1>0, <1>8 DEF AgeLock, LocksOK
<1>9. CASE UNCHANGED vars
  BY <1>1, <1>9 DEF vars
<1> QED BY <1>4, <1>5, <1>6, <1>7, <1>8, <1>9 DEF Next

LEMMA PlacesStep == ASSUME TypeOK, [Next]_vars PROVE PlacesOK'
<1>0. PlacesOK
  BY Parts
<1>1. CASE UNCHANGED vars
  BY <1>0, <1>1 DEF PlacesOK, vars
<1>2. ASSUME NEW w \in Writer, NEW place \in WriterPlaces, Goto(w, place) PROVE PlacesOK'
  BY <1>0, <1>2, SomePlaces DEF PlacesOK, Goto
<1>3. ASSUME NEW c \in Compactor, NEW place \in CompactorPlaces, Goto(c, place) PROVE PlacesOK'
  BY <1>0, <1>3, SomePlaces DEF PlacesOK, Goto
<1>4. ASSUME NEW r \in Reader, NEW place \in ReaderPlaces, Goto(r, place) PROVE PlacesOK'
  BY <1>0, <1>4, SomePlaces DEF PlacesOK, Goto
<1>5. ASSUME NEW p \in Mover, MoverStep(p) \/ Crash(p) PROVE PlacesOK'
  <2>1. PICK place \in {"idle", "open", "verify", "judge", "evict", "retry", "move", "release",
                        "index", "reread"} :
           /\ Goto(p, place)
           /\ p \in Writer => place # "reread"
           /\ p \notin Writer => place # "open"
    BY <1>5 DEF MoverStep, TakeLock, JudgeLock, EvictLock, RetryLock, Release, Verify, Move,
                MoveFails, Index, Crash, After
  <2>2. CASE p \in Writer
    BY <1>2, <2>1, <2>2 DEF WriterPlaces, MoverPlaces, Inside
  <2>3. CASE p \in Compactor
    BY <1>3, <2>1, <2>3, SomePlaces DEF CompactorPlaces, MoverPlaces, Inside
  <2> QED BY <2>2, <2>3 DEF Mover
<1>6. ASSUME NEW w \in Writer, WriterStep(w) PROVE PlacesOK'
  <2>1. PICK place \in {"idle", "lock", "open", "write"} : Goto(w, place)
    BY <1>6 DEF WriterStep, StartLog, OpenLog, OpenLive, WriteEvent, AppendFails, EndLog
  <2> QED BY <1>2, <2>1 DEF WriterPlaces, MoverPlaces, Inside
<1>7. ASSUME NEW c \in Compactor, CompactorStep(c) PROVE PlacesOK'
  <2>1. PICK place \in {"reconcile", "fold", "lock", "idle", "open_seed", "release", "seed"} :
           Goto(c, place)
    BY <1>7 DEF CompactorStep, StartCompact, Reconcile, FoldNeeded, ReadArchived,
                ReadArchivedFails, OpenSeed, OpenLive, WriteSeed, WriteSeedFails
  <2> QED BY <1>3, <2>1 DEF CompactorPlaces, MoverPlaces, Inside
<1>8. ASSUME NEW r \in Reader, ReaderStep(r) PROVE PlacesOK'
  <2>1. PICK place \in ReaderPlaces : Goto(r, place)
    BY <1>8 DEF ReaderStep, StartQuery, ReadGenerations, ListArchive, ReadLive, EndQuery,
                ReaderPlaces
  <2> QED BY <1>4, <2>1
<1>9. ASSUME NEW l \in Locks, AgeLock(l) PROVE PlacesOK'
  BY <1>0, <1>9 DEF AgeLock, PlacesOK
<1> QED BY <1>1, <1>5, <1>6, <1>7, <1>8, <1>9 DEF Next

LEMMA CountsStep == ASSUME TypeOK, [Next]_vars PROVE CountsOK'
<1>0. CountsOK /\ MaxEvents \in Nat /\ MaxFaults \in Nat
  BY Parts, SizesAssumption
<1>1. ASSUME UNCHANGED counts \/ (UNCHANGED next /\ (UNCHANGED faults \/ Fault)) PROVE CountsOK'
  BY <1>0, <1>1 DEF CountsOK, counts, Fault
<1>2. ASSUME NEW p \in Mover, MoverStep(p) \/ Crash(p) PROVE CountsOK'
  BY <1>1, <1>2
  DEF MoverStep, TakeLock, JudgeLock, EvictLock, RetryLock, Release, Verify, Move, MoveFails,
      Index, Crash
<1>3. ASSUME NEW w \in Writer, WriterStep(w) PROVE CountsOK'
  <2>1. CASE StartLog(w)
    BY <1>0, <2>1 DEF StartLog, CountsOK
  <2> QED BY <1>1, <1>3, <2>1 DEF WriterStep, OpenLog, WriteEvent, AppendFails
<1>4. ASSUME NEW c \in Compactor, CompactorStep(c) PROVE CountsOK'
  BY <1>1, <1>4 DEF CompactorStep, StartCompact, Reconcile, FoldNeeded, ReadArchived,
                    ReadArchivedFails, OpenSeed, WriteSeed, WriteSeedFails
<1>5. ASSUME NEW r \in Reader, ReaderStep(r) PROVE CountsOK'
  BY <1>1, <1>5 DEF ReaderStep, StartQuery, ReadGenerations, ListArchive, ReadLive, EndQuery
<1>6. ASSUME NEW l \in Locks, AgeLock(l) PROVE CountsOK'
  BY <1>1, <1>6 DEF AgeLock
<1>7. CASE UNCHANGED vars
  BY <1>1, <1>7 DEF vars
<1> QED BY <1>2, <1>3, <1>4, <1>5, <1>6, <1>7 DEF Next

(***************************************************************************)
(* What the processes have in hand.                                        *)
(***************************************************************************)
FileOK ==
    /\ file \in [Mover -> {0} \union Files]
    /\ \A p \in Mover : pc[p] \in Holding \ {"open_seed"} => file[p] # 0
    /\ \A p \in Mover : pc[p] \in {"index", "reread"} => file[p] \in archived

LEMMA FileKept ==
  ASSUME FileOK, Files \subseteq Files', archived \subseteq archived', NEW p \in Mover,
         UNCHANGED file \/ file' = [file EXCEPT ![p] = file'[p]],
         \A q \in Mover \ {p} : pc'[q] = pc[q],
         file'[p] \in {0} \union Files',
         pc'[p] \in Holding \ {"open_seed"} => file'[p] # 0,
         pc'[p] \in {"index", "reread"} => file'[p] \in archived'
  PROVE  FileOK'
<1>1. file' \in [Mover -> {0} \union Files'] /\ \A q \in Mover \ {p} : file'[q] = file[q]
  BY DEF FileOK
<1>2. ASSUME NEW q \in Mover
      PROVE  /\ pc'[q] \in Holding \ {"open_seed"} => file'[q] # 0
             /\ pc'[q] \in {"index", "reread"} => file'[q] \in archived'
  <2>1. CASE q = p
    BY <2>1
  <2>2. CASE q # p
    BY <1>1, <2>2 DEF FileOK
  <2> QED BY <2>1, <2>2
<1> QED BY <1>1, <1>2 DEF FileOK

LEMMA FilesGo ==
  ASSUME TypeOK, Lines, AtWork, [Next]_vars
  PROVE  /\ DiskOK' /\ Files \subseteq Files' /\ archived \subseteq archived'
         /\ index \subseteq index'
  BY DiskStep DEF DiskGoes, Grown

LEMMA GotoIs ==
  ASSUME TypeOK, NEW p \in Proc, NEW place, Goto(p, place)
  PROVE  pc'[p] = place /\ \A q \in Proc \ {p} : pc'[q] = pc[q]
  BY DEF TypeOK, Goto

LEMMA FileStep == ASSUME TypeOK, Lines, AtWork, [Next]_vars PROVE FileOK'
<1>0. /\ FileOK /\ Files \subseteq Files' /\ archived \subseteq archived'
      /\ \A p \in Mover : file[p] \in {0} \union Files' /\ p \in Proc
  BY FilesGo, SomePlaces DEF TypeOK, AtWork, FileOK, Proc
<1>1. ASSUME NEW p \in Mover, NEW place, place \notin Holding \ {"open_seed"}, Goto(p, place),
             UNCHANGED file \/ file' = [file EXCEPT ![p] = 0]
      PROVE  FileOK'
  <2>1. /\ pc'[p] = place /\ \A q \in Mover \ {p} : pc'[q] = pc[q]
    BY <1>0, <1>1, GotoIs
  <2>2. file'[p] \in {0} \union Files' /\ (UNCHANGED file \/ file' = [file EXCEPT ![p] = file'[p]])
    BY <1>0, <1>1 DEF FileOK
  <2>3. pc'[p] \notin {"index", "reread"} /\ pc'[p] \notin Holding \ {"open_seed"}
    BY <1>1, <2>1 DEF Holding
  <2> QED BY <1>0, <2>1, <2>2, <2>3, FileKept
<1>2. ASSUME UNCHANGED <<file, pc>> PROVE FileOK'
  BY <1>0, <1>2 DEF FileOK
<1>3. ASSUME NEW p \in Mover, MoverStep(p) \/ Crash(p) PROVE FileOK'
  <2>1. CASE Move(p)
    <3>1. /\ live # 0 /\ file' = [file EXCEPT ![p] = live] /\ Goto(p, "index")
          /\ archived' = archived \union {live}
      BY <2>1 DEF Move
    <3>2. pc'[p] = "index" /\ \A q \in Mover \ {p} : pc'[q] = pc[q]
      BY <1>0, <3>1, GotoIs
    <3>3. file'[p] = live /\ live \in archived' /\ live \in Files' /\ live # 0
      BY <1>0, <3>1 DEF FileOK, TypeOK
    <3> QED BY <1>0, <3>1, <3>2, <3>3, FileKept
  <2>2. CASE Index(p)
    <3>1. /\ file' = file /\ Goto(p, IF p \in Writer THEN "release" ELSE "reread")
          /\ pc[p] = "index"
      BY <2>2 DEF Index
    <3>2. pc'[p] \in {"release", "reread"} /\ \A q \in Mover \ {p} : pc'[q] = pc[q]
      BY <1>0, <3>1, GotoIs
    <3>3. file'[p] # 0 /\ file'[p] \in archived' /\ file'[p] \in {0} \union Files'
      BY <1>0, <3>1 DEF FileOK, Holding
    <3> QED BY <1>0, <3>1, <3>2, <3>3, FileKept
  <2>3. CASE ~Move(p) /\ ~Index(p)
    <3>1. PICK place \in {"verify", "judge", "evict", "open", "idle", "retry", "move", "release"} :
             Goto(p, place)
      BY <1>3, <2>3 DEF MoverStep, TakeLock, JudgeLock, EvictLock, RetryLock, Release, Verify,
                        MoveFails, Crash, After
    <3>2. UNCHANGED file \/ file' = [file EXCEPT ![p] = 0]
      BY <1>3, <2>3 DEF MoverStep, TakeLock, JudgeLock, EvictLock, RetryLock, Release, Verify,
                        MoveFails, Crash, work
    <3> QED BY <1>1, <3>1, <3>2 DEF Holding
  <2> QED BY <2>1, <2>2, <2>3
<1>4. ASSUME NEW p \in Mover, OpenLive(p, "write") \/ OpenLive(p, "seed"), DiskOK PROVE FileOK'
  <2>1. file' = [file EXCEPT ![p] = IF live = 0 THEN Len(text) + 1 ELSE live]
        /\ (Goto(p, "write") \/ Goto(p, "seed"))
    BY <1>4 DEF OpenLive
  <2>2. pc'[p] \in {"write", "seed"} /\ \A q \in Mover \ {p} : pc'[q] = pc[q]
    BY <1>0, <2>1, GotoIs
  <2>3. file'[p] = live' /\ live' # 0
    BY <1>0, <1>4, <2>1, FilesAre DEF FileOK, OpenLive
  <2>4. live' \in Files'
    BY <2>3, FilesGo DEF DiskOK
  <2> QED BY <1>0, <2>1, <2>2, <2>3, <2>4, FileKept
<1>5. ASSUME NEW w \in Writer, WriterStep(w) PROVE FileOK'
  <2>0. w \in Mover
    BY SomePlaces
  <2>1. CASE OpenLog(w)
    BY <1>4, <2>0, <2>1, Parts DEF OpenLog
  <2>2. CASE ~OpenLog(w)
    <3>1. PICK place \in {"idle", "lock", "open"} : Goto(w, place)
      BY <1>5, <2>2 DEF WriterStep, StartLog, WriteEvent, AppendFails, EndLog
    <3>2. UNCHANGED file \/ file' = [file EXCEPT ![w] = 0]
      BY <1>5, <2>2 DEF WriterStep, StartLog, WriteEvent, AppendFails, EndLog
    <3> QED BY <1>1, <2>0, <3>1, <3>2 DEF Holding
  <2> QED BY <2>1, <2>2
<1>6. ASSUME NEW c \in Compactor, CompactorStep(c) PROVE FileOK'
  <2>0. c \in Mover
    BY SomePlaces
  <2>1. CASE OpenSeed(c)
    BY <1>4, <2>0, <2>1, Parts DEF OpenSeed
  <2>2. CASE ~OpenSeed(c)
    <3>1. PICK place \in {"reconcile", "fold", "lock", "idle", "open_seed", "release"} :
             Goto(c, place)
      BY <1>6, <2>2 DEF CompactorStep, StartCompact, Reconcile, FoldNeeded, ReadArchived,
                        ReadArchivedFails, WriteSeed, WriteSeedFails
    <3>2. UNCHANGED file
      BY <1>6, <2>2 DEF CompactorStep, StartCompact, Reconcile, FoldNeeded, ReadArchived,
                        ReadArchivedFails, WriteSeed, WriteSeedFails, work
    <3> QED BY <1>1, <2>0, <3>1, <3>2 DEF Holding
  <2> QED BY <2>1, <2>2
<1>7. ASSUME NEW r \in Reader, ReaderStep(r) PROVE FileOK'
  <2>1. \E place : Goto(r, place)
    BY <1>7 DEF ReaderStep, StartQuery, ReadGenerations, ListArchive, ReadLive, EndQuery
  <2>2. \A p \in Mover : pc'[p] = pc[p]
    BY <1>0, <2>1, SomePlaces, GotoIs
  <2>3. UNCHANGED file
    BY <1>7 DEF ReaderStep, StartQuery, ReadGenerations, ListArchive, ReadLive, EndQuery, work
  <2> QED BY <1>0, <2>2, <2>3 DEF FileOK
<1>8. ASSUME NEW l \in Locks, AgeLock(l) PROVE FileOK'
  BY <1>2, <1>8 DEF AgeLock, work
<1>9. CASE UNCHANGED vars
  BY <1>2, <1>9 DEF vars, work
<1> QED BY <1>3, <1>5, <1>6, <1>7, <1>8, <1>9 DEF Next

EventOK ==
    /\ event \in [Writer -> 0 .. MaxEvents]
    /\ \A w \in Writer : pc[w] # "idle" => event[w] # 0

LEMMA EventStep == ASSUME TypeOK, AtWork, [Next]_vars PROVE EventOK'
<1>0. EventOK /\ MaxEvents \in Nat
  BY SizesAssumption DEF TypeOK, AtWork, EventOK
<1>1. ASSUME UNCHANGED event, \A w \in Writer : pc'[w] = pc[w] \/ pc'[w] = "idle" \/ pc[w] # "idle"
      PROVE  EventOK'
  BY <1>0, <1>1 DEF EventOK
<1>2. ASSUME NEW p \in Mover, MoverStep(p) PROVE EventOK'
  <2>1. UNCHANGED event /\ pc[p] # "idle" /\ \E place : Goto(p, place)
    BY <1>2 DEF MoverStep, TakeLock, JudgeLock, EvictLock, RetryLock, Release, Verify, Move,
                MoveFails, Index, work
  <2> QED BY <1>1, <2>1, SomePlaces, GotoIs DEF Proc
<1>3. ASSUME NEW p \in Mover, Crash(p) PROVE EventOK'
  <2>1. Goto(p, "idle") /\ event' = [w \in Writer |-> IF w = p THEN 0 ELSE event[w]]
    BY <1>3 DEF Crash
  <2>2. \A w \in Writer : w # p => pc'[w] = pc[w] /\ event'[w] = event[w]
    BY <2>1, SomePlaces, GotoIs DEF Proc
  <2>3. pc'[p] = "idle"
    BY <2>1, GotoIs DEF Proc
  <2> QED BY <1>0, <2>1, <2>2, <2>3 DEF EventOK
<1>4. ASSUME NEW w \in Writer, WriterStep(w) PROVE EventOK'
  <2>1. CASE StartLog(w)
    <3>1. /\ event' = [event EXCEPT ![w] = next + 1] /\ next + 1 \in 1 .. MaxEvents
          /\ \E place : Goto(w, place)
      BY <1>0, <2>1 DEF StartLog, TypeOK
    <3>2. \A v \in Writer : v # w => pc'[v] = pc[v]
      BY <3>1, SomePlaces, GotoIs
    <3> QED BY <1>0, <3>1, <3>2 DEF EventOK
  <2>2. CASE EndLog(w)
    <3>1. event' = [event EXCEPT ![w] = 0] /\ Goto(w, "idle")
      BY <2>2 DEF EndLog
    <3>2. pc'[w] = "idle" /\ \A v \in Writer : v # w => pc'[v] = pc[v]
      BY <3>1, SomePlaces, GotoIs
    <3> QED BY <1>0, <3>1, <3>2 DEF EventOK
  <2>3. CASE OpenLog(w)
    <3>1. UNCHANGED event /\ pc[w] # "idle" /\ Goto(w, "write")
      BY <2>3 DEF OpenLog, OpenLive
    <3> QED BY <1>1, <3>1, SomePlaces, GotoIs
  <2> QED BY <1>4, <2>1, <2>2, <2>3 DEF WriterStep, WriteEvent, AppendFails
<1>5. ASSUME NEW p \in Compactor \union Reader, UNCHANGED event, \E place : Goto(p, place)
      PROVE  EventOK'
  <2>1. \A w \in Writer : pc'[w] = pc[w]
    BY <1>5, SomePlaces, GotoIs
  <2> QED BY <1>0, <1>5, <2>1 DEF EventOK
<1>6. ASSUME NEW c \in Compactor, CompactorStep(c) PROVE EventOK'
  <2>1. UNCHANGED event /\ \E place : Goto(c, place)
    BY <1>6 DEF CompactorStep, StartCompact, Reconcile, FoldNeeded, ReadArchived,
                ReadArchivedFails, OpenSeed, OpenLive, WriteSeed, WriteSeedFails, work
  <2> QED BY <1>5, <2>1
<1>7. ASSUME NEW r \in Reader, ReaderStep(r) PROVE EventOK'
  <2>1. UNCHANGED event /\ \E place : Goto(r, place)
    BY <1>7 DEF ReaderStep, StartQuery, ReadGenerations, ListArchive, ReadLive, EndQuery, work
  <2> QED BY <1>5, <2>1
<1>8. CASE UNCHANGED vars \/ \E l \in Locks : AgeLock(l)
  BY <1>0, <1>8 DEF vars, work, AgeLock, EventOK
<1> QED BY <1>2, <1>3, <1>4, <1>6, <1>7, <1>8 DEF Next

(***************************************************************************)
(* What a compactor carries over.                                          *)
(***************************************************************************)
SeedOKNext(s) ==
    /\ s \in Seq(Line)
    /\ \A l \in LinesOf(s) : LineOK(l)' /\ \A e : Holds(l, e) => e \in History'

LEMMA SeedStays ==
  ASSUME NEW s, SeedOK(s), History \subseteq History', index \subseteq index'
  PROVE  SeedOKNext(s)
  BY LineStays DEF SeedOK, SeedOKNext

LEMMA SummaryIs ==
  ASSUME DiskOK', NEW f \in {0} \union index'
  PROVE  SeedOKNext(<<SummaryOf(f)>>)
<1>1. Len(text') \in Nat
  BY LenProperties DEF DiskOK
<1>2. f \in Nat
  BY <1>1 DEF DiskOK, Files
<1>3. SummaryOf(f) \in Line /\ SummaryOf(f).kind = "summary" /\ SummaryOf(f).of = f
  BY <1>2, KindsOfLines DEF SummaryOf
<1>4. LineOK(SummaryOf(f))' /\ \A e : ~Holds(SummaryOf(f), e)
  BY <1>3 DEF LineOK, Holds
<1> DEFINE l == SummaryOf(f)
<1>5. <<l>> \in Seq(Line) /\ LinesOf(<<l>>) = {l}
  <2>1. l \in Line
    BY <1>3
  <2> HIDE DEF l
  <2> QED BY <2>1, LinesOne
<1> QED BY <1>4, <1>5 DEF SeedOKNext

LEMMA SeedNone == SeedOKNext(<<>>)
  BY LinesNone DEF SeedOKNext

LEMMA CarriedIs ==
  ASSUME TypeOK, Lines, NEW s, SeedOK(s), NEW f \in Files
  PROVE  SeedOK(s \o LastLines(text[f]))
<1>1. DiskOK /\ text[f] \in Seq(Line)
  BY Parts, FileIs
<1> DEFINE t == LastLines(text[f])
<1>2. t \in Seq(Line) /\ LinesOf(t) \subseteq LinesOf(text[f])
  BY <1>1, LastLinesAre
<1>3. \A l \in LinesOf(t) : LineOK(l) /\ \A e : Holds(l, e) => e \in History
  BY <1>1, <1>2, HistoryIs DEF Lines
<1> HIDE DEF t
<1>4. s \o t \in Seq(Line) /\ LinesOf(s \o t) = LinesOf(s) \union LinesOf(t)
  BY <1>2, LinesConcat DEF SeedOK
<1>5. SeedOK(s \o t)
  BY <1>3, <1>4 DEF SeedOK
<1> QED BY <1>5 DEF t

LEMMA SeedStep ==
  ASSUME TypeOK, Lines, AtWork, [Next]_vars, History \subseteq History'
  PROVE  /\ seed' \in [Compactor -> Seq(Line)]
         /\ \A c \in Compactor : SeedOKNext(seed'[c])
<1>0. /\ DiskOK' /\ index \subseteq index' /\ seed \in [Compactor -> Seq(Line)]
      /\ \A c \in Compactor : SeedOKNext(seed[c])
  BY FilesGo, SeedStays DEF TypeOK, Lines
<1> DEFINE Same == UNCHANGED seed
           Cleared(p, s) == seed' = [c \in Compactor |-> IF c = p THEN s ELSE seed[c]]
           Goal == /\ seed' \in [Compactor -> Seq(Line)]
                   /\ \A c \in Compactor : SeedOKNext(seed'[c])
<1>1. ASSUME Same PROVE Goal
  BY <1>0, <1>1
<1>2. ASSUME NEW p, NEW s, SeedOKNext(s), Cleared(p, s) PROVE Goal
  <2>1. s \in Seq(Line)
    BY <1>2 DEF SeedOKNext
  <2> QED BY <1>0, <1>2, <2>1
<1>3. ASSUME NEW p \in Mover, MoverStep(p) \/ Crash(p) PROVE Goal
  <2>1. CASE Release(p) \/ Crash(p)
    <3>1. Cleared(p, <<>>)
      BY <2>1 DEF Release, Crash
    <3> QED BY <1>2, <3>1, SeedNone
  <2>2. CASE Index(p)
    <3> DEFINE f == IF file[p] \in index' THEN file[p] ELSE 0
    <3>1. Cleared(p, <<SummaryOf(f)>>)
      BY <2>2 DEF Index
    <3>2. SeedOKNext(<<SummaryOf(f)>>)
      <4>1. f \in {0} \union index'
        OBVIOUS
      <4> HIDE DEF f
      <4> QED BY <1>0, <4>1, SummaryIs
    <3> QED BY <1>2, <3>1, <3>2
  <2>3. CASE ~Release(p) /\ ~Crash(p) /\ ~Index(p)
    BY <1>1, <1>3, <2>3
    DEF MoverStep, TakeLock, JudgeLock, EvictLock, RetryLock, Verify, Move, MoveFails, work
  <2> QED BY <2>1, <2>2, <2>3
<1>4. ASSUME NEW w \in Writer, WriterStep(w) PROVE Goal
  BY <1>1, <1>4 DEF WriterStep, StartLog, OpenLog, WriteEvent, AppendFails
<1>5. ASSUME NEW c \in Compactor, CompactorStep(c) PROVE Goal
  <2>1. CASE ReadArchived(c)
    <3> DEFINE s == seed[c] \o LastLines(text[file[c]])
    <3>1. seed' = [seed EXCEPT ![c] = s] /\ pc[c] = "reread"
      BY <2>1 DEF ReadArchived
    <3>2. file[c] \in Files
      BY <3>1, SomePlaces, WorkedFile
    <3>3. SeedOK(seed[c])
      BY DEF Lines
    <3>4. SeedOK(s)
      BY <3>2, <3>3, CarriedIs
    <3> HIDE DEF s
    <3>5. SeedOKNext(s)
      BY <1>0, <3>4, SeedStays
    <3>6. Cleared(c, s)
      BY <1>0, <3>1
    <3> QED BY <1>2, <3>5, <3>6
  <2>2. CASE ~ReadArchived(c)
    BY <1>1, <1>5, <2>2 DEF CompactorStep, StartCompact, Reconcile, FoldNeeded,
                            ReadArchivedFails, OpenSeed, WriteSeed, WriteSeedFails, work
  <2> QED BY <2>1, <2>2
<1>6. ASSUME NEW r \in Reader, ReaderStep(r) PROVE Goal
  BY <1>1, <1>6 DEF ReaderStep, StartQuery, ReadGenerations, ListArchive, ReadLive, EndQuery,
                    work
<1>7. ASSUME NEW l \in Locks, AgeLock(l) PROVE Goal
  BY <1>1, <1>7 DEF AgeLock, work
<1>8. CASE UNCHANGED vars
  BY <1>1, <1>8 DEF vars, work
<1> QED BY <1>3, <1>4, <1>5, <1>6, <1>7, <1>8 DEF Next

LEMMA SeenStep ==
  ASSUME TypeOK, Lines, AtWork, [Next]_vars
  PROVE  seen' \in [Compactor \union Reader -> SUBSET (archived')]
<1>0. /\ seen \in [Compactor \union Reader -> SUBSET archived]
      /\ archived \subseteq archived' /\ index \subseteq archived
  BY FilesGo DEF TypeOK
<1> DEFINE Goal == seen' \in [Compactor \union Reader -> SUBSET (archived')]
<1>1. ASSUME UNCHANGED seen PROVE Goal
  BY <1>0, <1>1
<1>2. ASSUME NEW p \in Compactor \union Reader, NEW s \in SUBSET archived,
             seen' = [seen EXCEPT ![p] = s]
      PROVE  Goal
  BY <1>0, <1>2
<1>3. ASSUME NEW p \in Mover, MoverStep(p) PROVE Goal
  BY <1>1, <1>3
  DEF MoverStep, TakeLock, JudgeLock, EvictLock, RetryLock, Release, Verify, Move, MoveFails,
      Index, work
<1>4. ASSUME NEW p \in Mover, Crash(p) PROVE Goal
  <2>1. seen' = [q \in Compactor \union Reader |-> IF q = p THEN {} ELSE seen[q]]
    BY <1>0, <1>4 DEF Crash
  <2> QED BY <1>0, <2>1
<1>5. ASSUME NEW w \in Writer, WriterStep(w) PROVE Goal
  BY <1>1, <1>5 DEF WriterStep, StartLog, OpenLog, WriteEvent, AppendFails
<1>6. ASSUME NEW c \in Compactor, CompactorStep(c) PROVE Goal
  <2>1. CASE StartCompact(c)
    BY <1>2, <2>1 DEF StartCompact
  <2>2. CASE Reconcile(c)
    BY <1>2, <2>2 DEF Reconcile
  <2>3. CASE ~StartCompact(c) /\ ~Reconcile(c)
    BY <1>1, <1>6, <2>3 DEF CompactorStep, FoldNeeded, ReadArchived, ReadArchivedFails,
                            OpenSeed, WriteSeed, WriteSeedFails, work
  <2> QED BY <2>1, <2>2, <2>3
<1>7. ASSUME NEW r \in Reader, ReaderStep(r) PROVE Goal
  <2>1. CASE StartQuery(r)
    BY <1>0, <1>2, <2>1 DEF StartQuery
  <2>2. CASE EndQuery(r)
    BY <1>2, <2>2 DEF EndQuery
  <2>3. CASE ~StartQuery(r) /\ ~EndQuery(r)
    BY <1>1, <1>7, <2>3 DEF ReaderStep, ReadGenerations, ListArchive, ReadLive, work
  <2> QED BY <2>1, <2>2, <2>3
<1>8. ASSUME NEW l \in Locks, AgeLock(l) PROVE Goal
  BY <1>1, <1>8 DEF AgeLock, work
<1>9. CASE UNCHANGED vars
  BY <1>1, <1>9 DEF vars, work
<1> QED BY <1>3, <1>4, <1>5, <1>6, <1>7, <1>8, <1>9 DEF Next

(***************************************************************************)
(* Locks.                                                                  *)
(***************************************************************************)
LEMMA OwnsStep == ASSUME TypeOK, OwnsLock, [Next]_vars PROVE OwnsLock'
<1>0. /\ \A p \in Mover : LockOf(p) \in Locks /\ p \in Proc /\ p # Nobody
      /\ \A p \in Mover : ~(pc[p] \in Inside /\ pc[p] = "evict")
      /\ LocksOK
  BY SomePlaces, ProcAssumption, Parts DEF LockOf, Locks, Mover, Proc, Inside
<1> DEFINE Still == /\ lock' = lock /\ outlived \subseteq outlived'
<1>1. ASSUME Still, \A p \in Mover : pc'[p] \in Inside => pc[p] \in Inside,
             \A p \in Mover : pc'[p] = "evict" => pc[p] = "evict" \/ LockOf(p) \in outlived
      PROVE  OwnsLock'
  BY <1>1 DEF OwnsLock, LockOf
<1>2. ASSUME NEW p \in Proc, Still, NEW place, Goto(p, place), place # "evict",
             place \in Inside => pc[p] \in Inside
      PROVE  OwnsLock'
  <2>1. pc'[p] = place /\ \A q \in Mover \ {p} : pc'[q] = pc[q]
    BY <1>0, <1>2, GotoIs
  <2> QED BY <1>1, <1>2, <2>1
<1>3. ASSUME NEW p \in Mover, lock[LockOf(p)] = Nobody, Own(LockOf(p), p), Goto(p, "verify")
      PROVE  OwnsLock'
  <2>1. pc'[p] = "verify" /\ \A q \in Mover \ {p} : pc'[q] = pc[q]
    BY <1>0, <1>3, GotoIs
  <2>2. lock'[LockOf(p)] = p /\ \A l \in Locks \ {LockOf(p)} : lock'[l] = lock[l]
    BY <1>0, <1>3 DEF Own, LocksOK
  <2>3. ASSUME NEW q \in Mover, pc'[q] \in Inside, LockOf(q) \notin outlived
        PROVE  lock'[LockOf(q)] = q
    <3>1. CASE q = p
      BY <2>2, <3>1
    <3>2. CASE q # p
      <4>1. lock[LockOf(q)] = q
        BY <2>1, <2>3, <3>2 DEF OwnsLock
      <4>2. LockOf(q) # LockOf(p)
        BY <1>0, <1>3, <4>1
      <4> QED BY <1>0, <2>2, <4>1, <4>2
    <3> QED BY <3>1, <3>2
  <2>4. outlived' = outlived
    BY <1>3 DEF Own
  <2>5. \A q \in Mover : pc'[q] = "evict" => LockOf(q) \in outlived
    BY <2>1 DEF OwnsLock
  <2> QED BY <2>3, <2>4, <2>5 DEF OwnsLock, LockOf
<1>4. ASSUME NEW p \in Mover, NEW place, Unlink(LockOf(p)), Goto(p, place),
             place \notin Inside, place # "evict",
             \/ LockOf(p) \in outlived
             \/ pc[p] \in Inside
      PROVE  OwnsLock'
  <2>1. pc'[p] = place /\ \A q \in Mover \ {p} : pc'[q] = pc[q]
    BY <1>0, <1>4, GotoIs
  <2>2. \A l \in Locks \ {LockOf(p)} : lock'[l] = lock[l]
    BY <1>0, <1>4 DEF Unlink, LocksOK
  <2>3. ASSUME NEW q \in Mover, pc'[q] \in Inside, LockOf(q) \notin outlived
        PROVE  lock'[LockOf(q)] = q
    <3>1. q # p /\ lock[LockOf(q)] = q
      BY <1>4, <2>1, <2>3 DEF OwnsLock
    <3>2. LockOf(q) # LockOf(p)
      BY <1>4, <2>3, <3>1 DEF OwnsLock
    <3> QED BY <1>0, <2>2, <3>1, <3>2
  <2>4. outlived' = outlived
    BY <1>4 DEF Unlink
  <2>5. \A q \in Mover : pc'[q] = "evict" => LockOf(q) \in outlived
    BY <1>4, <2>1 DEF OwnsLock
  <2> QED BY <2>3, <2>4, <2>5 DEF OwnsLock, LockOf
<1>5. ASSUME NEW p \in Mover, MoverStep(p) \/ Crash(p) PROVE OwnsLock'
  <2>0. After(p) \in {"open", "idle"} /\ p \in Proc
    BY <1>0 DEF After
  <2>1. CASE TakeLock(p)
    BY <1>2, <1>3, <2>0, <2>1 DEF TakeLock, locks, Inside
  <2>2. CASE JudgeLock(p)
    <3>1. CASE LockOf(p) \in aged
      <4>1. Goto(p, "evict") /\ Still /\ LockOf(p) \in outlived
        BY <1>0, <2>2, <3>1 DEF JudgeLock, locks, LocksOK
      <4>2. pc'[p] = "evict" /\ \A q \in Mover \ {p} : pc'[q] = pc[q]
        BY <1>0, <4>1, GotoIs
      <4> QED BY <1>1, <4>1, <4>2 DEF Inside
    <3>2. CASE LockOf(p) \notin aged
      BY <1>2, <2>0, <2>2, <3>2 DEF JudgeLock, locks, Inside
    <3> QED BY <3>1, <3>2
  <2>3. CASE EvictLock(p)
    BY <1>4, <2>3 DEF EvictLock, OwnsLock, Inside
  <2>4. CASE RetryLock(p)
    BY <1>2, <1>3, <2>0, <2>4 DEF RetryLock, locks, Inside
  <2>5. CASE Release(p)
    BY <1>4, <2>0, <2>5 DEF Release, Inside
  <2>6. CASE Verify(p) \/ Move(p) \/ MoveFails(p) \/ Index(p)
    <3>1. PICK place \in {"move", "release", "index", "reread"} : Goto(p, place)
      BY <2>6 DEF Verify, Move, MoveFails, Index
    <3>2. Still /\ pc[p] \in Inside
      BY <2>6 DEF Verify, Move, MoveFails, Index, locks, Inside
    <3> QED BY <1>2, <2>0, <3>1, <3>2
  <2>7. CASE Crash(p)
    BY <1>2, <2>0, <2>7 DEF Crash, locks, Inside
  <2> QED BY <1>5, <2>1, <2>2, <2>3, <2>4, <2>5, <2>6, <2>7 DEF MoverStep
<1>6. ASSUME NEW w \in Writer, WriterStep(w) PROVE OwnsLock'
  <2>1. PICK place \in {"lock", "open", "write", "idle"} : Goto(w, place)
    BY <1>6 DEF WriterStep, StartLog, OpenLog, OpenLive, WriteEvent, AppendFails, EndLog
  <2>2. Still
    BY <1>6 DEF WriterStep, StartLog, OpenLog, WriteEvent, AppendFails, locks
  <2> QED BY <1>2, <2>1, <2>2, SomePlaces DEF Inside
<1>7. ASSUME NEW c \in Compactor, CompactorStep(c) PROVE OwnsLock'
  <2>1. PICK place \in {"reconcile", "fold", "lock", "idle", "open_seed", "seed", "release"} :
           Goto(c, place) /\ (place \in Inside => pc[c] \in Inside)
    BY <1>7 DEF CompactorStep, StartCompact, Reconcile, FoldNeeded, ReadArchived,
                ReadArchivedFails, OpenSeed, OpenLive, WriteSeed, WriteSeedFails, Inside
  <2>2. Still
    BY <1>7 DEF CompactorStep, StartCompact, Reconcile, FoldNeeded, ReadArchived,
                ReadArchivedFails, OpenSeed, WriteSeed, WriteSeedFails, locks
  <2> QED BY <1>2, <2>1, <2>2, SomePlaces DEF Inside
<1>8. ASSUME NEW r \in Reader, ReaderStep(r) PROVE OwnsLock'
  <2>1. \E place : Goto(r, place)
    BY <1>8 DEF ReaderStep, StartQuery, ReadGenerations, ListArchive, ReadLive, EndQuery
  <2>2. \A p \in Mover : pc'[p] = pc[p]
    BY <1>0, <2>1, SomePlaces, GotoIs
  <2>3. Still
    BY <1>8 DEF ReaderStep, StartQuery, ReadGenerations, ListArchive, ReadLive, EndQuery, locks
  <2> QED BY <1>1, <2>2, <2>3
<1>9. ASSUME NEW l \in Locks, AgeLock(l) PROVE OwnsLock'
  BY <1>1, <1>9 DEF AgeLock
<1>10. CASE UNCHANGED vars
  BY <1>1, <1>10 DEF vars, locks
<1> QED BY <1>5, <1>6, <1>7, <1>8, <1>9, <1>10 DEF Next

(***************************************************************************)
(* Queries.                                                                *)
(***************************************************************************)
LEMMA QueryStep == ASSUME TypeOK, Lines, [Next]_vars PROVE QueryOK'
<1>0. QueryOK /\ DiskOK
  BY Parts
<1>1. Readable \subseteq 1 .. MaxEvents
  BY <1>0, HistoryIs, ParsedNumbered
<1>2. \A f \in Files : Parsed(f) \subseteq 1 .. MaxEvents
  BY ParsedNumbered
<1>3. ASSUME UNCHANGED query PROVE QueryOK'
  BY <1>0, <1>3 DEF QueryOK, query
<1>4. ASSUME NEW p \in Mover, MoverStep(p) \/ Crash(p) PROVE QueryOK'
  <2>1. CASE Move(p)
    <3>1. UNCHANGED <<known, answer, tier>>
          /\ moved' = [r \in Reader |-> moved[r] \/ pc[r] = "live"]
      BY <2>1 DEF Move
    <3>2. moved' \in [Reader -> BOOLEAN]
      BY <3>1
    <3> QED BY <1>0, <3>1, <3>2 DEF QueryOK
  <2>2. CASE ~Move(p)
    BY <1>3, <1>4, <2>2
    DEF MoverStep, TakeLock, JudgeLock, EvictLock, RetryLock, Release, Verify, MoveFails, Index,
        Crash
  <2> QED BY <2>1, <2>2
<1>5. ASSUME NEW w \in Writer, WriterStep(w) PROVE QueryOK'
  BY <1>3, <1>5 DEF WriterStep, StartLog, OpenLog, WriteEvent, AppendFails
<1>6. ASSUME NEW c \in Compactor, CompactorStep(c) PROVE QueryOK'
  BY <1>3, <1>6 DEF CompactorStep, StartCompact, Reconcile, FoldNeeded, ReadArchived,
                    ReadArchivedFails, OpenSeed, WriteSeed, WriteSeedFails
<1>7. ASSUME NEW r \in Reader, ReaderStep(r) PROVE QueryOK'
  <2>1. CASE StartQuery(r)
    BY <1>0, <1>1, <2>1 DEF StartQuery, QueryOK, Tiers
  <2>2. CASE ReadGenerations(r)
    <3>1. seen[r] \subseteq Files
      BY <1>0, FilesAre DEF TypeOK
    <3>2. UNION {Parsed(f) : f \in seen[r]} \subseteq 1 .. MaxEvents
      BY <1>2, <3>1
    <3> QED BY <1>0, <2>2, <3>2 DEF ReadGenerations, QueryOK
  <2>3. CASE ListArchive(r)
    BY <1>0, <2>3 DEF ListArchive, QueryOK, Tiers
  <2>4. CASE ReadLive(r)
    <3> DEFINE s == IF live = 0 THEN {} ELSE Parsed(live)
    <3>1. s \subseteq 1 .. MaxEvents
      BY <1>0, <1>2 DEF DiskOK
    <3>2. answer' = [answer EXCEPT ![r] = @ \union s] /\ UNCHANGED <<known, tier, moved>>
      BY <2>4 DEF ReadLive
    <3> HIDE DEF s
    <3> QED BY <1>0, <3>1, <3>2 DEF QueryOK
  <2>5. CASE EndQuery(r)
    BY <1>0, <2>5 DEF EndQuery, QueryOK, Tiers
  <2> QED BY <1>7, <2>1, <2>2, <2>3, <2>4, <2>5 DEF ReaderStep
<1>8. ASSUME NEW l \in Locks, AgeLock(l) PROVE QueryOK'
  BY <1>3, <1>8 DEF AgeLock
<1>9. CASE UNCHANGED vars
  BY <1>3, <1>9 DEF vars
<1> QED BY <1>4, <1>5, <1>6, <1>7, <1>8, <1>9 DEF Next

(* The log stays where it is while a reader is about to read it, or the    *)
(* reader's ghost says that it was moved.                                  *)
LEMMA LiveKept ==
  ASSUME TypeOK, Lines, AtWork, [Next]_vars, NEW r \in Reader, pc[r] = "live"
  PROVE  LiveEvents \subseteq LiveEvents' \/ moved'[r] = TRUE
<1>0. DiskOK
  BY Parts
<1>1. PICK e : DiskGoes(e)
  BY DiskStep
<1>2. CASE live' = live
  <2>1. CASE live = 0
    BY <2>1 DEF LiveEvents
  <2>2. CASE live # 0
    <3>1. live \in Files /\ live \in Files'
      BY <1>0, <1>1, <2>2 DEF DiskOK, DiskGoes
    <3>2. ASSUME NEW f \in Files, f = live PROVE Parsed(f) \subseteq Parsed(f)'
      BY <1>1, ParsedStay
    <3>3. LiveEvents = Parsed(live) /\ LiveEvents' = Parsed(live)'
      BY <1>2, <2>2 DEF LiveEvents
    <3> QED BY <1>2, <3>1, <3>2, <3>3 DEF Parsed
  <2> QED BY <2>1, <2>2
<1>3. CASE live' # live
  <2>1. CASE live = 0
    BY <2>1 DEF LiveEvents
  <2>2. CASE live # 0
    <3>1. PICK p \in Mover : Move(p)
      BY <1>3, <2>2, DiskChange DEF disk, Indexed, Created, WrittenBy, SeededBy, Written
    <3>2. moved' = [q \in Reader |-> moved[q] \/ pc[q] = "live"]
      BY <3>1 DEF Move
    <3> QED BY <3>2
  <2> QED BY <2>1, <2>2
<1> QED BY <1>2, <1>3

LEMMA ReadableNextIs ==
  ASSUME DiskOK'
  PROVE  Readable' = UNION {Parsed(f)' : f \in Files'}
<1>1. Len(text') \in Nat
  BY LenProperties DEF DiskOK
<1>2. Files' = 1 .. Len(text') /\ 0 \notin Files'
  BY <1>1 DEF Files
<1>3. Reachable' = Files'
  BY <1>1, <1>2 DEF DiskOK, Reachable
<1> QED BY <1>3 DEF Readable, Parsed

(* What others do leaves a reader's position as it is.                     *)
LEMMA QueryStays ==
  ASSUME TypeOK, Lines, AtWork, [Next]_vars, NEW r \in Reader, Query(r),
         pc'[r] = pc[r], known'[r] = known[r], answer'[r] = answer[r], tier'[r] = tier[r],
         seen'[r] = seen[r], moved[r] => moved'[r]
  PROVE  Query(r)'
<1>0. DiskOK
  BY Parts
<1>1. PICK e : DiskGoes(e)
  BY DiskStep
<1>2. \A f \in Files : Parsed(f) \subseteq Parsed(f)' /\ f \in Files'
  BY <1>1, ParsedStay DEF DiskGoes
<1>3. Readable \subseteq Readable'
  BY <1>0, <1>1, <1>2, HistoryIs, ReadableNextIs DEF DiskGoes
<1>4. Elsewhere(r) \subseteq Elsewhere(r)'
  <2>1. \A f \in Files \ seen[r] : Parsed(f) \subseteq Parsed(f)' /\ f \in Files' \ seen'[r]
    BY <1>2
  <2>2. Elsewhere(r)' = UNION {Parsed(f)' : f \in Files' \ seen'[r]}
    BY DEF Elsewhere, Parsed
  <2> QED BY <2>1, <2>2 DEF Elsewhere
<1>5. pc[r] = "live" => LiveEvents \subseteq LiveEvents' \/ moved'[r]
  BY LiveKept
<1> QED BY <1>3, <1>4, <1>5 DEF Query

LEMMA QueriesStep == ASSUME TypeOK, Lines, AtWork, Queries, [Next]_vars PROVE Queries'
<1>0. DiskOK
  BY Parts
<1> DEFINE Same(r) == /\ pc'[r] = pc[r] /\ known'[r] = known[r] /\ answer'[r] = answer[r]
                      /\ tier'[r] = tier[r] /\ seen'[r] = seen[r] /\ (moved[r] => moved'[r])
<1>1. ASSUME \A r \in Reader : Same(r) PROVE Queries'
  BY <1>1, QueryStays DEF Queries
<1>2. ASSUME UNCHANGED query, UNCHANGED seen, \A r \in Reader : pc'[r] = pc[r] PROVE Queries'
  BY <1>1, <1>2 DEF query
<1>3. ASSUME NEW p \in Mover, MoverStep(p) PROVE Queries'
  <2>1. \E place : Goto(p, place)
    BY <1>3 DEF MoverStep, TakeLock, JudgeLock, EvictLock, RetryLock, Release, Verify, Move,
                MoveFails, Index
  <2>2. \A r \in Reader : pc'[r] = pc[r]
    BY <2>1, SomePlaces, GotoIs DEF Mover
  <2>3. UNCHANGED <<seen, known, answer, tier>> /\ \A r \in Reader : moved[r] => moved'[r]
    BY <1>3 DEF MoverStep, TakeLock, JudgeLock, EvictLock, RetryLock, Release, Verify, Move,
                MoveFails, Index, work, query
  <2> QED BY <1>1, <2>2, <2>3
<1>4. ASSUME NEW p \in Mover, Crash(p) PROVE Queries'
  <2>0. Goto(p, "idle") /\ seen' = [q \in Compactor \union Reader |-> IF q = p THEN {} ELSE seen[q]]
    BY <1>4 DEF Crash, TypeOK
  <2>1. \A r \in Reader : pc'[r] = pc[r] /\ seen'[r] = seen[r]
    BY <2>0, SomePlaces, GotoIs DEF Mover
  <2>2. UNCHANGED query
    BY <1>4 DEF Crash
  <2> QED BY <1>1, <2>1, <2>2 DEF query
<1>5. ASSUME NEW w \in Writer, WriterStep(w) PROVE Queries'
  <2>1. \E place : Goto(w, place)
    BY <1>5 DEF WriterStep, StartLog, OpenLog, OpenLive, WriteEvent, AppendFails, EndLog
  <2>2. \A r \in Reader : pc'[r] = pc[r]
    BY <2>1, SomePlaces, GotoIs
  <2>3. UNCHANGED query /\ UNCHANGED seen
    BY <1>5 DEF WriterStep, StartLog, OpenLog, WriteEvent, AppendFails
  <2> QED BY <1>2, <2>2, <2>3
<1>6. ASSUME NEW c \in Compactor, CompactorStep(c) PROVE Queries'
  <2>1. \E place : Goto(c, place)
    BY <1>6 DEF CompactorStep, StartCompact, Reconcile, FoldNeeded, ReadArchived,
                ReadArchivedFails, OpenSeed, OpenLive, WriteSeed, WriteSeedFails
  <2>2. \A r \in Reader : pc'[r] = pc[r]
    BY <2>1, SomePlaces, GotoIs
  <2>3. \A r \in Reader : seen'[r] = seen[r]
    BY <1>6, SomePlaces
    DEF CompactorStep, StartCompact, Reconcile, FoldNeeded, ReadArchived, ReadArchivedFails,
        OpenSeed, WriteSeed, WriteSeedFails, work, TypeOK
  <2>4. UNCHANGED query
    BY <1>6 DEF CompactorStep, StartCompact, Reconcile, FoldNeeded, ReadArchived,
                ReadArchivedFails, OpenSeed, WriteSeed, WriteSeedFails
  <2> QED BY <1>1, <2>2, <2>3, <2>4 DEF query
<1>7. ASSUME NEW r \in Reader, ReaderStep(r) PROVE Queries'
  <2>0. UNCHANGED disk /\ Query(r) /\ r \in Proc
    BY <1>7, SomePlaces
    DEF ReaderStep, StartQuery, ReadGenerations, ListArchive, ReadLive, EndQuery, Queries
  <2>1. UNCHANGED <<Readable, Elsewhere(r), LiveEvents>> \/ seen' # seen
    BY <2>0 DEF disk, Readable, Reachable, Elsewhere, LiveEvents, Parsed, Files
  <2>2. ASSUME NEW q \in Reader, q # r PROVE Query(q)'
    <3>1. \E place : Goto(r, place)
      BY <1>7 DEF ReaderStep, StartQuery, ReadGenerations, ListArchive, ReadLive, EndQuery
    <3>2. pc'[q] = pc[q]
      BY <2>0, <2>2, <3>1, SomePlaces, GotoIs
    <3>3. /\ known'[q] = known[q] /\ answer'[q] = answer[q] /\ tier'[q] = tier[q]
          /\ seen'[q] = seen[q] /\ moved'[q] = moved[q]
      BY <1>7, <2>2
      DEF ReaderStep, StartQuery, ReadGenerations, ListArchive, ReadLive, EndQuery, TypeOK,
          query, work
    <3> QED BY <3>2, <3>3, QueryStays DEF Queries
  <2>3. Query(r)'
    <3>1. CASE StartQuery(r)
      <4>1. /\ known'[r] = Readable /\ pc'[r] \in {"live", "gens"}
            /\ pc'[r] = "live" => tier'[r] = "absent"
        BY <2>0, <3>1, GotoIs DEF StartQuery, TypeOK
      <4>2. Readable' = Readable
        BY <2>0 DEF disk, Readable, Reachable, Parsed
      <4> QED BY <4>1, <4>2 DEF Query
    <3>2. CASE ReadGenerations(r)
      <4>1. /\ pc'[r] = "list" /\ known' = known /\ seen' = seen /\ pc[r] = "gens"
            /\ answer'[r] = UNION {Parsed(f) : f \in seen[r]}
        BY <2>0, <3>2, GotoIs DEF ReadGenerations, TypeOK, work
      <4>2. Readable = UNION {Parsed(f) : f \in Files}
        BY <1>0, HistoryIs
      <4>3. Readable \subseteq answer'[r] \union Elsewhere(r)
        BY <4>1, <4>2 DEF Elsewhere
      <4>4. Elsewhere(r)' = Elsewhere(r)
        BY <2>1, <4>1
      <4> QED BY <2>0, <4>1, <4>3, <4>4 DEF Query
    <3>3. CASE ListArchive(r)
      <4>1. CASE archived \subseteq seen[r]
        <5>1. /\ pc'[r] = "live" /\ known' = known /\ answer' = answer /\ seen' = seen
              /\ pc[r] = "list"
          BY <2>0, <3>3, <4>1, GotoIs DEF ListArchive, work
        <5>2. \A f \in Files \ seen[r] : f = live /\ live # 0
          BY <1>0, <4>1, FilesAre DEF DiskOK
        <5>3. Elsewhere(r) \subseteq LiveEvents
          BY <5>2 DEF Elsewhere, LiveEvents
        <5>4. LiveEvents' = LiveEvents
          BY <2>1, <5>1
        <5> QED BY <2>0, <5>1, <5>3, <5>4 DEF Query
      <4>2. CASE ~(archived \subseteq seen[r])
        <5>1. pc'[r] = "answered" /\ tier'[r] = "corrupt"
          BY <2>0, <3>3, <4>2, GotoIs DEF ListArchive, TypeOK
        <5> QED BY <5>1 DEF Query
      <4> QED BY <4>1, <4>2
    <3>4. CASE ReadLive(r)
      <4>1. /\ pc'[r] = "answered" /\ UNCHANGED <<known, tier, moved>> /\ pc[r] = "live"
            /\ answer'[r] = answer[r] \union LiveEvents
        BY <2>0, <3>4, GotoIs DEF ReadLive, TypeOK, LiveEvents
      <4> QED BY <2>0, <4>1 DEF Query
    <3>5. CASE EndQuery(r)
      <4>1. pc'[r] = "idle"
        BY <2>0, <3>5, GotoIs DEF EndQuery
      <4> QED BY <4>1 DEF Query
    <3> QED BY <1>7, <3>1, <3>2, <3>3, <3>4, <3>5 DEF ReaderStep
  <2> QED BY <2>2, <2>3 DEF Queries
<1>8. ASSUME NEW l \in Locks, AgeLock(l) PROVE Queries'
  BY <1>2, <1>8 DEF AgeLock, work
<1>9. CASE UNCHANGED vars
  BY <1>2, <1>9 DEF vars, work
<1> QED BY <1>3, <1>4, <1>5, <1>6, <1>7, <1>8, <1>9 DEF Next

(***************************************************************************)
(* The invariant holds.                                                    *)
(***************************************************************************)
LEMMA FirstDisk ==
  ASSUME Init
  PROVE  DiskOK /\ \A f \in Files : \A l \in LinesOf(text[f]) : LineOK(l)
<1>1. CASE Before = 0
  <2>1. text = <<>> /\ live = 0 /\ archived = {} /\ index = {}
    BY <1>1 DEF Init
  <2>2. Files = {} /\ text \in Seq(Seq(Line))
    BY <2>1, EmptySeq DEF Files
  <2> QED BY <2>1, <2>2 DEF DiskOK
<1>2. CASE Before # 0
  <2> DEFINE t == [i \in 1 .. Before |-> EventLine(i)]
  <2>1. text = <<t>> /\ live = 1 /\ archived = {} /\ index = {}
    BY <1>2 DEF Init
  <2>2. t \in Seq(Line) /\ Len(t) = Before /\ \A i \in 1 .. Before : t[i] = EventLine(i)
    BY KindsOfLines, SizesAssumption
  <2>3. \A i \in 1 .. Before : LineOK(EventLine(i))
    <3> SUFFICES ASSUME NEW i \in 1 .. Before PROVE LineOK(EventLine(i))
      OBVIOUS
    <3>1. EventLine(i) \in Line /\ i \in 1 .. MaxEvents
      BY KindsOfLines, SizesAssumption
    <3>2. EventLine(i).kind = "event" /\ EventLine(i).of = i
      BY DEF EventLine
    <3> QED BY <3>1, <3>2 DEF LineOK
  <2> HIDE DEF t
  <2>4. text \in Seq(Seq(Line)) /\ Len(text) = 1 /\ text[1] = t
    BY <2>1, <2>2
  <2>5. Files = {1}
    BY <2>4 DEF Files
  <2>6. DiskOK
    BY <2>1, <2>4, <2>5 DEF DiskOK
  <2> QED BY <2>2, <2>3, <2>4, <2>5, <2>6 DEF LinesOf
<1> QED BY <1>1, <1>2

LEMMA Initial == Init => IInv
<1> SUFFICES ASSUME Init PROVE IInv
  OBVIOUS
<1>1. DiskOK /\ \A f \in Files : \A l \in LinesOf(text[f]) : LineOK(l)
  BY FirstDisk
<1>2. /\ pc = [p \in Proc |-> "idle"] /\ \A p \in Proc : pc[p] = "idle"
      /\ \A p \in Mover : p \in Proc
  BY SomePlaces DEF Init, Proc
<1>3. LocksOK
  BY ProcAssumption DEF Init, LocksOK
<1>4. PlacesOK
  BY <1>2, SomePlaces DEF PlacesOK, WriterPlaces, CompactorPlaces, ReaderPlaces, MoverPlaces, Inside
<1>5. WorkOK
  <2>1. file \in [Mover -> {0} \union Files] /\ event \in [Writer -> 0 .. MaxEvents]
    BY SizesAssumption DEF Init
  <2>2. seed \in [Compactor -> Seq(Line)]
    BY LinesNone DEF Init
  <2>3. seen \in [Compactor \union Reader -> SUBSET archived]
    BY DEF Init
  <2>4. \A p \in Mover : pc[p] \notin Holding
    BY <1>2 DEF Holding
  <2> QED BY <2>1, <2>2, <2>3, <2>4 DEF WorkOK
<1>6. QueryOK /\ CountsOK
  BY SizesAssumption DEF Init, QueryOK, CountsOK, Tiers
<1>7. TypeOK
  BY <1>1, <1>3, <1>4, <1>5, <1>6, Parts
<1>8. \A c \in Compactor : SeedOK(seed[c])
  <2>1. SeedOK(<<>>)
    BY LinesNone DEF SeedOK
  <2> QED BY <2>1 DEF Init
<1>9. AtWork /\ OwnsLock /\ Queries
  BY <1>2, SomePlaces DEF AtWork, OwnsLock, Queries, Query, Inside
<1> QED BY <1>1, <1>7, <1>8, <1>9 DEF IInv, Lines

LEMMA HistoryGoes ==
  ASSUME TypeOK, Lines, AtWork, [Next]_vars
  PROVE  \E e \in 1 .. MaxEvents \union {0} :
            /\ DiskGoes(e) /\ History \subseteq History' /\ History' \subseteq History \union {e}
            /\ 0 \notin History'
<1>1. PICK e \in 1 .. MaxEvents \union {0} : DiskGoes(e)
  BY DiskStep
<1> QED BY <1>1, Parts, HistoryStep

LEMMA Steps == IInv /\ [Next]_vars => IInv'
<1> SUFFICES ASSUME IInv, [Next]_vars PROVE IInv'
  OBVIOUS
<1>0. TypeOK /\ Lines /\ AtWork /\ OwnsLock /\ Queries
  BY DEF IInv
<1>1. PICK e \in 1 .. MaxEvents \union {0} : DiskGoes(e) /\ History \subseteq History'
  BY <1>0, HistoryGoes
<1>2. FileOK' /\ EventOK'
  BY <1>0, FileStep, EventStep
<1>3. /\ seed' \in [Compactor -> Seq(Line)]
      /\ \A c \in Compactor : SeedOKNext(seed'[c])
  BY <1>0, <1>1, SeedStep
<1>4. seen' \in [Compactor \union Reader -> SUBSET (archived')]
  BY <1>0, SeenStep
<1>5. WorkOK'
  BY <1>2, <1>3, <1>4 DEF WorkOK, FileOK, EventOK
<1>6. DiskOK' /\ LocksOK' /\ PlacesOK' /\ QueryOK' /\ CountsOK'
  BY <1>0, <1>1, LocksStep, PlacesStep, QueryStep, CountsStep DEF DiskGoes
<1>7. TypeOK'
  BY <1>5, <1>6 DEF TypeOK, DiskOK, LocksOK, PlacesOK, WorkOK, QueryOK, CountsOK
<1>8. Lines'
  <2>1. \A f \in Files' : \A l \in LinesOf(text'[f]) : LineOK(l)'
    BY <1>0, <1>1, Parts, TextStep
  <2>2. \A c \in Compactor : SeedOK(seed[c])'
    BY <1>3 DEF SeedOK, SeedOKNext, LinesOf
  <2> QED BY <2>1, <2>2 DEF Lines, LinesOf
<1>9. AtWork'
  BY <1>2 DEF AtWork, FileOK, EventOK
<1>10. OwnsLock' /\ Queries'
  BY <1>0, OwnsStep, QueriesStep
<1> QED BY <1>7, <1>8, <1>9, <1>10 DEF IInv

THEOREM Invariance == Spec => []IInv
  BY Initial, Steps, PTL DEF Spec

(***************************************************************************)
(* What follows.                                                           *)
(***************************************************************************)
\* Every variable keeps its type; a file of the log is at its path or in the
\* archive, never at both and never nowhere.
THEOREM TypeCorrect == Spec => []TypeOK
<1>1. IInv => TypeOK
  BY DEF IInv
<1> QED BY <1>1, Invariance, PTL

\* A summary line that names a generation names one that is in the index,
\* wherever rotations, reseeds and torn writes have left that line.
THEOREM SummariesAreIndexed == Spec => []SummariesIndexed
<1>1. IInv => SummariesIndexed
  <2> SUFFICES ASSUME Lines PROVE SummariesIndexed
    BY DEF IInv
  <2>1. ASSUME NEW f \in Files, NEW i \in 1 .. Len(text[f]) PROVE LineOK(text[f][i])
    BY DEF Lines, LinesOf
  <2> QED BY <2>1 DEF SummariesIndexed, LineOK
<1> QED BY <1>1, Invariance, PTL

\* No two processes move the log behind the same lock, as long as its lock
\* file has not outlived its sixty seconds.
THEOREM OneMover == Spec => []OneMoverWhileFresh
<1>1. IInv => OneMoverWhileFresh
  <2> SUFFICES ASSUME OwnsLock, NEW p \in Mover, NEW q \in Mover,
                      LockOf(p) = LockOf(q), LockOf(p) \notin outlived,
                      pc[p] \in Inside, pc[q] \in Inside
               PROVE  p = q
    BY DEF IInv, OneMoverWhileFresh
  <2> QED BY DEF OwnsLock
<1> QED BY <1>1, Invariance, PTL

\* A query of a healthy archive answers with every event that could be read
\* when it began, unless the log was moved after it listed the archive.
THEOREM QuietQueries == Spec => []QuietQueryComplete
<1>1. IInv => QuietQueryComplete
  BY DEF IInv, Queries, Query, QuietQueryComplete
<1> QED BY <1>1, Invariance, PTL

\* Rotations, compactions, torn reseeds and crashes implement a history that
\* only grows, by one event at a time.
THEOREM Refinement == Spec => ImplementsEventLog
<1>1. Init => Log!Init
  <2> SUFFICES ASSUME Init PROVE History \subseteq 1 .. MaxEvents
    BY DEF Log!Init
  <2>1. DiskOK /\ \A f \in Files : \A l \in LinesOf(text[f]) : LineOK(l)
    BY FirstDisk
  <2> QED BY <2>1, HistoryIs, SizesAssumption DEF LineOK, Holds
<1>2. IInv /\ [Next]_vars => [Log!Next]_History
  <2> SUFFICES ASSUME IInv, [Next]_vars PROVE Log!Next \/ History' = History
    OBVIOUS
  <2>1. PICK e \in 1 .. MaxEvents \union {0} :
           /\ History \subseteq History' /\ History' \subseteq History \union {e}
           /\ 0 \notin History'
    BY HistoryGoes DEF IInv
  <2>2. CASE History' = History
    BY <2>2
  <2>3. CASE History' # History
    <3>1. e \notin History /\ History' = History \union {e} /\ e \in 1 .. MaxEvents
      BY <2>1, <2>3
    <3> QED BY <3>1 DEF Log!Next, Log!Record
  <2> QED BY <2>2, <2>3
<1> QED BY <1>1, <1>2, Invariance, PTL DEF Spec, ImplementsEventLog, Log!Spec
=============================================================================
