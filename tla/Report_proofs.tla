---------------------------- MODULE Report_proofs -----------------------------
(***************************************************************************)
(* Proofs about the table of events in a report, for any session, queries, *)
(* sizes of pages, cache and window, and any order of answers: the table   *)
(* shows the rows of the current query, in their places.  And about the    *)
(* launcher and the idle timer of the server, for any timeouts.            *)
(***************************************************************************)
EXTENDS Report, SequenceTheorems, TLAPS

\* The events of the page at an offset.
EventsAt(q, offset) ==
    SubSeq(Matching[q], offset + 1, Min({offset + PageSize, Len(Matching[q])}))

-----------------------------------------------------------------------------
(* The inductive invariant. *)

Entries == [offset : Nat, events : Seq(1 .. EventCount)]

TypesInv ==
    /\ query \in DOMAIN Matching
    /\ {generation, top, total} \subseteq Nat
    /\ pages \in Seq(Entries)

\* A request of this generation is for the current query.
FetchesInv ==
    \A fetch \in fetches :
        /\ fetch.query \in DOMAIN Matching
        /\ fetch.offset \in Nat
        /\ fetch.generation \in 0 .. generation
        /\ fetch.generation = generation => fetch.query = query

\* The cached pages are pages of the current query, and the table knows the
\* number of rows as soon as it has one.
PagesInv ==
    /\ \A i \in DOMAIN pages :
         /\ pages[i].offset <= Len(Matching[query])
         /\ pages[i].events = EventsAt(query, pages[i].offset)
    /\ Len(pages) <= CachedPages
    /\ pages # << >> => total = Len(Matching[query])

\* Each row of the window is cached or under way, or was given up.
WindowInv ==
    \A row \in top .. LastRow(top, total) - 1 :
        PageOf(row) \in Offsets(pages) \cup pending \cup given_up

TableInv == TypesInv /\ FetchesInv /\ PagesInv /\ WindowInv

-----------------------------------------------------------------------------
(* Facts about the operators. *)

LEMMA TwoMin ==
    \A a, b \in Int : Min({a, b}) = IF a <= b THEN a ELSE b
<1> SUFFICES ASSUME NEW a \in Int, NEW b \in Int
             PROVE  Min({a, b}) = IF a <= b THEN a ELSE b
    OBVIOUS
<1> DEFINE m == IF a <= b THEN a ELSE b
<1>1. m \in {a, b} /\ \A y \in {a, b} : m <= y
    OBVIOUS
<1>2. \A x \in {a, b} : (\A y \in {a, b} : x <= y) => x = m
    OBVIOUS
<1> QED
    BY <1>1, <1>2 DEF Min

LEMMA TwoMax ==
    \A a, b \in Int : Max({a, b}) = IF a >= b THEN a ELSE b
<1> SUFFICES ASSUME NEW a \in Int, NEW b \in Int
             PROVE  Max({a, b}) = IF a >= b THEN a ELSE b
    OBVIOUS
<1> DEFINE m == IF a >= b THEN a ELSE b
<1>1. m \in {a, b} /\ \A y \in {a, b} : m >= y
    OBVIOUS
<1>2. \A x \in {a, b} : (\A y \in {a, b} : x >= y) => x = m
    OBVIOUS
<1> QED
    BY <1>1, <1>2 DEF Max

\* A page starts at or before its rows and is long enough for them.
LEMMA PageBounds ==
    ASSUME NEW row \in Nat
    PROVE  PageOf(row) \in Nat /\ PageOf(row) <= row /\ row < PageOf(row) + PageSize
<1>1. PageSize \in Nat \ {0}
    BY TableAssumption
<1> DEFINE q == row \div PageSize
<1>2. q \in Nat /\ row = PageSize * q + (row % PageSize) /\ row % PageSize \in 0 .. PageSize - 1
    BY <1>1
<1>3. q * PageSize = PageSize * q /\ PageSize * q \in Nat
    BY <1>1, <1>2
<1> HIDE DEF q
<1>4. PageOf(row) = q * PageSize
    BY DEF PageOf, q
<1> QED
    BY <1>1, <1>2, <1>3, <1>4

LEMMA LastRowIs ==
    ASSUME NEW first \in Nat, NEW rows \in Nat
    PROVE  /\ LastRow(first, rows) \in Nat
           /\ LastRow(first, rows) = IF rows <= first + WindowRows THEN rows ELSE first + WindowRows
BY TwoMin, TableAssumption DEF LastRow

\* The pages of a window are those of its rows.
LEMMA PagesOfWindow ==
    ASSUME NEW first \in Nat, NEW last \in Int, NEW row \in first .. last - 1
    PROVE  PageOf(row) \in PagesOf(first, last)
<1>1. Max({first, last - 1}) = last - 1
    BY TwoMax
<1> QED
    BY <1>1 DEF PagesOf

LEMMA PagesOfNat ==
    ASSUME NEW first \in Nat, NEW last \in Int
    PROVE  PagesOf(first, last) \subseteq Nat
<1>1. Max({first, last - 1}) \in Int
    BY TwoMax
<1> QED
    BY <1>1, PageBounds DEF PagesOf

\* What a slice of a sequence is.
LEMMA SliceIs ==
    ASSUME NEW S, NEW s \in Seq(S), NEW m \in 0 .. Len(s), NEW n \in m .. Len(s)
    PROVE  /\ SubSeq(s, m + 1, n) \in Seq(S)
           /\ Len(SubSeq(s, m + 1, n)) = n - m
           /\ \A i \in 1 .. n - m : SubSeq(s, m + 1, n)[i] = s[m + i]
<1>1. \A i \in m + 1 .. n : s[i] \in S
    OBVIOUS
<1>2. /\ SubSeq(s, m + 1, n) \in Seq(S)
      /\ Len(SubSeq(s, m + 1, n)) = IF m + 1 <= n THEN n - (m + 1) + 1 ELSE 0
      /\ \A i \in 1 .. n - (m + 1) + 1 : SubSeq(s, m + 1, n)[i] = s[m + 1 + i - 1]
    <2>1. m + 1 \in Int /\ n \in Int
        OBVIOUS
    <2> QED
        BY <1>1, <2>1, SubSeqProperties
<1> DEFINE slice == SubSeq(s, m + 1, n)
<1> HIDE DEF slice
<1>3. slice \in Seq(S) /\ Len(slice) = n - m
    BY <1>2 DEF slice
<1>4. ASSUME NEW i \in 1 .. n - m
      PROVE  slice[i] = s[m + i]
    <2>1. i \in 1 .. n - (m + 1) + 1 /\ m + 1 + i - 1 = m + i
        OBVIOUS
    <2> QED
        BY <1>2, <2>1 DEF slice
<1> QED
    BY <1>3, <1>4 DEF slice

\* The page at an offset within the rows of a query.
LEMMA EventsAtIs ==
    ASSUME NEW q \in DOMAIN Matching, NEW offset \in 0 .. Len(Matching[q])
    PROVE  LET last == IF offset + PageSize <= Len(Matching[q])
                       THEN offset + PageSize ELSE Len(Matching[q])
           IN  /\ EventsAt(q, offset) \in Seq(1 .. EventCount)
               /\ Len(EventsAt(q, offset)) = last - offset
               /\ \A i \in 1 .. last - offset :
                    EventsAt(q, offset)[i] = Matching[q][offset + i]
<1>1. Matching[q] \in Seq(1 .. EventCount)
    BY TableAssumption
<1> DEFINE rows == Matching[q]
           last == IF offset + PageSize <= Len(rows) THEN offset + PageSize ELSE Len(rows)
<1> HIDE DEF rows
<1>2. rows \in Seq(1 .. EventCount) /\ Len(rows) \in Nat /\ offset \in 0 .. Len(rows)
    BY <1>1 DEF rows
<1>3. PageSize \in Nat \ {0}
    BY TableAssumption
<1>4. last \in offset .. Len(rows)
    BY <1>2, <1>3
<1>5. Min({offset + PageSize, Len(rows)}) = last
    BY <1>2, <1>3, TwoMin
<1> HIDE DEF last
<1>6. EventsAt(q, offset) = SubSeq(rows, offset + 1, last)
    BY <1>5 DEF EventsAt, rows
<1>7. /\ SubSeq(rows, offset + 1, last) \in Seq(1 .. EventCount)
      /\ Len(SubSeq(rows, offset + 1, last)) = last - offset
      /\ \A i \in 1 .. last - offset : SubSeq(rows, offset + 1, last)[i] = rows[offset + i]
    BY <1>2, <1>4, SliceIs
<1> QED
    BY <1>6, <1>7 DEF rows, last

\* What the server answers is a page of the query that was asked for.
LEMMA EventPageIs ==
    ASSUME NEW q \in DOMAIN Matching, NEW offset \in Nat
    PROVE  /\ EventPage(q, offset).offset \in 0 .. Len(Matching[q])
           /\ \/ EventPage(q, offset).offset = offset
              \/ offset > Len(Matching[q])
           /\ EventPage(q, offset).events = EventsAt(q, EventPage(q, offset).offset)
           /\ EventPage(q, offset).events \in Seq(1 .. EventCount)
           /\ EventPage(q, offset).total = Len(Matching[q])
           /\ Len(Matching[q]) \in Nat
<1>1. Matching[q] \in Seq(1 .. EventCount)
    BY TableAssumption
<1> DEFINE length == Len(Matching[q])
           start == Min({offset, length})
<1> HIDE DEF length
<1>2. length \in Nat
    BY <1>1 DEF length
<1>3. start = IF offset <= length THEN offset ELSE length
    BY <1>2, TwoMin
<1>4. EventPage(q, offset) = [offset |-> start, total |-> length, events |-> EventsAt(q, start)]
    BY DEF EventPage, EventsAt, length
<1> HIDE DEF start
<1>5. start \in 0 .. length /\ (start = offset \/ offset > length)
    BY <1>2, <1>3
<1>6. EventsAt(q, start) \in Seq(1 .. EventCount)
    BY <1>5, EventsAtIs DEF length
<1> QED
    BY <1>2, <1>4, <1>5, <1>6 DEF length

\* A row of the query is on the page that is cached for it.
LEMMA RowOnPage ==
    ASSUME NEW q \in DOMAIN Matching, NEW row \in Nat, PageOf(row) <= Len(Matching[q])
    PROVE  /\ row < Len(Matching[q]) => row - PageOf(row) < Len(EventsAt(q, PageOf(row)))
           /\ row - PageOf(row) < Len(EventsAt(q, PageOf(row))) =>
                /\ row < Len(Matching[q])
                /\ EventsAt(q, PageOf(row))[row - PageOf(row) + 1] = Matching[q][row + 1]
<1> DEFINE length == Len(Matching[q])
           offset == PageOf(row)
           last == IF offset + PageSize <= length THEN offset + PageSize ELSE length
<1>1. Matching[q] \in Seq(1 .. EventCount) /\ PageSize \in Nat \ {0}
    BY TableAssumption
<1> HIDE DEF length, offset
<1>2. length \in Nat
    BY <1>1 DEF length
<1>3. offset \in Nat /\ offset <= row /\ row < offset + PageSize /\ offset <= length
    BY PageBounds DEF offset, length
<1>4. /\ Len(EventsAt(q, offset)) = last - offset
      /\ \A i \in 1 .. last - offset : EventsAt(q, offset)[i] = Matching[q][offset + i]
    BY <1>2, <1>3, EventsAtIs DEF length
<1>5. row < length => row - offset < last - offset
    BY <1>1, <1>2, <1>3
<1>6. ASSUME row - offset < last - offset
      PROVE  row < length /\ EventsAt(q, offset)[row - offset + 1] = Matching[q][row + 1]
    <2>1. row < length /\ row - offset + 1 \in 1 .. last - offset /\ offset + (row - offset + 1) = row + 1
        BY <1>1, <1>2, <1>3, <1>6
    <2> QED
        BY <1>4, <2>1
<1> QED
    BY <1>4, <1>5, <1>6 DEF length, offset

\* The page that came in is cached, and the cache is still one of this query.
LEMMA CachedIs ==
    ASSUME TypesInv, PagesInv, NEW answer,
           answer.offset \in 0 .. Len(Matching[query]),
           answer.events = EventsAt(query, answer.offset), answer.events \in Seq(1 .. EventCount)
    PROVE  /\ Cached(answer) \in Seq(Entries)
           /\ Len(Cached(answer)) \in 1 .. CachedPages
           /\ \A i \in DOMAIN Cached(answer) :
                /\ Cached(answer)[i].offset <= Len(Matching[query])
                /\ Cached(answer)[i].events = EventsAt(query, Cached(answer)[i].offset)
           /\ answer.offset \in Offsets(Cached(answer))
<1> DEFINE Fits(entry) == /\ entry \in Entries
                          /\ entry.offset <= Len(Matching[query])
                          /\ entry.events = EventsAt(query, entry.offset)
           new == [offset |-> answer.offset, events |-> answer.events]
           replaced == [i \in DOMAIN pages |-> IF pages[i].offset = answer.offset THEN new ELSE pages[i]]
           added == Append(pages, new)
<1> SUFFICES /\ Cached(answer) \in Seq(Entries)
             /\ Len(Cached(answer)) \in 1 .. CachedPages
             /\ \A i \in DOMAIN Cached(answer) : Fits(Cached(answer)[i])
             /\ answer.offset \in Offsets(Cached(answer))
    OBVIOUS
<1>1. /\ pages \in Seq(Entries) /\ Len(pages) \in Nat /\ Len(pages) <= CachedPages
      /\ DOMAIN pages = 1 .. Len(pages)
      /\ \A i \in DOMAIN pages : Fits(pages[i])
    BY DEF TypesInv, PagesInv
<1>2. CachedPages \in Nat \ {0}
    BY TableAssumption
<1>3. Len(Matching[query]) \in Nat
    BY TableAssumption DEF TypesInv
<1>4. Fits(new) /\ new.offset = answer.offset
    BY <1>3 DEF Entries
<1>5. new \in Entries /\ \A i \in DOMAIN pages : pages[i] \in Entries
    BY <1>1, <1>4
<1> HIDE DEF Fits, new
<1>6. ASSUME NEW s \in Seq(Entries), Len(s) \in 1 .. CachedPages, Cached(answer) = s,
             \A i \in 1 .. Len(s) : Fits(s[i]),
             \E i \in 1 .. Len(s) : s[i].offset = answer.offset
      PROVE  /\ Cached(answer) \in Seq(Entries)
             /\ Len(Cached(answer)) \in 1 .. CachedPages
             /\ \A i \in DOMAIN Cached(answer) : Fits(Cached(answer)[i])
             /\ answer.offset \in Offsets(Cached(answer))
    <2>1. DOMAIN s = 1 .. Len(s)
        OBVIOUS
    <2> QED
        BY <1>6, <2>1 DEF Offsets
<1>7. CASE answer.offset \in Offsets(pages)
    <2>1. /\ replaced \in Seq(Entries) /\ Len(replaced) = Len(pages)
          /\ DOMAIN replaced = 1 .. Len(pages)
          /\ \A i \in 1 .. Len(pages) : Fits(replaced[i])
        <3>1. \A i \in 1 .. Len(pages) : replaced[i] = IF pages[i].offset = answer.offset THEN new ELSE pages[i]
            BY <1>1
        <3>2. \A i \in 1 .. Len(pages) : Fits(replaced[i])
            <4> HIDE DEF replaced
            <4> QED
                BY <1>1, <1>4, <3>1
        <3>3. replaced \in [1 .. Len(pages) -> Entries]
            BY <1>1, <1>5
        <3> HIDE DEF replaced
        <3>4. replaced \in Seq(Entries)
            <4>1. ASSUME NEW n \in Nat, NEW f \in [1 .. n -> Entries] PROVE f \in Seq(Entries)
                OBVIOUS
            <4>2. Len(pages) \in Nat
                BY <1>1
            <4> QED
                BY <3>3, <4>1, <4>2, Zenon
        <3>5. Len(replaced) = Len(pages)
            BY <1>1, <3>3, <3>4, LenProperties
        <3> QED
            BY <3>2, <3>3, <3>4, <3>5
    <2>2. PICK i \in 1 .. Len(pages) : pages[i].offset = answer.offset
        BY <1>1, <1>7 DEF Offsets
    <2>3. replaced[i].offset = answer.offset
        BY <1>1, <1>4, <2>2
    <2>4. Cached(answer) = replaced
        <3>1. Cached(answer) = IF Len(replaced) > CachedPages THEN Tail(replaced) ELSE replaced
            BY <1>7 DEF Cached, new
        <3> HIDE DEF replaced
        <3>2. ~(Len(replaced) > CachedPages)
            <4>1. Len(replaced) = Len(pages)
                BY <2>1
            <4>2. Len(pages) \in Nat /\ Len(pages) <= CachedPages
                BY <1>1
            <4> QED
                BY <1>2, <4>1, <4>2
        <3> QED
            BY <3>1, <3>2, Zenon
    <2> HIDE DEF replaced
    <2>5. Len(replaced) \in 1 .. CachedPages
        <3>1. Len(replaced) = Len(pages) /\ i \in 1 .. Len(pages)
            BY <2>1, <2>2
        <3>2. Len(pages) \in Nat /\ Len(pages) <= CachedPages
            BY <1>1
        <3> QED
            BY <1>2, <3>1, <3>2
    <2>6. /\ replaced \in Seq(Entries)
          /\ \A j \in 1 .. Len(replaced) : Fits(replaced[j])
          /\ \E j \in 1 .. Len(replaced) : replaced[j].offset = answer.offset
        BY <2>1, <2>2, <2>3
    <2> QED
        BY <1>6, <2>4, <2>5, <2>6
<1>8. CASE answer.offset \notin Offsets(pages)
    <2>1. Cached(answer) = IF Len(added) > CachedPages THEN Tail(added) ELSE added
        BY <1>8 DEF Cached, new
    <2>2. new \in Entries
        BY <1>5
    <2>3. /\ added \in Seq(Entries) /\ added # << >> /\ Len(added) = Len(pages) + 1
          /\ \A i \in 1 .. Len(pages) : added[i] = pages[i]
          /\ added[Len(pages) + 1] = new
        BY <1>1, <2>2, AppendProperties
    <2> HIDE DEF added
    <2>4. \A i \in 1 .. Len(pages) + 1 : Fits(added[i])
        <3>1. \A i \in 1 .. Len(pages) : Fits(added[i])
            BY <1>1, <2>3, Zenon
        <3>2. Fits(added[Len(pages) + 1])
            BY <1>4, <2>3
        <3>3. \A i \in 1 .. Len(pages) + 1 : i \in 1 .. Len(pages) \/ i = Len(pages) + 1
            BY <1>1
        <3> QED
            BY <3>1, <3>2, <3>3
    <2>5. CASE Len(added) > CachedPages
        <3> DEFINE kept == Tail(added)
        <3>1. kept \in Seq(Entries) /\ Len(kept) = Len(added) - 1 /\ \A i \in 1 .. Len(kept) : kept[i] = added[i + 1]
            BY <2>3, HeadTailProperties
        <3> HIDE DEF kept
        <3>2. Len(kept) = Len(pages) /\ Len(pages) = CachedPages
            <4>1. Len(added) = Len(pages) + 1 /\ Len(kept) = Len(added) - 1
                BY <2>3, <3>1
            <4>2. Len(pages) \in Nat /\ Len(pages) <= CachedPages
                BY <1>1
            <4> QED
                BY <1>2, <2>5, <4>1, <4>2
        <3>3. \A i \in 1 .. Len(kept) : i + 1 \in 1 .. Len(pages) + 1
            BY <1>1, <3>2
        <3>4. \A i \in 1 .. Len(kept) : Fits(kept[i])
            BY <2>4, <3>1, <3>3
        <3>5. Len(kept) \in 1 .. Len(kept) /\ kept[Len(kept)].offset = answer.offset
            BY <1>1, <1>2, <1>4, <2>3, <3>1, <3>2
        <3>6. Cached(answer) = kept
            BY <2>1, <2>5, Zenon DEF kept
        <3>7. Len(kept) \in 1 .. CachedPages
            BY <1>2, <3>2
        <3> QED
            BY <1>6, <3>1, <3>4, <3>5, <3>6, <3>7
    <2>6. CASE ~(Len(added) > CachedPages)
        <3>1. Len(added) \in 1 .. CachedPages /\ Cached(answer) = added
            <4>1. Len(added) = Len(pages) + 1 /\ Len(pages) \in Nat
                BY <1>1, <2>3
            <4> QED
                BY <1>2, <2>1, <2>6, <4>1
        <3>2. Len(pages) + 1 \in 1 .. Len(added) /\ added[Len(pages) + 1].offset = answer.offset
            BY <1>1, <1>4, <2>3
        <3>3. \A i \in 1 .. Len(added) : Fits(added[i])
            BY <2>3, <2>4
        <3>4. \E i \in 1 .. Len(added) : added[i].offset = answer.offset
            BY <3>2
        <3> QED
            BY <1>6, <2>3, <3>1, <3>3, <3>4
    <2> QED
        BY <2>5, <2>6
<1> QED
    BY <1>7, <1>8

\* What is wanted is cached or under way once it was loaded, and a request is
\* for the query and the generation it is made in.
LEMMA LoadCovers ==
    ASSUME NEW wanted \in SUBSET Nat, NEW cached, NEW underway, NEW others,
           Load(wanted, cached, underway, others),
           query' \in DOMAIN Matching, generation' \in Nat,
           \A fetch \in others : /\ fetch.query \in DOMAIN Matching
                                 /\ fetch.offset \in Nat
                                 /\ fetch.generation \in 0 .. generation'
                                 /\ fetch.generation = generation' => fetch.query = query'
    PROVE  /\ FetchesInv'
           /\ wanted \subseteq Offsets(cached) \cup pending'
<1> DEFINE missing == wanted \ (Offsets(cached) \cup underway)
           asked == {[generation |-> generation', query |-> query', offset |-> offset] : offset \in missing}
<1>1. pending' = underway \cup missing /\ fetches' = others \cup asked
    BY DEF Load
<1>2. \A fetch \in asked : /\ fetch.query \in DOMAIN Matching
                           /\ fetch.offset \in Nat
                           /\ fetch.generation \in 0 .. generation'
                           /\ fetch.generation = generation' => fetch.query = query'
    OBVIOUS
<1> HIDE DEF asked
<1> QED
    BY <1>1, <1>2 DEF FetchesInv

-----------------------------------------------------------------------------
(* The steps of the table. *)

LEMMA InitTable == Init => TableInv
<1> SUFFICES ASSUME Init
             PROVE  TableInv
    OBVIOUS
<1> USE DEF Init, TableInit
<1>1. EventCount \in Nat
    BY TableAssumption
<1>2. TypesInv
    BY <1>1 DEF TypesInv
<1>3. PagesOf(0, LastRow(0, EventCount)) \subseteq Nat
    BY <1>1, LastRowIs, PagesOfNat
<1>4. FetchesInv
    BY <1>3 DEF FetchesInv
<1>5. PagesInv
    BY TableAssumption DEF PagesInv
<1>6. WindowInv
    <2>1. LastRow(0, EventCount) \in Nat
        BY <1>1, LastRowIs
    <2>2. \A row \in 0 .. LastRow(0, EventCount) - 1 : PageOf(row) \in pending
        <3>1. \A row \in 0 .. LastRow(0, EventCount) - 1 :
                PageOf(row) \in PagesOf(0, LastRow(0, EventCount))
            <4> DEFINE last == LastRow(0, EventCount)
            <4> HIDE DEF last, Init, TableInit
            <4>1. 0 \in Nat /\ last \in Int
                BY <2>1 DEF last
            <4>2. \A row \in 0 .. last - 1 : PageOf(row) \in PagesOf(0, last)
                BY <4>1, PagesOfWindow
            <4> QED
                BY <4>2 DEF last
        <3> QED
            BY <3>1
    <2> QED
        BY <2>2 DEF WindowInv
<1> QED
    BY <1>2, <1>4, <1>5, <1>6 DEF TableInv

LEMMA ResetTable ==
    ASSUME TableInv, NEW q \in DOMAIN Matching, ResetQuery(q)
    PROVE  TableInv'
<1>1. /\ query' = q /\ generation' = generation + 1 /\ top' = 0 /\ total' = EventCount
      /\ pages' = << >> /\ Load(PagesOf(0, WindowRows), << >>, {}, fetches)
    BY DEF ResetQuery
<1>2. EventCount \in Nat /\ {WindowRows, CachedPages} \subseteq Nat \ {0}
    BY TableAssumption
<1>3. TypesInv'
    BY <1>1, <1>2 DEF TableInv, TypesInv
<1>4. PagesInv'
    BY <1>1, <1>2 DEF PagesInv
<1>5. \A fetch \in fetches : /\ fetch.query \in DOMAIN Matching
                             /\ fetch.offset \in Nat
                             /\ fetch.generation \in 0 .. generation'
                             /\ fetch.generation # generation'
    BY <1>1 DEF TableInv, TypesInv, FetchesInv
<1>6. PagesOf(0, WindowRows) \subseteq Nat
    BY <1>2, PagesOfNat
<1>7. query' \in DOMAIN Matching /\ generation' \in Nat
    BY <1>1 DEF TableInv, TypesInv
<1>8. FetchesInv' /\ PagesOf(0, WindowRows) \subseteq Offsets(<< >>) \cup pending'
    BY <1>1, <1>5, <1>6, <1>7, LoadCovers
<1>9. WindowInv'
    <2> SUFFICES ASSUME NEW row \in 0 .. LastRow(0, EventCount) - 1
                 PROVE  PageOf(row) \in (Offsets(pages) \cup pending \cup given_up)'
        BY <1>1 DEF WindowInv
    <2>1. row \in 0 .. WindowRows - 1
        <3>1. LastRow(0, EventCount) = IF EventCount <= 0 + WindowRows THEN EventCount ELSE 0 + WindowRows
            BY <1>2, LastRowIs
        <3> QED
            BY <1>2, <3>1
    <2>2. PageOf(row) \in PagesOf(0, WindowRows)
        BY <1>2, <2>1, PagesOfWindow
    <2> QED
        BY <1>1, <1>8, <2>2
<1> QED
    BY <1>3, <1>4, <1>8, <1>9 DEF TableInv

LEMMA MoveTable ==
    ASSUME TableInv, NEW row \in Nat, MoveTo(row)
    PROVE  TableInv'
<1> DEFINE wanted == PagesOf(row, LastRow(row, total))
<1>1. /\ top' = row /\ UNCHANGED <<query, generation, total, pages, error>>
      /\ Load(wanted, pages, pending, fetches)
    BY DEF MoveTo
<1>2. TypesInv' /\ PagesInv'
    BY <1>1 DEF TableInv, TypesInv, PagesInv
<1>3. LastRow(row, total) \in Nat
    BY LastRowIs DEF TableInv, TypesInv
<1>4. wanted \in SUBSET Nat
    BY <1>3, PagesOfNat
<1>5. \A fetch \in fetches : /\ fetch.query \in DOMAIN Matching
                             /\ fetch.offset \in Nat
                             /\ fetch.generation \in 0 .. generation'
                             /\ fetch.generation = generation' => fetch.query = query'
    BY <1>1 DEF TableInv, FetchesInv
<1>6. query' \in DOMAIN Matching /\ generation' \in Nat
    BY <1>2 DEF TypesInv
<1> HIDE DEF wanted
<1>7. FetchesInv' /\ wanted \subseteq Offsets(pages) \cup pending'
    BY <1>1, <1>4, <1>5, <1>6, LoadCovers
<1>8. WindowInv'
    <2> SUFFICES ASSUME NEW r \in row .. LastRow(row, total) - 1
                 PROVE  PageOf(r) \in (Offsets(pages) \cup pending \cup given_up)'
        BY <1>1 DEF WindowInv
    <2>1. PageOf(r) \in wanted
        BY <1>3, PagesOfWindow DEF wanted
    <2> QED
        BY <1>1, <1>7, <2>1
<1> QED
    BY <1>2, <1>7, <1>8 DEF TableInv

\* An answer to an older query changes nothing that is shown, and one to this
\* query brings its page, unless the page lies past the rows there are.
LEMMA ArriveTable ==
    ASSUME TableInv, NEW fetch, PageArrives(fetch)
    PROVE  TableInv'
<1>1. /\ fetch \in fetches /\ fetch.query \in DOMAIN Matching /\ fetch.offset \in Nat
      /\ Current(fetch) => fetch.query = query
    BY DEF PageArrives, TableInv, FetchesInv, Current
<1>2. CASE ~Current(fetch)
    <2>1. /\ fetches' = fetches \ {fetch}
          /\ UNCHANGED <<query, generation, top, total, pages, pending, error, given_up>>
        BY <1>2 DEF PageArrives
    <2> QED
        BY <2>1 DEF TableInv, TypesInv, FetchesInv, PagesInv, WindowInv
<1>3. CASE Current(fetch)
    <2> DEFINE answer == EventPage(fetch.query, fetch.offset)
               visible == PagesOf(top, LastRow(top, answer.total))
               evicted == (Offsets(pages) \ Offsets(Cached(answer))) \cap visible
    <2>1. /\ total' = answer.total /\ pages' = Cached(answer)
          /\ UNCHANGED <<query, generation, top>>
        BY <1>3 DEF PageArrives
    <2>2. LastRow(top, total') # LastRow(top, total) =>
            Load(visible, pages', pending \ {fetch.offset}, fetches \ {fetch})
        BY <1>3 DEF PageArrives
    <2>3. LastRow(top, total') = LastRow(top, total) =>
            /\ pending' = pending \ {fetch.offset}
            /\ fetches' = fetches \ {fetch}
            /\ given_up' = (given_up \cup evicted) \ {answer.offset}
        BY <1>3 DEF PageArrives
    <2>4. /\ answer.offset \in 0 .. Len(Matching[query])
          /\ answer.offset = fetch.offset \/ fetch.offset > Len(Matching[query])
          /\ answer.events = EventsAt(query, answer.offset)
          /\ answer.events \in Seq(1 .. EventCount)
          /\ answer.total = Len(Matching[query]) /\ Len(Matching[query]) \in Nat
        BY <1>1, <1>3, EventPageIs
    <2> HIDE DEF answer
    <2>5. /\ Cached(answer) \in Seq(Entries)
          /\ Len(Cached(answer)) \in 1 .. CachedPages
          /\ \A i \in DOMAIN Cached(answer) :
               /\ Cached(answer)[i].offset <= Len(Matching[query])
               /\ Cached(answer)[i].events = EventsAt(query, Cached(answer)[i].offset)
          /\ answer.offset \in Offsets(Cached(answer))
        BY <2>4, CachedIs DEF TableInv
    <2>6. TypesInv'
        BY <2>1, <2>4, <2>5 DEF TableInv, TypesInv
    <2>7. PagesInv'
        <3>1. Len(pages') <= CachedPages
            BY <2>1, <2>5, TableAssumption
        <3> QED
            BY <2>1, <2>4, <2>5, <3>1 DEF PagesInv
    <2>8. top \in Nat /\ LastRow(top, answer.total) \in Nat /\ LastRow(top, answer.total) <= answer.total
        <3>1. top \in Nat /\ answer.total \in Nat /\ WindowRows \in Nat
            BY <2>4, TableAssumption DEF TableInv, TypesInv
        <3> QED
            <4>1. /\ LastRow(top, answer.total) \in Nat
                  /\ LastRow(top, answer.total) = IF answer.total <= top + WindowRows
                                                THEN answer.total ELSE top + WindowRows
                BY <3>1, LastRowIs
            <4> HIDE DEF answer
            <4> QED
                BY <3>1, <4>1
    <2>9. ASSUME NEW r \in top .. LastRow(top, answer.total) - 1 PROVE PageOf(r) \in visible
        <3>1. PageOf(r) \in PagesOf(top, LastRow(top, answer.total))
            BY <2>8, PagesOfWindow
        <3> QED
            BY <3>1
    <2>10. \A f \in fetches \ {fetch} : /\ f.query \in DOMAIN Matching
                                        /\ f.offset \in Nat
                                        /\ f.generation \in 0 .. generation'
                                        /\ f.generation = generation' => f.query = query'
        BY <2>1 DEF TableInv, FetchesInv
    <2>11. CASE LastRow(top, total') # LastRow(top, total)
        <3>1. visible \in SUBSET Nat
            BY <2>8, PagesOfNat
        <3>2. query' \in DOMAIN Matching /\ generation' \in Nat
            BY <2>6 DEF TypesInv
        <3> HIDE DEF visible
        <3>3. FetchesInv' /\ visible \subseteq Offsets(pages') \cup pending'
            BY <2>2, <2>10, <2>11, <3>1, <3>2, LoadCovers
        <3>4. WindowInv'
            BY <2>1, <2>9, <3>3 DEF WindowInv
        <3> QED
            BY <2>6, <2>7, <3>3, <3>4 DEF TableInv
    <2>12. CASE LastRow(top, total') = LastRow(top, total)
        <3>1. FetchesInv'
            BY <2>3, <2>10, <2>12 DEF FetchesInv
        <3>2. WindowInv'
            <4> SUFFICES ASSUME NEW r \in top .. LastRow(top, answer.total) - 1
                         PROVE  PageOf(r) \in (Offsets(pages) \cup pending \cup given_up)'
                BY <2>1 DEF WindowInv
            <4>1. PageOf(r) \in Offsets(pages) \cup pending \cup given_up
                BY <2>1, <2>12 DEF TableInv, WindowInv
            <4>2. PageOf(r) # answer.offset => PageOf(r) # fetch.offset
                <5>1. r \in Nat /\ r < Len(Matching[query])
                    BY <2>4, <2>8
                <5>2. PageOf(r) \in Nat /\ PageOf(r) <= r
                    BY <5>1, PageBounds
                <5> QED
                    BY <1>1, <2>4, <5>1, <5>2
            <4>3. PageOf(r) \in visible
                BY <2>9
            <4> HIDE DEF visible
            <4> QED
                BY <2>1, <2>3, <2>5, <2>12, <4>1, <4>2, <4>3
        <3> QED
            BY <2>6, <2>7, <3>1, <3>2 DEF TableInv
    <2> QED
        BY <2>11, <2>12
<1> QED
    BY <1>2, <1>3

LEMMA FailTable ==
    ASSUME TableInv, NEW fetch, FetchFails(fetch)
    PROVE  TableInv'
<1>1. fetches' = fetches \ {fetch} /\ UNCHANGED <<query, generation, top, total, pages>>
    BY DEF FetchFails
<1>2. \/ pending' = pending /\ given_up' = given_up
      \/ pending' = pending \ {fetch.offset} /\ given_up' = given_up \cup {fetch.offset}
    BY DEF FetchFails
<1>3. TypesInv' /\ FetchesInv' /\ PagesInv'
    BY <1>1 DEF TableInv, TypesInv, FetchesInv, PagesInv
<1>4. WindowInv'
    BY <1>1, <1>2 DEF TableInv, WindowInv
<1> QED
    BY <1>3, <1>4 DEF TableInv

-----------------------------------------------------------------------------
\* The reader, the browser and the answers keep the invariant, and nothing
\* else touches the table.
LEMMA TableStep == TableInv /\ [Next]_vars => TableInv'
<1> SUFFICES ASSUME TableInv, [Next]_vars
             PROVE  TableInv'
    OBVIOUS
<1>1. ASSUME UNCHANGED tableVars
      PROVE  TableInv'
    BY <1>1 DEF tableVars, TableInv, TypesInv, FetchesInv, PagesInv, WindowInv
<1>2. CASE TheReader
    <2>1. \A row \in 0 .. total - 1 : Scroll(row) => row \in Nat /\ MoveTo(row)
        BY DEF Scroll
    <2> QED
        BY <1>2, <2>1, ResetTable, MoveTable DEF TheReader
<1>3. CASE MoveBack
    <2>1. Max({0, total - 1}) \in Nat
        <3>1. total \in Nat
            BY DEF TableInv, TypesInv
        <3>2. Max({0, total - 1}) = IF 0 >= total - 1 THEN 0 ELSE total - 1
            BY <3>1, TwoMax
        <3> QED
            BY <3>1, <3>2
    <2> QED
        BY <1>3, <2>1, MoveTable DEF MoveBack, Clamp
<1>4. CASE Answering
    BY <1>1, <1>4, ArriveTable, FailTable DEF Answering, AnswerFetch, PageOpened
<1>5. CASE Unreachable
    BY <1>5, FailTable DEF Unreachable
<1>6. CASE \/ Launching \/ Opening \/ Serving \/ HandleRequest \/ TimePasses \/ Accident
           \/ OpenPage \/ PageLost \/ AcceptFetch
    BY <1>1, <1>6 DEF Launching, Opening, Serving, HandleRequest, TimePasses, Accident,
                      OpenPage, PageLost, AcceptFetch
<1>7. CASE UNCHANGED vars
    BY <1>1, <1>7 DEF vars
<1> QED
    BY <1>2, <1>3, <1>4, <1>5, <1>6, <1>7 DEF Next

\* A row of the window that is cached shows its own event, and one that is
\* not is under way or was given up.
LEMMA InvShows == TableInv => TableShowsTheQuery
<1> SUFFICES ASSUME TableInv, NEW row \in top .. LastRow(top, total) - 1
             PROVE  /\ \A event \in Shown(row) :
                         row < Len(Matching[query]) /\ event = Matching[query][row + 1]
                    /\ Shown(row) # {} \/ PageOf(row) \in pending \cup given_up
    BY DEF TableShowsTheQuery
<1>1. /\ query \in DOMAIN Matching /\ row \in Nat /\ total \in Nat
      /\ row < total
    <2>1. query \in DOMAIN Matching /\ top \in Nat /\ total \in Nat /\ WindowRows \in Nat
        BY TableAssumption DEF TableInv, TypesInv
    <2> QED
        <3>1. /\ LastRow(top, total) \in Nat
              /\ LastRow(top, total) = IF total <= top + WindowRows THEN total ELSE top + WindowRows
            BY <2>1, LastRowIs
        <3> QED
            BY <2>1, <3>1
<1>2. ASSUME NEW i \in DOMAIN pages, pages[i].offset = PageOf(row)
      PROVE  /\ pages[i].events = EventsAt(query, PageOf(row))
             /\ PageOf(row) <= Len(Matching[query])
    BY <1>2 DEF TableInv, PagesInv
<1>3. ASSUME NEW event \in Shown(row)
      PROVE  row < Len(Matching[query]) /\ event = Matching[query][row + 1]
    <2>1. PICK i \in DOMAIN pages :
              /\ pages[i].offset = PageOf(row)
              /\ row - PageOf(row) < Len(pages[i].events)
              /\ event = pages[i].events[row - PageOf(row) + 1]
        BY <1>3 DEF Shown
    <2> QED
        BY <1>1, <1>2, <2>1, RowOnPage
<1>4. ASSUME PageOf(row) \in Offsets(pages)
      PROVE  Shown(row) # {}
    <2>1. PICK i \in DOMAIN pages : pages[i].offset = PageOf(row)
        BY <1>4 DEF Offsets
    <2>2. row < Len(Matching[query])
        <3>1. pages # << >>
            BY <2>1
        <3> QED
            BY <1>1, <3>1 DEF TableInv, PagesInv
    <2>3. row - pages[i].offset < Len(pages[i].events)
        BY <1>1, <1>2, <2>1, <2>2, RowOnPage
    <2> QED
        BY <2>1, <2>3 DEF Shown
<1> QED
    BY <1>3, <1>4 DEF TableInv, WindowInv

(***************************************************************************)
(* The table shows the current query: a row of the window shows its own    *)
(* event or nothing, and one that shows nothing is under way or was given  *)
(* up, for any session and whatever the order of the answers (loadPage,    *)
(* resetQuery, loadVisible).                                               *)
(***************************************************************************)
THEOREM RowsTrue == Spec => []TableShowsTheQuery
<1>1. Spec => []TableInv
    BY InitTable, TableStep, PTL DEF Spec
<1> QED
    BY <1>1, InvShows, PTL
-----------------------------------------------------------------------------
(* The launcher and the timer of the server. *)

\* A server is started once, by a launcher that then waits for it.
LaunchInv ==
    /\ idle \in 0 .. IdleTimeout /\ sleep \in Nat
    /\ server = "serving" => idle + sleep <= IdleTimeout
    /\ launcher = "deciding" => server = "absent"
    /\ outcome = "text" => launcher = "done" /\ ~Alive

LEMMA InitLaunch == Init => LaunchInv
    BY TimeoutsAssumption DEF Init, ServerInit, LaunchInv, Alive

\* The text is presented where no server was started, or once it was stopped.
LEMMA LaunchKeeps == LaunchInv /\ (LaunchNext \/ OpenerNext \/ LauncherKilled) => LaunchInv'
<1> SUFFICES ASSUME LaunchInv, LaunchNext \/ OpenerNext \/ LauncherKilled
             PROVE  LaunchInv'
    OBVIOUS
<1>1. /\ UNCHANGED <<idle, sleep>>
      /\ server' = "serving" => server = "serving"
    BY DEF LaunchNext, PresentText, StartServer, ReadUrl, ReadNothing, WaitTimesOut, OpenerNext,
           OpenBrowser, OpenerFails, LauncherKilled, StartFails, StopChild
<1>2. /\ launcher # "done" /\ launcher' # "deciding"
      /\ outcome' = "text" => launcher' = "done" /\ server' \in {"absent", "gone"}
    BY DEF LaunchInv, LaunchNext, PresentText, StartServer, ReadUrl, ReadNothing, WaitTimesOut,
           OpenerNext, OpenBrowser, OpenerFails, LauncherKilled, StartFails, StopChild, Presents
<1> QED
    BY <1>1, <1>2 DEF LaunchInv, Alive

\* The timer sleeps for what is left of the timeout, and requests only leave
\* more of it.
LEMMA ServerKeeps ==
    ASSUME LaunchInv,
           \/ ServeNext \/ ServerFails \/ Tick
           \/ \E request : Accept(request) \/ Handle(request) \/ Answer(request)
    PROVE  LaunchInv'
<1>1. IdleTimeout \in Nat \ {0} /\ StartTimeout \in Nat \ {0}
    BY TimeoutsAssumption
<1>2. CASE Wake
    BY <1>1, <1>2 DEF Wake, LaunchInv, Alive
<1>3. CASE Tick
    <2>1. /\ idle' \in 0 .. IdleTimeout /\ sleep' \in Nat
          /\ idle + sleep <= IdleTimeout => idle' + sleep' <= IdleTimeout
        BY <1>1, <1>3 DEF Tick, AtMost, LaunchInv
    <2> QED
        BY <1>3, <2>1 DEF Tick, LaunchInv, Alive
<1>4. CASE Bind \/ PrintUrl \/ Serve \/ ShutDown \/ ServerFails
    BY <1>1, <1>4 DEF Bind, PrintUrl, Serve, ShutDown, ServerFails, LaunchInv, Alive
<1>5. CASE \E request : Accept(request) \/ Handle(request) \/ Answer(request)
    BY <1>1, <1>5 DEF Accept, Handle, Answer, LaunchInv, Alive
<1> QED
    BY <1>2, <1>3, <1>4, <1>5 DEF ServeNext

LEMMA LaunchStep == LaunchInv /\ [Next]_vars => LaunchInv'
<1> SUFFICES ASSUME LaunchInv, [Next]_vars
             PROVE  LaunchInv'
    OBVIOUS
<1>1. CASE Launching \/ Opening \/ Serving \/ TimePasses \/ Accident
    BY <1>1, LaunchKeeps, ServerKeeps DEF Launching, Opening, Serving, TimePasses, Accident
<1>2. CASE OpenPage \/ AcceptFetch \/ HandleRequest \/ Answering
    <2>1. \E request : Accept(request) \/ Handle(request) \/ Answer(request)
        BY <1>2 DEF OpenPage, AcceptFetch, HandleRequest, Answering, PageOpened, AnswerFetch
    <2> QED
        BY <2>1, ServerKeeps
<1>3. CASE UNCHANGED serverVars
    BY <1>3 DEF serverVars, LaunchInv, Alive
<1>4. CASE TheReader \/ MoveBack \/ Unreachable \/ PageLost
    BY <1>3, <1>4 DEF TheReader, MoveBack, Unreachable, PageLost
<1>5. CASE UNCHANGED vars
    BY <1>3, <1>5 DEF vars, serverVars
<1> QED
    BY <1>1, <1>2, <1>4, <1>5 DEF Next

(***************************************************************************)
(* No server is left beside the text, nor kept unused for longer than its  *)
(* timeout: for any timeouts and whatever fails, comes late or is killed   *)
(* (present_diff, read_server_url, stop_child, wait_for_idle).             *)
(***************************************************************************)
THEOREM NoServerInVain == Spec => []NoneInVain
<1>1. LaunchInv => NoneInVain
    BY DEF LaunchInv, NoneInVain
<1> QED
    BY <1>1, InitLaunch, LaunchStep, PTL DEF Spec
=============================================================================
