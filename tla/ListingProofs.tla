--------------------------- MODULE ListingProofs ---------------------------
(***************************************************************************)
(* Theorems about Listing, for all contents of Canvas, page sizes and      *)
(* limits, and for links that lead anywhere.                               *)
(***************************************************************************)
EXTENDS Listing, FiniteSetTheorems, SequenceTheorems, TLAPS

\* With sound links the pages are received in order, one per pass.
InOrder ==
    ~wild => /\ Number(url) = passes
             /\ outcome = "running" => \A u \in visited : Number(u) < passes

\* How many places of the list the pages before the current one cover.
Before == (passes - 1) * PageSize

\* As long as the list does not change, exactly those places were yielded.
InSequence ==
    ~wild /\ changes = 0 /\ outcome = "running" =>
        Before <= Len(list) /\ yielded = SubSeq(list, 1, Before)

\* As long as nothing is removed, what was there from the beginning was
\* yielded or is still to come.
Covered ==
    ~wild /\ ~removed /\ outcome = "running" =>
        \A x \in ToSet(atStart) :
            x \in ToSet(yielded) \/ \E j \in (Before + 1)..Len(list) : list[j] = x

ListingInv ==
    /\ TypeOK
    /\ InOrder
    /\ IsFiniteSet(visited)
    /\ NoPageTwice
    /\ InSequence
    /\ Covered
    /\ EveryItemOnce
    /\ NothingSkipped

\* Keys and first links are URLs.
LEMMA UrlTypes ==
    /\ FirstUrl \in Urls /\ NoLink \in Urls
    /\ \A u \in Urls : Key(u) \in Urls
BY ListingAssumption DEF FirstUrl, NoLink, Urls, Pages, Key

\* A page covers PageSize places.
LEMMA Places ==
    ASSUME TypeOK
    PROVE  /\ Before \in Nat /\ passes * PageSize = Before + PageSize
           /\ passes = 1 => Before = 0
BY ListingAssumption DEF TypeOK, Before

\* The set of values of a sequence, and of two of them.
LEMMA Values ==
    ASSUME NEW s \in Seq(Items), NEW t \in Seq(Items)
    PROVE  /\ \A i \in 1..Len(s) : s[i] \in ToSet(s)
           /\ \A x \in ToSet(s) : \E i \in 1..Len(s) : s[i] = x
           /\ ToSet(s) \cup ToSet(t) \subseteq ToSet(s \o t)
<1>1. /\ \A i \in 1..Len(s) : s[i] \in ToSet(s)
      /\ \A x \in ToSet(s) : \E i \in 1..Len(s) : s[i] = x
      /\ \A x \in ToSet(t) : \E i \in 1..Len(t) : t[i] = x
  BY LenProperties DEF ToSet
<1>2. /\ s \o t \in Seq(Items)
      /\ Len(s \o t) = Len(s) + Len(t)
      /\ \A i \in 1..(Len(s) + Len(t)) :
            (s \o t)[i] = IF i <= Len(s) THEN s[i] ELSE t[i - Len(s)]
  BY ConcatProperties
<1>3. \A i \in 1..(Len(s) + Len(t)) : (s \o t)[i] \in ToSet(s \o t)
  BY <1>2, LenProperties DEF ToSet
<1>4. Len(s) \in Nat /\ Len(t) \in Nat
  BY LenProperties
<1>5. ASSUME NEW x \in ToSet(s) PROVE x \in ToSet(s \o t)
  <2>1. PICK i \in 1..Len(s) : s[i] = x
    BY <1>1
  <2>. QED
    BY <2>1, <1>2, <1>3, <1>4
<1>6. ASSUME NEW x \in ToSet(t) PROVE x \in ToSet(s \o t)
  <2>1. PICK i \in 1..Len(t) : t[i] = x
    BY <1>1
  <2>2. /\ i + Len(s) \in 1..(Len(s) + Len(t))
        /\ ~(i + Len(s) <= Len(s)) /\ (i + Len(s)) - Len(s) = i
    BY <1>4
  <2>. QED
    BY <2>1, <2>2, <1>2, <1>3
<1>. QED
  BY <1>1, <1>5, <1>6

\* The links of a listing are URLs; a sound one leads to the next page, and
\* there is one as long as the list goes on.
LEMMA LinkTypes ==
    ASSUME TypeOK, InOrder, NEW link \in LinksOf(url)
    PROVE  /\ link \in Urls
           /\ ~wild => \/ link = NoLink /\ passes * PageSize >= Len(list)
                       \/ /\ link # NoLink /\ link.page = passes + 1
                          /\ passes * PageSize < Len(list)
<1>1. CASE wild
  BY <1>1 DEF LinksOf
<1>2. CASE ~wild
  <2>1. Number(url) = passes /\ passes \in 1..MaxPages /\ url \in Urls
    BY <1>2 DEF InOrder, TypeOK
  <2>2. passes * PageSize \in Nat /\ Len(list) \in Nat
    BY Places, ListingAssumption, LenProperties DEF TypeOK
  <2>3. CASE passes * PageSize < Len(list)
    <3>1. link = [page |-> passes + 1, sized |-> url.sized]
      BY <1>2, <2>1, <2>3 DEF LinksOf
    <3>. QED
      BY <2>1, <2>3, <3>1, <1>2, ListingAssumption DEF Urls, Pages, NoLink
  <2>4. CASE ~(passes * PageSize < Len(list))
    <3>1. link = NoLink
      BY <1>2, <2>1, <2>4 DEF LinksOf
    <3>. QED
      BY <2>2, <2>4, <3>1, <1>2, UrlTypes
  <2>. QED
    BY <2>3, <2>4
<1>. QED
  BY <1>1, <1>2

\* The page received in order: the places after those before it.
LEMMA PageReceived ==
    ASSUME TypeOK, NEW last,
           last = IF passes * PageSize <= Len(list) THEN passes * PageSize ELSE Len(list)
    PROVE  /\ last \in 0..Len(list)
           /\ Number(url) = passes => PageOf(url) = SubSeq(list, Before + 1, last)
           /\ PageOf(url) \in Seq(Items)
<1>1. Len(list) \in Nat
  BY LenProperties DEF TypeOK
<1>2. last \in 0..Len(list)
  BY <1>1, Places, ListingAssumption
<1>3. Number(url) = passes => PageOf(url) = SubSeq(list, Before + 1, last)
  BY DEF PageOf, Before
<1>4. Number(url) \in Nat \ {0}
  BY ListingAssumption DEF TypeOK, Urls, Pages, Number
<1>5. PICK m \in Nat \ {0}, n \in 0..Len(list) : PageOf(url) = SubSeq(list, m, n)
  <2>1. (Number(url) - 1) * PageSize + 1 \in Nat \ {0} /\ Number(url) * PageSize \in Nat
    BY <1>4, ListingAssumption
  <2>2. (IF Number(url) * PageSize <= Len(list) THEN Number(url) * PageSize
         ELSE Len(list)) \in 0..Len(list)
    BY <1>1, <2>1
  <2>3. PageOf(url) =
          SubSeq(list, (Number(url) - 1) * PageSize + 1,
                 IF Number(url) * PageSize <= Len(list) THEN Number(url) * PageSize
                 ELSE Len(list))
    BY DEF PageOf
  <2>. QED
    BY <2>1, <2>2, <2>3
<1>6. PageOf(url) \in Seq(Items)
  <2>1. \A i \in m..n : list[i] \in Items
    BY <1>1, <1>5, ElementOfSeq DEF TypeOK
  <2>. QED
    BY <1>5, <2>1, SubSeqProperties
<1>. QED
  BY <1>2, <1>3, <1>6

LEMMA InitEstablishes == Init => ListingInv
<1>. SUFFICES ASSUME Init PROVE ListingInv
  OBVIOUS
<1>1. TypeOK
  <2>1. yielded \in Seq(Items)
    BY EmptySeq DEF Init
  <2>2. list \in Seq(Items) /\ atStart = list
    BY ListingAssumption DEF Init
  <2>3. changes \in 0..MaxChanges
    <3>1. changes = 0 /\ MaxChanges \in Nat
      BY ListingAssumption DEF Init
    <3>. QED
      BY <3>1
  <2>4. removed \in BOOLEAN
    BY Zenon DEF Init
  <2>. QED
    BY <2>1, <2>2, <2>3, <2>4, UrlTypes, ListingAssumption DEF Init, TypeOK
<1>2. InOrder
  BY DEF Init, InOrder, Number, FirstUrl
<1>3. IsFiniteSet(visited) /\ Cardinality(visited) = 0
  BY FS_EmptySet DEF Init
<1>4. NoPageTwice
  BY <1>3 DEF Init, NoPageTwice
<1>5. Before = 0 /\ Len(list) \in Nat /\ Len(yielded) = 0 /\ yielded = << >>
  BY <1>1, Places, LenProperties, EmptySeq DEF Init, TypeOK
<1>6. SubSeq(list, 1, 0) = << >> /\ SubSeq(yielded, 1, 0) = << >>
  BY SubSeqEmpty
<1>7. InSequence
  BY <1>5, <1>6 DEF InSequence
<1>8. Covered
  BY <1>1, <1>5, Values DEF Init, Covered, TypeOK
<1>9. EveryItemOnce /\ NothingSkipped
  BY <1>5, <1>6 DEF Init, EveryItemOnce, NothingSkipped, IsPrefix
<1>. QED
  BY <1>1, <1>2, <1>3, <1>4, <1>7, <1>8, <1>9 DEF ListingInv

\* What a received page adds: in order, its items are the next places of the
\* list.
LEMMA PageYielded ==
    ASSUME ListingInv, Receive, NEW last,
           last = IF passes * PageSize <= Len(list) THEN passes * PageSize ELSE Len(list)
    PROVE  /\ yielded' \in Seq(Items)
           /\ ~wild /\ changes = 0 =>
                yielded' = SubSeq(list, 1, last) /\ IsPrefix(yielded', list)
           /\ ~wild /\ ~removed =>
                \A x \in ToSet(atStart) :
                    x \in ToSet(yielded') \/ \E j \in (last + 1)..Len(list) : list[j] = x
<1>1. /\ TypeOK /\ outcome = "running"
      /\ list \in Seq(Items) /\ atStart \in Seq(Items) /\ yielded \in Seq(Items)
      /\ Len(list) \in Nat
  BY LenProperties DEF ListingInv, TypeOK, Receive
<1>2. last \in 0..Len(list) /\ Before \in Nat /\ passes * PageSize = Before + PageSize
  BY <1>1, Places, PageReceived
<1>3. PICK page \in Seq(Items) :
        /\ yielded' = yielded \o page
        /\ ~wild => page = SubSeq(list, Before + 1, last)
  <2>1. ~wild => Number(url) = passes
    BY DEF ListingInv, InOrder
  <2>. QED
    BY <1>1, <2>1, PageReceived DEF Receive
<1>4. yielded \o page \in Seq(Items)
  BY <1>1, ConcatProperties
<1>5. ASSUME ~wild, changes = 0
      PROVE  yielded' = SubSeq(list, 1, last) /\ IsPrefix(yielded', list)
  <2>1. Before <= Len(list) /\ yielded = SubSeq(list, 1, Before)
    BY <1>1, <1>5 DEF ListingInv, InSequence
  <2>2. Before \in 0..Len(list) /\ last \in Before..Len(list)
    BY <1>1, <1>2, <2>1, ListingAssumption
  <2>3. yielded' = SubSeq(list, 1, last)
    BY <1>1, <1>3, <1>5, <2>1, <2>2, ConcatAdjacentSubSeq
  <2>4. Len(SubSeq(list, 1, last)) = last /\ SubSeq(list, 1, last) \in Seq(Items)
    <3>1. \A i \in 1..last : list[i] \in Items
      BY <1>1, <1>2, ElementOfSeq
    <3>. QED
      BY <1>2, <3>1, SubSeqProperties
  <2>5. IsPrefix(SubSeq(list, 1, last), list)
    <3>1. SubSeq(SubSeq(list, 1, last), 1, last) = SubSeq(list, 1, last)
      BY <2>4, SubSeqFull
    <3>. QED
      BY <1>1, <1>2, <2>4, <3>1 DEF IsPrefix
  <2>. QED
    BY <2>3, <2>5
<1>6. ASSUME ~wild, ~removed, NEW x \in ToSet(atStart)
      PROVE  x \in ToSet(yielded \o page) \/ \E j \in (last + 1)..Len(list) : list[j] = x
  <2>1. ToSet(yielded) \cup ToSet(page) \subseteq ToSet(yielded \o page)
    BY <1>1, Values
  <2>2. CASE x \in ToSet(yielded)
    BY <2>1, <2>2
  <2>3. ASSUME NEW j \in (Before + 1)..Len(list), list[j] = x, j <= last
        PROVE  x \in ToSet(page)
    <3>1. \A i \in (Before + 1)..last : list[i] \in Items
      BY <1>1, <1>2, ElementOfSeq
    <3>2. /\ Len(SubSeq(list, Before + 1, last)) = last - Before
          /\ \A i \in 1..(last - Before) :
                SubSeq(list, Before + 1, last)[i] = list[Before + i]
      <4>1. Before + 1 \in Int /\ last \in Int /\ Before + 1 <= last
        BY <1>2, <2>3
      <4>2. /\ Len(SubSeq(list, Before + 1, last)) = last - (Before + 1) + 1
            /\ \A i \in 1..(last - (Before + 1) + 1) :
                  SubSeq(list, Before + 1, last)[i] = list[(Before + 1) + i - 1]
        BY <3>1, <4>1, SubSeqProperties
      <4>3. /\ last - (Before + 1) + 1 = last - Before
            /\ \A i \in 1..(last - Before) : (Before + 1) + i - 1 = Before + i
        BY <4>1, <1>2
      <4>. QED
        BY <4>2, <4>3
    <3>3. j - Before \in 1..(last - Before) /\ Before + (j - Before) = j
      BY <1>2, <2>3
    <3>4. page = SubSeq(list, Before + 1, last)
      BY <1>3, <1>6
    <3>5. j - Before \in 1..Len(page) /\ page[j - Before] = x
      BY <2>3, <3>2, <3>3, <3>4
    <3>. QED
      BY <3>5, Values
  <2>4. x \in ToSet(yielded) \/ \E j \in (Before + 1)..Len(list) : list[j] = x
    BY <1>1, <1>6 DEF ListingInv, Covered
  <2>. QED
    BY <1>1, <1>2, <2>1, <2>2, <2>3, <2>4
<1>. QED
  BY <1>3, <1>4, <1>5, <1>6

\* Receiving a page adds one key; the loop goes on only to a page whose key
\* is new, and with sound links it ends only at the end of the list.
LEMMA ReceivePreserves ==
    ASSUME ListingInv, Receive
    PROVE  ListingInv'
<1>1. PICK link \in LinksOf(url) : Advance(link)
  BY DEF Receive
<1>2. /\ outcome = "running"
      /\ visited' = visited \cup {Key(url)}
      /\ UNCHANGED canvas
  BY DEF Receive
<1>3. /\ link \in Urls
      /\ ~wild => \/ link = NoLink /\ passes * PageSize >= Len(list)
                  \/ /\ link # NoLink /\ link.page = passes + 1
                     /\ passes * PageSize < Len(list)
  BY LinkTypes DEF ListingInv
<1>4. /\ Key(url) \in Urls /\ Key(url) \notin visited /\ url \in Urls
      /\ Cardinality(visited) = passes - 1
      /\ IsFiniteSet(visited)
      /\ passes \in 1..MaxPages /\ passes \in Nat
  BY <1>2, UrlTypes, ListingAssumption DEF ListingInv, TypeOK, NoPageTwice
<1>5. IsFiniteSet(visited') /\ Cardinality(visited') = passes
  <2>1. /\ IsFiniteSet(visited')
        /\ Cardinality(visited') = Cardinality(visited) + 1
    BY <1>2, <1>4, FS_AddElement
  <2>. QED
    BY <1>4, <2>1
<1>6. ~wild => \A u \in visited' : Number(u) < passes + 1
  <2>1. ~wild => Number(Key(url)) = passes /\ \A u \in visited : Number(u) < passes
    BY <1>2 DEF ListingInv, InOrder, Key, Number
  <2>2. \A u \in Urls : Number(u) \in Nat
    BY ListingAssumption DEF Urls, Pages, Number
  <2>3. visited \subseteq Urls
    BY DEF ListingInv, TypeOK
  <2>. QED
    BY <1>2, <1>4, <2>1, <2>2, <2>3
<1>7. ~wild /\ link # NoLink => link # url /\ Key(link) \notin visited'
  <2>1. ~wild /\ link # NoLink => Number(link) = passes + 1 /\ Number(Key(link)) = passes + 1
    BY <1>3, <1>4 DEF Number, Key
  <2>2. ~wild => Number(url) = passes
    BY DEF ListingInv, InOrder
  <2>. QED
    BY <1>4, <1>6, <2>1, <2>2
<1>8. PICK last : last = IF passes * PageSize <= Len(list) THEN passes * PageSize
                         ELSE Len(list)
  OBVIOUS
<1>9. /\ yielded' \in Seq(Items)
      /\ ~wild /\ changes = 0 => yielded' = SubSeq(list, 1, last) /\ IsPrefix(yielded', list)
      /\ ~wild /\ ~removed =>
            \A x \in ToSet(atStart) :
                x \in ToSet(yielded') \/ \E j \in (last + 1)..Len(list) : list[j] = x
  BY <1>8, PageYielded
<1>10. /\ list \in Seq(Items) /\ Len(list) \in Nat /\ passes * PageSize \in Nat
  BY <1>4, LenProperties, ListingAssumption DEF ListingInv, TypeOK
<1>11. CASE /\ outcome' \in {"complete", "endless"}
            /\ UNCHANGED <<url, passes, attempts>>
  <2>1. ~wild /\ outcome' = "complete" => last = Len(list)
    <3>1. ~wild /\ outcome' = "complete" => link = NoLink
      BY <1>1, <1>2, <1>7 DEF Advance
    <3>. QED
      BY <1>3, <1>8, <1>10, <3>1
  <2>2. TypeOK'
    BY <1>2, <1>4, <1>9, <1>11 DEF ListingInv, TypeOK, canvas
  <2>3. InOrder'
    BY <1>2, <1>11 DEF ListingInv, InOrder, Number, canvas
  <2>4. NoPageTwice'
    BY <1>11 DEF NoPageTwice
  <2>5. InSequence' /\ Covered'
    BY <1>11 DEF InSequence, Covered
  <2>6. EveryItemOnce'
    BY <1>2, <1>9, <1>10, <2>1, SubSeqFull DEF EveryItemOnce, canvas
  <2>7. NothingSkipped'
    <3>1. ~wild /\ ~removed /\ outcome' = "complete" =>
            \A x \in ToSet(atStart) : x \in ToSet(yielded')
      BY <1>9, <1>10, <2>1
    <3>. QED
      BY <1>2, <3>1 DEF NothingSkipped, canvas, ToSet
  <2>. QED
    BY <1>5, <2>2, <2>3, <2>4, <2>5, <2>6, <2>7 DEF ListingInv
<1>12. CASE /\ link # NoLink /\ passes # MaxPages /\ Key(link) \notin visited'
            /\ url' = link /\ passes' = passes + 1 /\ attempts' = 0
            /\ UNCHANGED outcome
  <2>1. ~wild => last = passes * PageSize /\ last <= Len(list)
    BY <1>3, <1>8, <1>10, <1>12
  <2>2. Before' = passes * PageSize
    <3>1. Before' = ((passes + 1) - 1) * PageSize
      BY <1>12 DEF Before
    <3>. QED
      BY <1>4, <3>1, ListingAssumption
  <2>3. TypeOK'
    BY <1>2, <1>3, <1>4, <1>9, <1>12, ListingAssumption DEF ListingInv, TypeOK, canvas
  <2>4. InOrder'
    BY <1>2, <1>3, <1>4, <1>6, <1>12 DEF InOrder, Number, canvas
  <2>5. NoPageTwice'
    BY <1>4, <1>5, <1>12 DEF NoPageTwice, Key
  <2>6. InSequence'
    BY <1>2, <1>9, <2>1, <2>2 DEF InSequence, canvas
  <2>7. Covered'
    <3>1. ~wild /\ ~removed =>
            \A x \in ToSet(atStart) :
                x \in ToSet(yielded')
                \/ \E j \in (passes * PageSize + 1)..Len(list) : list[j] = x
      BY <1>9, <2>1
    <3>. QED
      BY <1>2, <2>2, <3>1 DEF Covered, canvas, ToSet
  <2>8. EveryItemOnce' /\ NothingSkipped'
    BY <1>2, <1>9, <1>12 DEF EveryItemOnce, NothingSkipped, canvas
  <2>. QED
    BY <1>5, <2>3, <2>4, <2>5, <2>6, <2>7, <2>8 DEF ListingInv
<1>. QED
  BY <1>1, <1>11, <1>12 DEF Advance

\* A failed attempt and an error yield nothing and change no page.
LEMMA FailurePreserves ==
    ASSUME ListingInv, Unavailable \/ Rejected \/ UNCHANGED vars
    PROVE  ListingInv'
<1>1. /\ UNCHANGED <<canvas, url, visited, passes, yielded>>
      /\ outcome' = outcome \/ outcome' \notin {"running", "complete"}
  BY DEF Unavailable, Rejected, vars
<1>2. Before' = Before
  BY <1>1 DEF Before
<1>3. TypeOK'
  <2>1. CASE Unavailable
    BY <2>1, ListingAssumption DEF Unavailable, ListingInv, TypeOK, canvas
  <2>2. CASE Rejected
    BY <2>2 DEF Rejected, ListingInv, TypeOK, canvas
  <2>3. CASE UNCHANGED vars
    BY <2>3 DEF vars, ListingInv, TypeOK, canvas
  <2>. QED
    BY <2>1, <2>2, <2>3
<1>4. InOrder' /\ IsFiniteSet(visited') /\ NoPageTwice'
  BY <1>1 DEF ListingInv, InOrder, Number, NoPageTwice, canvas
<1>5. InSequence' /\ Covered'
  BY <1>1, <1>2 DEF ListingInv, InSequence, Covered, canvas, ToSet
<1>6. EveryItemOnce' /\ NothingSkipped'
  BY <1>1 DEF ListingInv, EveryItemOnce, NothingSkipped, canvas, ToSet
<1>. QED
  BY <1>3, <1>4, <1>5, <1>6 DEF ListingInv

\* The values of two sequences put together, place by place.
LEMMA Concatenated ==
    ASSUME NEW a \in Seq(Items), NEW b \in Seq(Items)
    PROVE  /\ a \o b \in Seq(Items)
           /\ Len(a \o b) = Len(a) + Len(b)
           /\ \A j \in 1..Len(a) : (a \o b)[j] = a[j]
           /\ \A j \in 1..Len(b) : (a \o b)[Len(a) + j] = b[j]
<1>1. Len(a) \in Nat /\ Len(b) \in Nat
  BY LenProperties
<1>2. /\ a \o b \in Seq(Items)
      /\ Len(a \o b) = Len(a) + Len(b)
      /\ \A j \in 1..(Len(a) + Len(b)) :
            (a \o b)[j] = IF j <= Len(a) THEN a[j] ELSE b[j - Len(a)]
  BY ConcatProperties
<1>3. \A j \in 1..Len(a) : j \in 1..(Len(a) + Len(b)) /\ j <= Len(a)
  BY <1>1
<1>4. \A j \in 1..Len(b) : /\ Len(a) + j \in 1..(Len(a) + Len(b))
                           /\ ~(Len(a) + j <= Len(a)) /\ (Len(a) + j) - Len(a) = j
  BY <1>1
<1>5. \A j \in 1..Len(a) : (a \o b)[j] = a[j]
  BY <1>2, <1>3
<1>6. ASSUME NEW j \in 1..Len(b) PROVE (a \o b)[Len(a) + j] = b[j]
  BY <1>2, <1>4
<1>. QED
  BY <1>2, <1>5, <1>6

\* The values of a part of a sequence, place by place.
LEMMA PartOf ==
    ASSUME NEW s \in Seq(Items), NEW m \in 1..(Len(s) + 1), NEW n \in (m - 1)..Len(s)
    PROVE  /\ SubSeq(s, m, n) \in Seq(Items)
           /\ Len(SubSeq(s, m, n)) = n - m + 1
           /\ \A j \in 1..(n - m + 1) : SubSeq(s, m, n)[j] = s[m + j - 1]
<1>1. Len(s) \in Nat /\ m \in Int /\ n \in Int
  BY LenProperties
<1>2. \A j \in m..n : s[j] \in Items
  BY <1>1, ElementOfSeq
<1>3. /\ SubSeq(s, m, n) \in Seq(Items)
      /\ Len(SubSeq(s, m, n)) = IF m <= n THEN n - m + 1 ELSE 0
      /\ \A j \in 1..(n - m + 1) : SubSeq(s, m, n)[j] = s[m + j - 1]
  BY <1>1, <1>2, SubSeqProperties
<1>4. (IF m <= n THEN n - m + 1 ELSE 0) = n - m + 1
  BY <1>1
<1>. QED
  BY <1>3, <1>4

\* An insertion keeps every item, at its place or the next one.
LEMMA Inserted ==
    ASSUME NEW s \in Seq(Items), NEW i \in 1..(Len(s) + 1), NEW x \in Items,
           NEW t, t = InsertAt(s, i, x)
    PROVE  /\ t \in Seq(Items)
           /\ \A j \in 1..Len(s) : \E k \in {j, j + 1} : k <= Len(t) /\ t[k] = s[j]
<1>1. Len(s) \in Nat /\ i - 1 \in (1 - 1)..Len(s) /\ Len(s) \in (i - 1)..Len(s)
      /\ 1 \in 1..(Len(s) + 1)
  BY LenProperties
<1>2. PICK a : a = SubSeq(s, 1, i - 1)
  OBVIOUS
<1>3. PICK b : b = SubSeq(s, i, Len(s))
  OBVIOUS
<1>4. PICK c : c = a \o << x >>
  OBVIOUS
<1>5. t = c \o b
  BY <1>2, <1>3, <1>4 DEF InsertAt
<1>6. /\ a \in Seq(Items) /\ Len(a) = (i - 1) - 1 + 1
      /\ \A j \in 1..((i - 1) - 1 + 1) : a[j] = s[1 + j - 1]
  BY <1>1, <1>2, PartOf
<1>7. /\ b \in Seq(Items) /\ Len(b) = Len(s) - i + 1
      /\ \A j \in 1..(Len(s) - i + 1) : b[j] = s[i + j - 1]
  BY <1>1, <1>3, PartOf
<1>8. << x >> \in Seq(Items) /\ Len(<< x >>) = 1
  OBVIOUS
<1>9. /\ c \in Seq(Items) /\ Len(c) = Len(a) + 1
      /\ \A j \in 1..Len(a) : c[j] = a[j]
  BY <1>4, <1>6, <1>8, Concatenated
<1>10. /\ t \in Seq(Items) /\ Len(t) = Len(c) + Len(b)
       /\ \A j \in 1..Len(c) : t[j] = c[j]
       /\ \A j \in 1..Len(b) : t[Len(c) + j] = b[j]
  <2>1. b \in Seq(Items) /\ c \in Seq(Items)
    BY <1>7, <1>9
  <2>2. /\ c \o b \in Seq(Items)
        /\ Len(c \o b) = Len(c) + Len(b)
        /\ \A j \in 1..Len(c) : (c \o b)[j] = c[j]
        /\ \A j \in 1..Len(b) : (c \o b)[Len(c) + j] = b[j]
    BY <2>1, Concatenated
  <2>. QED
    BY <1>5, <2>2
<1>11. Len(a) = i - 1 /\ Len(c) = i /\ Len(t) = Len(s) + 1
  BY <1>1, <1>6, <1>7, <1>9, <1>10
<1>12. ASSUME NEW j \in 1..Len(s), j < i
       PROVE  j <= Len(t) /\ t[j] = s[j]
  <2>1. j \in 1..((i - 1) - 1 + 1) /\ 1 + j - 1 = j /\ j \in 1..Len(a) /\ j \in 1..Len(c)
        /\ j <= Len(t)
    BY <1>1, <1>11, <1>12
  <2>. QED
    BY <2>1, <1>6, <1>9, <1>10
<1>13. ASSUME NEW j \in 1..Len(s), ~(j < i)
       PROVE  j + 1 <= Len(t) /\ t[j + 1] = s[j]
  <2>1. PICK k \in 1..Len(b) : k = j - i + 1
    BY <1>1, <1>7, <1>13
  <2>2. k \in 1..(Len(s) - i + 1) /\ i + k - 1 = j /\ Len(c) + k = j + 1 /\ j + 1 <= Len(t)
    BY <1>1, <1>7, <1>11, <1>13, <2>1
  <2>3. b[k] = s[j]
    BY <1>7, <2>2
  <2>. QED
    BY <2>2, <2>3, <1>10
<1>. QED
  BY <1>10, <1>12, <1>13

\* A removal leaves a sequence of items.
LEMMA Deleted ==
    ASSUME NEW s \in Seq(Items), NEW i \in 1..Len(s)
    PROVE  RemoveAt(s, i) \in Seq(Items)
<1>1. /\ Len(s) \in Nat
      /\ \A j \in 1..Len(s) : s[j] \in Items
  BY LenProperties, ElementOfSeq
<1>2. SubSeq(s, 1, i - 1) \in Seq(Items) /\ SubSeq(s, i + 1, Len(s)) \in Seq(Items)
  BY <1>1, SubSeqProperties
<1>. QED
  BY <1>2, ConcatProperties DEF RemoveAt

\* What is added before the current page moves items to later pages, never to
\* earlier ones.
LEMMA AddedPreserves ==
    ASSUME ListingInv, Added
    PROVE  ListingInv'
<1>1. PICK i \in 1..(Len(list) + 1) : list' = InsertAt(list, i, CHOOSE x \in Fresh : TRUE)
  BY DEF Added
<1>2. /\ UNCHANGED <<atStart, removed, wild, url, visited, passes, attempts, yielded, outcome>>
      /\ outcome = "running" /\ changes' = changes + 1 /\ changes < MaxChanges
      /\ (CHOOSE x \in Fresh : TRUE) \in Items
  BY DEF Added, Changed, Fresh
<1>3. /\ list \in Seq(Items) /\ Len(list) \in Nat /\ changes \in Nat
      /\ Before \in Nat
  BY LenProperties, ListingAssumption, Places DEF ListingInv, TypeOK
<1>4. /\ list' \in Seq(Items)
      /\ \A j \in 1..Len(list) : \E k \in {j, j + 1} : k <= Len(list') /\ list'[k] = list[j]
  <2>1. PICK x \in Items : list' = InsertAt(list, i, x)
    BY <1>1, <1>2
  <2>2. PICK t : t = list'
    OBVIOUS
  <2>3. /\ t \in Seq(Items)
        /\ \A j \in 1..Len(list) : \E k \in {j, j + 1} : k <= Len(t) /\ t[k] = list[j]
    BY <1>3, <2>1, <2>2, Inserted
  <2>. QED
    BY <2>2, <2>3
<1>5. Before' = Before
  BY <1>2 DEF Before
<1>6. TypeOK'
  BY <1>2, <1>3, <1>4, ListingAssumption DEF ListingInv, TypeOK
<1>7. InOrder' /\ IsFiniteSet(visited') /\ NoPageTwice'
  BY <1>2 DEF ListingInv, InOrder, Number, NoPageTwice
<1>8. InSequence' /\ EveryItemOnce' /\ NothingSkipped'
  BY <1>2, <1>3 DEF InSequence, EveryItemOnce, NothingSkipped
<1>9. ASSUME ~wild, ~removed, NEW x \in ToSet(atStart)
      PROVE  x \in ToSet(yielded) \/ \E j \in (Before + 1)..Len(list') : list'[j] = x
  <2>1. x \in ToSet(yielded) \/ \E j \in (Before + 1)..Len(list) : list[j] = x
    BY <1>2, <1>9 DEF ListingInv, Covered
  <2>2. ASSUME NEW j \in (Before + 1)..Len(list), list[j] = x
        PROVE  \E k \in (Before + 1)..Len(list') : list'[k] = x
    <3>1. j \in 1..Len(list)
      BY <1>3
    <3>2. PICK k \in {j, j + 1} : k <= Len(list') /\ list'[k] = list[j]
      BY <1>4, <3>1
    <3>3. Len(list') \in Nat
      BY <1>4, LenProperties
    <3>. QED
      BY <1>3, <2>2, <3>2, <3>3
  <2>. QED
    BY <2>1, <2>2
<1>10. Covered'
  BY <1>2, <1>5, <1>9 DEF Covered, ToSet
<1>. QED
  BY <1>6, <1>7, <1>8, <1>10 DEF ListingInv

\* After a removal nothing is claimed but order and bounds.
LEMMA RemovedPreserves ==
    ASSUME ListingInv, Removed
    PROVE  ListingInv'
<1>1. PICK i \in 1..Len(list) : list' = RemoveAt(list, i)
  BY DEF Removed
<1>2. /\ UNCHANGED <<atStart, wild, url, visited, passes, attempts, yielded, outcome>>
      /\ outcome = "running" /\ changes' = changes + 1 /\ changes < MaxChanges
      /\ removed' = TRUE
  BY DEF Removed, Changed
<1>3. list \in Seq(Items) /\ changes \in Nat
  BY ListingAssumption DEF ListingInv, TypeOK
<1>4. list' \in Seq(Items)
  BY <1>1, <1>3, Deleted
<1>5. TypeOK'
  BY <1>2, <1>3, <1>4, ListingAssumption DEF ListingInv, TypeOK
<1>6. InOrder' /\ IsFiniteSet(visited') /\ NoPageTwice'
  BY <1>2 DEF ListingInv, InOrder, Number, NoPageTwice
<1>7. InSequence' /\ EveryItemOnce'
  BY <1>2, <1>3 DEF InSequence, EveryItemOnce
<1>8. Covered' /\ NothingSkipped'
  BY <1>2 DEF Covered, NothingSkipped
<1>. QED
  BY <1>5, <1>6, <1>7, <1>8 DEF ListingInv

LEMMA StepPreserves == ListingInv /\ [Next]_vars => ListingInv'
BY ReceivePreserves, FailurePreserves, AddedPreserves, RemovedPreserves DEF Next, Step, Done

\* The inductive invariant of a listing.
THEOREM Invariant == Spec => []ListingInv
BY InitEstablishes, StepPreserves, PTL DEF Spec

\* With sound links and an unchanging list, a listing yields a prefix of the
\* list and, if it completes, all of it (paginate over _request's retries).
THEOREM ItemsYieldedOnce == Spec => []EveryItemOnce
BY Invariant, PTL DEF ListingInv

\* A listing that completes has missed no item that was there from the
\* beginning, however many items were added meanwhile.
THEOREM NoItemSkipped == Spec => []NothingSkipped
BY Invariant, PTL DEF ListingInv

\* No page is received twice, wherever the links lead and however often Canvas
\* fails (paginate's visited set).
THEOREM NoPageReceivedTwice == Spec => []NoPageTwice
BY Invariant, PTL DEF ListingInv

\* Every variable keeps its type: attempts and passes stay within their
\* limits.
THEOREM TypeCorrect == Spec => []TypeOK
BY Invariant, PTL DEF ListingInv

\* The attempts that are left are at least one, and the next page costs the rest
\* of this one's.
LEMMA LeftArithmetic ==
    ASSUME NEW p \in 1..MaxPages, NEW a \in 0..(MaxAttempts - 1)
    PROVE  /\ 0 < (MaxPages - p) * MaxAttempts + (MaxAttempts - a)
           /\ p < MaxPages =>
                (MaxPages - (p + 1)) * MaxAttempts + MaxAttempts
                  < (MaxPages - p) * MaxAttempts + (MaxAttempts - a)
<1>1. /\ MaxPages \in Nat /\ MaxAttempts \in Nat /\ MaxAttempts > 0
      /\ p \in Nat /\ p <= MaxPages /\ a \in Nat /\ a < MaxAttempts
  BY ListingAssumption
<1>2. PICK n \in Nat : n = MaxPages - p
  BY <1>1
<1>3. n * MaxAttempts \in Nat
  BY <1>1
<1>4. CASE p < MaxPages
  <2>1. MaxPages - (p + 1) = n - 1 /\ n - 1 \in Nat
    BY <1>1, <1>2, <1>4
  <2>2. (n - 1) * MaxAttempts + MaxAttempts = n * MaxAttempts
    BY <1>1, <2>1
  <2>. QED
    BY <1>1, <1>2, <1>3, <2>1, <2>2
<1>5. CASE ~(p < MaxPages)
  BY <1>1, <1>2, <1>3, <1>5
<1>. QED
  BY <1>4, <1>5

\* Whatever Canvas does, the attempts run out: with the fairness of FairSpec this
\* is why every listing ends.
THEOREM ListingsRunOut == Spec => AttemptsRunOut
<1>1. ListingInv /\ ListingInv' /\ [Next]_vars =>
        [/\ Step => outcome' # "running" \/ Left' < Left
         /\ 0 < Left' /\ Left' <= Left]_vars
  <2>1. SUFFICES ASSUME ListingInv, ListingInv', Next
                 PROVE  /\ Step => outcome' # "running" \/ Left' < Left
                        /\ 0 < Left' /\ Left' <= Left
    OBVIOUS
  <2>2. /\ passes \in 1..MaxPages /\ attempts \in 0..(MaxAttempts - 1)
        /\ passes' \in 1..MaxPages /\ attempts' \in 0..(MaxAttempts - 1)
    BY <2>1 DEF ListingInv, TypeOK
  <2>3. 0 < Left'
    BY <2>2, LeftArithmetic DEF Left
  <2>4. CASE UNCHANGED <<passes, attempts>>
    <3>1. Left' = Left /\ Left \in Int
      BY <2>2, <2>4, ListingAssumption DEF Left
    <3>2. Step => outcome' # "running"
      BY <2>2, <2>4 DEF Step, Receive, Advance, Unavailable, Rejected
    <3>. QED
      BY <2>3, <3>1, <3>2
  <2>5. CASE passes' = passes /\ attempts' = attempts + 1
    <3>1. (MaxPages - passes) * MaxAttempts \in Int
      BY <2>2, ListingAssumption
    <3>2. Left' < Left
      BY <2>2, <2>5, <3>1, ListingAssumption DEF Left
    <3>3. Left \in Int /\ Left' \in Int
      BY <2>2, <3>1, <2>5, ListingAssumption DEF Left
    <3>. QED
      BY <2>3, <3>2, <3>3
  <2>6. CASE passes' = passes + 1 /\ attempts' = 0
    <3>1. passes < MaxPages
      BY <2>2, <2>6, ListingAssumption
    <3>2. Left' < Left
      BY <2>2, <2>6, <3>1, LeftArithmetic, ListingAssumption DEF Left
    <3>3. Left \in Int /\ Left' \in Int
      BY <2>2, ListingAssumption DEF Left
    <3>. QED
      BY <2>3, <3>2, <3>3
  <2>7. \/ UNCHANGED <<passes, attempts>>
        \/ passes' = passes /\ attempts' = attempts + 1
        \/ passes' = passes + 1 /\ attempts' = 0
    BY <2>1 DEF Next, Step, Receive, Advance, Unavailable, Rejected, Added, Removed, Done, vars
  <2>. QED
    BY <2>4, <2>5, <2>6, <2>7
<1>2. ListingInv /\ [Next]_vars => ListingInv'
  BY StepPreserves
<1>. QED
  BY <1>1, <1>2, Invariant, PTL DEF Spec, AttemptsRunOut
=============================================================================
