---------------------------- MODULE PagingProofs ----------------------------
(***************************************************************************)
(* Proofs about Paging, for every set of items and every page size.        *)
(***************************************************************************)
EXTENDS Paging, SequenceTheorems, FiniteSetTheorems, TLAPS

\* What the loop keeps.  Rest: while nothing is removed, an item that has been
\* listed all the time has come, or is listed behind the items that came.
HasCome(item) == \E i \in DOMAIN allList : allList[i] = item

Rest ==
    pc = "loop" /\ ~shrunk =>
        \A item \in stayed :
            HasCome(item) \/ \E i \in DOMAIN list : list[i] = item /\ i > pageNo * PageSize

PagingTypes ==
    /\ list \in Seq(Items)
    /\ pc \in {"idle", "loop", "returned", "thrown"}
    /\ pageNo \in Nat
    /\ allList \in Seq(Items)
    /\ lastTotal \in Nat
    /\ stayed \in SUBSET Items
    /\ grown \in BOOLEAN
    /\ shrunk \in BOOLEAN

IInv == PagingTypes /\ OnlyFullPagesGoOn /\ Rest /\ NothingMissedWhileGrowing

\* A page holds the items of the list from the offset on, as many as there are and
\* at most PageSize.
LEMMA PageIs ==
    ASSUME list \in Seq(Items), NEW offset \in Nat
    PROVE  /\ Page(offset) \in Seq(Items)
           /\ Len(list) <= offset => Len(Page(offset)) = 0
           /\ offset <= Len(list) /\ Len(list) <= offset + PageSize => Len(Page(offset)) = Len(list) - offset
           /\ offset + PageSize < Len(list) => Len(Page(offset)) = PageSize
           /\ \A i \in 1 .. Len(Page(offset)) : Page(offset)[i] = list[offset + i]
  BY PagingAssumption DEF Page

\* Multiplication, for the solver.
LEMMA NextOffset ==
    ASSUME NEW n \in Nat
    PROVE  n * PageSize \in Nat /\ (n + 1) * PageSize = n * PageSize + PageSize
  BY PagingAssumption

\* No call is in progress at first.
LEMMA InitIInv == Init => IInv
<1> SUFFICES ASSUME Init PROVE IInv
  OBVIOUS
<1>1. PagingTypes
  BY EmptySeq DEF Init, PagingTypes
<1>2. pc = "idle"
  BY DEF Init
<1> QED
  BY <1>1, <1>2 DEF IInv, OnlyFullPagesGoOn, Rest, NothingMissedWhileGrowing

\* A call starts with the whole list before it.
LEMMA CallStep == IInv /\ Call => IInv'
<1> SUFFICES ASSUME IInv, Call PROVE IInv'
  OBVIOUS
<1>1. PagingTypes'
  <2>1. Listed \in SUBSET Items
    BY DEF IInv, PagingTypes, Listed
  <2> QED
    BY <2>1, EmptySeq DEF IInv, PagingTypes, Call
<1>2. OnlyFullPagesGoOn'
  BY PagingAssumption DEF Call, OnlyFullPagesGoOn
<1>3. Rest'
  <2>1. \A item \in stayed' : \E i \in DOMAIN list : list[i] = item
    BY DEF Call, Listed
  <2>2. \A i \in DOMAIN list : i > 0 * PageSize
    BY PagingAssumption DEF IInv, PagingTypes
  <2> QED
    BY <2>1, <2>2 DEF Call, Rest
<1>4. NothingMissedWhileGrowing'
  BY DEF Call, NothingMissedWhileGrowing
<1> QED
  BY <1>1, <1>2, <1>3, <1>4 DEF IInv

\* A page either ends the loop or is full, and an item behind the offset is in the
\* page or behind the next offset.
LEMMA FetchPageStep == IInv /\ FetchPage => IInv'
<1> SUFFICES ASSUME IInv, FetchPage PROVE IInv'
  OBVIOUS
<1> DEFINE offset == pageNo * PageSize
           page   == Page(offset)
<1>1. list \in Seq(Items) /\ allList \in Seq(Items) /\ pageNo \in Nat /\ Len(list) \in Nat
  BY DEF IInv, PagingTypes
<1>2. offset \in Nat /\ (pageNo + 1) * PageSize = offset + PageSize
  BY <1>1, NextOffset
<1>3. /\ page \in Seq(Items)
      /\ Len(list) <= offset => Len(page) = 0
      /\ offset <= Len(list) /\ Len(list) <= offset + PageSize => Len(page) = Len(list) - offset
      /\ offset + PageSize < Len(list) => Len(page) = PageSize
      /\ \A i \in 1 .. Len(page) : page[i] = list[offset + i]
  BY <1>1, <1>2, PageIs
<1>4. pc = "loop" /\ Len(allList) = offset
  BY DEF IInv, FetchPage, OnlyFullPagesGoOn
<1>5. /\ allList' = allList \o page
      /\ list' = list /\ stayed' = stayed /\ shrunk' = shrunk /\ grown' = grown
      /\ lastTotal' = Len(list)
  BY DEF FetchPage, Offset
<1> HIDE DEF page, offset
<1>6. allList' \in Seq(Items) /\ Len(allList') = offset + Len(page)
  BY <1>1, <1>3, <1>4, <1>5, ConcatProperties
<1>7. CASE Len(allList') >= Len(list)
  <2>1. pc' = "returned" /\ pageNo' = pageNo
    BY <1>5, <1>7 DEF FetchPage, Enough
  <2>2. PagingTypes'
    BY <1>1, <1>5, <1>6, <2>1 DEF IInv, PagingTypes
  <2>3. OnlyFullPagesGoOn' /\ Rest'
    BY <2>1 DEF OnlyFullPagesGoOn, Rest
  <2>4. Len(list) <= offset + PageSize
    BY <1>1, <1>2, <1>3, <1>6, <1>7, PagingAssumption
  <2>5. NothingMissedWhileGrowing'
    <3> SUFFICES ASSUME ~shrunk, NEW item \in stayed
                 PROVE  \E i \in DOMAIN allList' : allList'[i] = item
      BY <1>5 DEF NothingMissedWhileGrowing
    <3>1. CASE HasCome(item)
      <4>1. PICK i \in DOMAIN allList : allList[i] = item
        BY <3>1 DEF HasCome
      <4>2. i \in DOMAIN allList' /\ allList'[i] = item
        BY <1>1, <1>3, <1>5, <4>1
      <4> QED
        BY <4>2
    <3>2. CASE \E i \in DOMAIN list : list[i] = item /\ i > offset
      <4>1. PICK i \in DOMAIN list : list[i] = item /\ i > offset
        BY <3>2
      <4>2. i \in 1 .. Len(list) /\ offset <= Len(list)
        BY <1>1, <1>2, <4>1
      <4>3. i - offset \in 1 .. Len(page)
        BY <1>1, <1>2, <1>3, <2>4, <4>1, <4>2
      <4>4. page[i - offset] = item
        BY <1>1, <1>2, <1>3, <4>1, <4>2, <4>3
      <4>5. i \in DOMAIN allList' /\ allList'[i] = page[i - offset]
        BY <1>1, <1>2, <1>3, <1>4, <1>5, <1>6, <4>2, <4>3
      <4> QED
        BY <4>4, <4>5
    <3> QED
      BY <1>4, <3>1, <3>2 DEF IInv, Rest, offset
  <2> QED
    BY <2>2, <2>3, <2>5 DEF IInv
<1>8. CASE ~(Len(allList') >= Len(list))
  <2>1. pc' = "loop" /\ pageNo' = pageNo + 1
    BY <1>4, <1>5, <1>8 DEF FetchPage, Enough
  <2>2. PagingTypes'
    BY <1>1, <1>5, <1>6, <2>1 DEF IInv, PagingTypes
  <2>3. offset + PageSize < Len(list)
    BY <1>1, <1>2, <1>3, <1>6, <1>8, PagingAssumption
  <2>4. Len(allList') = offset + PageSize /\ pageNo' * PageSize = offset + PageSize
    BY <1>2, <1>3, <1>6, <2>1, <2>3
  <2>5. OnlyFullPagesGoOn'
    BY <1>5, <2>1, <2>3, <2>4 DEF OnlyFullPagesGoOn
  <2>6. Rest'
    <3> SUFFICES ASSUME ~shrunk, NEW item \in stayed
                 PROVE  \/ \E i \in DOMAIN allList' : allList'[i] = item
                        \/ \E i \in DOMAIN list : list[i] = item /\ i > offset + PageSize
      BY <1>5, <2>4 DEF Rest, HasCome
    <3>1. CASE HasCome(item)
      <4>1. PICK i \in DOMAIN allList : allList[i] = item
        BY <3>1 DEF HasCome
      <4>2. i \in DOMAIN allList' /\ allList'[i] = item
        BY <1>1, <1>3, <1>5, <4>1
      <4> QED
        BY <4>2
    <3>2. CASE \E i \in DOMAIN list : list[i] = item /\ i > offset
      <4>1. PICK i \in DOMAIN list : list[i] = item /\ i > offset
        BY <3>2
      <4>2. i \in 1 .. Len(list)
        BY <1>1, <4>1
      <4>3. CASE i > offset + PageSize
        BY <4>1, <4>3
      <4>4. CASE ~(i > offset + PageSize)
        <5>1. i - offset \in 1 .. Len(page)
          BY <1>1, <1>2, <1>3, <2>3, <4>1, <4>2, <4>4, PagingAssumption
        <5>2. page[i - offset] = item
          BY <1>1, <1>2, <1>3, <4>1, <4>2, <5>1
        <5>3. i \in DOMAIN allList' /\ allList'[i] = page[i - offset]
          BY <1>1, <1>2, <1>3, <1>4, <1>5, <1>6, <4>2, <5>1, SMTT(30)
        <5> QED
          BY <5>2, <5>3
      <4> QED
        BY <4>3, <4>4
    <3> QED
      BY <1>4, <3>1, <3>2 DEF IInv, Rest, offset
  <2>7. NothingMissedWhileGrowing'
    BY <2>1 DEF NothingMissedWhileGrowing
  <2> QED
    BY <2>2, <2>5, <2>6, <2>7 DEF IInv
<1> QED
  BY <1>7, <1>8

\* What SequencesExt!InsertAt does: the items before the place stay, those from it
\* on move back by one.
LEMMA InsertAtProperties ==
    ASSUME NEW S, NEW s \in Seq(S), NEW e \in S, NEW at \in 1 .. Len(s) + 1
    PROVE  /\ InsertAt(s, at, e) \in Seq(S)
           /\ Len(InsertAt(s, at, e)) = Len(s) + 1
           /\ \A i \in 1 .. Len(s) : i < at => InsertAt(s, at, e)[i] = s[i]
           /\ \A i \in 1 .. Len(s) : i >= at => InsertAt(s, at, e)[i + 1] = s[i]
<1> DEFINE front == SubSeq(s, 1, at - 1)
           head  == front \o <<e>>
           back  == SubSeq(s, at, Len(s))
<1>0. Len(s) \in Nat /\ at \in Int
  BY LenProperties
<1>1. /\ front \in Seq(S) /\ Len(front) = at - 1
      /\ \A i \in 1 .. at - 1 : front[i] = s[i]
  OBVIOUS
<1>2. /\ back \in Seq(S) /\ Len(back) = Len(s) - at + 1
      /\ \A i \in 1 .. Len(s) - at + 1 : back[i] = s[at + i - 1]
  OBVIOUS
<1>3. <<e>> \in Seq(S) /\ Len(<<e>>) = 1
  OBVIOUS
<1>4. InsertAt(s, at, e) = head \o back
  BY DEF InsertAt
<1> HIDE DEF front, back
<1>5. /\ head \in Seq(S) /\ Len(head) = at
      /\ \A i \in 1 .. at - 1 : head[i] = s[i]
  <2>1. /\ head \in Seq(S) /\ Len(head) = (at - 1) + 1
        /\ \A i \in 1 .. (at - 1) + 1 : head[i] = IF i <= at - 1 THEN front[i] ELSE <<e>>[i - (at - 1)]
    BY <1>1, <1>3, ConcatProperties
  <2> QED
    BY <1>0, <1>1, <2>1
<1> HIDE DEF head
<1>6. /\ head \o back \in Seq(S) /\ Len(head \o back) = Len(head) + Len(back)
      /\ \A i \in 1 .. Len(head) + Len(back) :
            (head \o back)[i] = IF i <= Len(head) THEN head[i] ELSE back[i - Len(head)]
  BY <1>2, <1>5, ConcatProperties
<1>7. ASSUME NEW i \in 1 .. Len(s), i < at PROVE (head \o back)[i] = s[i]
  <2>1. i \in 1 .. Len(head) + Len(back) /\ i <= Len(head) /\ i \in 1 .. at - 1
    BY <1>0, <1>2, <1>5, <1>7
  <2> QED
    BY <1>5, <1>6, <2>1
<1>8. ASSUME NEW i \in 1 .. Len(s), i >= at PROVE (head \o back)[i + 1] = s[i]
  <2> DEFINE j == i + 1
  <2>1. /\ j \in 1 .. Len(head) + Len(back) /\ ~(j <= Len(head))
        /\ j - Len(head) \in 1 .. Len(s) - at + 1
        /\ at + (j - Len(head)) - 1 = i
    BY <1>0, <1>2, <1>5, <1>8
  <2> HIDE DEF j
  <2>2. (head \o back)[j] = back[j - Len(head)]
    BY <1>6, <2>1
  <2>3. back[j - Len(head)] = s[at + (j - Len(head)) - 1]
    BY <1>2, <2>1
  <2> QED
    BY <2>1, <2>2, <2>3 DEF j
<1>9. Len(head \o back) = Len(s) + 1
  BY <1>0, <1>2, <1>5, <1>6
<1> QED
  BY <1>4, <1>6, <1>7, <1>8, <1>9

\* An addition moves an item of the list back by one place or not at all.
LEMMA AddItemStep ==
    ASSUME NEW new \in Items, NEW at \in 1 .. Len(list) + 1, IInv, AddItem(new, at)
    PROVE  IInv'
<1>1. list \in Seq(Items) /\ Len(list) \in Nat /\ pageNo \in Nat
  BY DEF IInv, PagingTypes
<1>2. /\ list' = InsertAt(list, at, new)
      /\ UNCHANGED <<pc, pageNo, allList, lastTotal, stayed, shrunk>>
  BY DEF AddItem
<1>3. /\ list' \in Seq(Items) /\ Len(list') = Len(list) + 1
      /\ \A i \in 1 .. Len(list) : i < at => list'[i] = list[i]
      /\ \A i \in 1 .. Len(list) : i >= at => list'[i + 1] = list[i]
  BY <1>1, <1>2, InsertAtProperties, SMTT(30)
<1>4. PagingTypes'
  BY <1>2, <1>3 DEF IInv, PagingTypes, AddItem
<1>5. OnlyFullPagesGoOn' /\ NothingMissedWhileGrowing'
  BY <1>2 DEF IInv, OnlyFullPagesGoOn, NothingMissedWhileGrowing
<1>6. ASSUME NEW i \in 1 .. Len(list)
      PROVE  \E j \in 1 .. Len(list) + 1 : j >= i /\ list'[j] = list[i]
  <2>1. CASE i < at
    BY <1>1, <1>3, <2>1
  <2>2. CASE ~(i < at)
    <3> DEFINE j == i + 1
    <3>1. j \in 1 .. Len(list) + 1 /\ j >= i /\ list'[j] = list[i]
      BY <1>1, <1>3, <2>2
    <3> QED
      BY <3>1
  <2> QED
    BY <2>1, <2>2
<1>7. Rest'
  <2> SUFFICES ASSUME pc = "loop", ~shrunk, NEW item \in stayed
               PROVE  HasCome(item) \/ \E i \in DOMAIN list' : list'[i] = item /\ i > pageNo * PageSize
    BY <1>2 DEF Rest, HasCome
  <2>1. CASE HasCome(item)
    BY <2>1
  <2>2. CASE \E i \in DOMAIN list : list[i] = item /\ i > pageNo * PageSize
    <3>1. PICK i \in 1 .. Len(list) : list[i] = item /\ i > pageNo * PageSize
      BY <1>1, <2>2
    <3>2. PICK j \in 1 .. Len(list) + 1 : j >= i /\ list'[j] = list[i]
      BY <1>6
    <3>3. pageNo * PageSize \in Nat
      BY <1>1, NextOffset
    <3>4. j \in DOMAIN list'
      BY <1>3, <3>2
    <3>5. j > pageNo * PageSize
      BY <1>1, <3>1, <3>2, <3>3
    <3> QED
      BY <3>1, <3>2, <3>4, <3>5
  <2> QED
    BY <2>1, <2>2 DEF IInv, Rest
<1> QED
  BY <1>4, <1>5, <1>7 DEF IInv

\* A removal ends what is claimed of the list.
LEMMA RemoveItemStep ==
    ASSUME NEW at \in DOMAIN list, IInv, RemoveItem(at)
    PROVE  IInv'
<1>1. list \in Seq(Items) /\ at \in 1 .. Len(list)
  BY DEF IInv, PagingTypes
<1>2. /\ list' = SubSeq(list, 1, at - 1) \o SubSeq(list, at + 1, Len(list))
      /\ UNCHANGED <<pc, pageNo, allList, lastTotal, grown>>
      /\ stayed' = IF pc = "loop" THEN stayed \ {list[at]} ELSE stayed
      /\ shrunk' = (shrunk \/ pc = "loop")
  BY DEF RemoveItem, RemoveAt
<1>3. list' \in Seq(Items)
  BY <1>1, <1>2
<1>4. PagingTypes'
  BY <1>2, <1>3 DEF IInv, PagingTypes
<1>5. OnlyFullPagesGoOn'
  BY <1>2 DEF IInv, OnlyFullPagesGoOn
<1>6. Rest'
  BY <1>2 DEF Rest
<1>7. NothingMissedWhileGrowing'
  BY <1>2 DEF IInv, NothingMissedWhileGrowing
<1> QED
  BY <1>4, <1>5, <1>6, <1>7 DEF IInv

\* Every step keeps the invariant.
LEMMA NextIInv == IInv /\ [Next]_vars => IInv'
<1> SUFFICES ASSUME IInv, [Next]_vars PROVE IInv'
  OBVIOUS
<1>1. CASE FetchFails
  BY <1>1, EmptySeq DEF FetchFails, IInv, PagingTypes, OnlyFullPagesGoOn, Rest, NothingMissedWhileGrowing
<1>2. CASE Return
  BY <1>2, EmptySeq DEF Return, IInv, PagingTypes, OnlyFullPagesGoOn, Rest, NothingMissedWhileGrowing
<1>3. CASE UNCHANGED vars
  BY <1>3 DEF vars, IInv, PagingTypes, OnlyFullPagesGoOn, Rest, NothingMissedWhileGrowing, HasCome
<1> QED
  BY <1>1, <1>2, <1>3, CallStep, FetchPageStep, AddItemStep, RemoveItemStep DEF Next

\* The invariant that the theorems below rest on.
THEOREM PagingInv == Spec => []IInv
<1> QED
  BY InitIInv, NextIInv, PTL DEF Spec

\* Only full pages are followed by another, so the loop turns at most once per
\* PageSize items of the longest list it has met.
THEOREM PagingTurns == Spec => []OnlyFullPagesGoOn
<1>1. IInv => OnlyFullPagesGoOn
  BY DEF IInv
<1> QED
  BY <1>1, PagingInv, PTL

\* While items are only added, no item listed all the time is missed.
THEOREM PagingMissesNothing == Spec => []NothingMissedWhileGrowing
<1>1. IInv => NothingMissedWhileGrowing
  BY DEF IInv
<1> QED
  BY <1>1, PagingInv, PTL

-----------------------------------------------------------------------------
(* Nothing twice *)

\* The list has no item twice, and no item that has come is listed behind those that
\* came, unless something was added.
Once == \A i, j \in DOMAIN list : list[i] = list[j] => i = j

ComeOnce == \A i, j \in DOMAIN allList : allList[i] = allList[j] => i = j

BehindIsNew ==
    \A i \in DOMAIN list, j \in DOMAIN allList : list[i] = allList[j] => i <= Len(allList)

Fresh ==
    /\ pc = "loop" /\ ~grown => ComeOnce /\ BehindIsNew
    /\ NothingTwiceWhileShrinking

OnceInv == Once /\ Fresh

\* A page of a list without repetitions adds what has not come yet.
LEMMA FetchPageOnce == IInv /\ OnceInv /\ FetchPage => OnceInv'
<1> SUFFICES ASSUME IInv, OnceInv, FetchPage PROVE OnceInv'
  OBVIOUS
<1> DEFINE offset == pageNo * PageSize
           page   == Page(offset)
<1>1. list \in Seq(Items) /\ allList \in Seq(Items) /\ pageNo \in Nat /\ Len(list) \in Nat
  BY DEF IInv, PagingTypes
<1>2. offset \in Nat
  BY <1>1, NextOffset
<1>3. /\ page \in Seq(Items)
      /\ Len(list) <= offset => Len(page) = 0
      /\ offset <= Len(list) /\ Len(list) <= offset + PageSize => Len(page) = Len(list) - offset
      /\ offset + PageSize < Len(list) => Len(page) = PageSize
      /\ \A i \in 1 .. Len(page) : page[i] = list[offset + i]
  BY <1>1, <1>2, PageIs
<1>4. pc = "loop" /\ Len(allList) = offset
  BY DEF IInv, FetchPage, OnlyFullPagesGoOn
<1>5. allList' = allList \o page /\ list' = list /\ grown' = grown
  BY DEF FetchPage, Offset
<1> HIDE DEF page, offset
<1>6. /\ allList' \in Seq(Items) /\ Len(allList') = offset + Len(page)
      /\ \A i \in 1 .. offset + Len(page) :
            allList'[i] = IF i <= offset THEN allList[i] ELSE page[i - offset]
  <2> DEFINE longer == allList \o page
  <2>1. /\ longer \in Seq(Items) /\ Len(longer) = Len(allList) + Len(page)
        /\ \A i \in 1 .. Len(allList) + Len(page) :
              longer[i] = IF i <= Len(allList) THEN allList[i] ELSE page[i - Len(allList)]
    BY <1>1, <1>3, ConcatProperties
  <2> HIDE DEF longer
  <2>2. allList' = longer
    BY <1>5 DEF longer
  <2> QED
    BY <1>4, <2>1, <2>2
<1>7. Len(page) \in Nat /\ \A k \in 1 .. Len(page) : offset + k \in DOMAIN list
  BY <1>1, <1>2, <1>3, PagingAssumption
<1>8. Once'
  BY <1>5 DEF OnceInv, Once
<1>9. ASSUME ~grown PROVE ComeOnce' /\ BehindIsNew'
  <2> DEFINE Old(i) == i \in DOMAIN allList /\ i <= offset /\ allList'[i] = allList[i]
             New(i) == i - offset \in 1 .. Len(page) /\ i \in DOMAIN list /\ allList'[i] = list[i]
  <2>1. ComeOnce /\ BehindIsNew
    BY <1>4, <1>9 DEF OnceInv, Fresh
  <2>2. ASSUME NEW i \in DOMAIN allList' PROVE Old(i) \/ New(i)
    <3>1. i \in 1 .. offset + Len(page)
      BY <1>6
    <3>2. CASE i <= offset
      BY <1>1, <1>2, <1>4, <1>6, <3>1, <3>2
    <3>3. CASE ~(i <= offset)
      <4> DEFINE k == i - offset
      <4>1. k \in 1 .. Len(page) /\ offset + k = i
        BY <1>2, <1>7, <3>1, <3>3
      <4>2. allList'[i] = page[k]
        BY <1>6, <3>1, <3>3
      <4>3. page[k] = list[offset + k]
        BY <1>3, <4>1
      <4> QED
        BY <1>7, <4>1, <4>2, <4>3
    <3> QED
      BY <3>2, <3>3
  <2>3. \A i : Old(i) => i \in Int /\ i <= offset
    BY <1>1
  <2>4. \A i : New(i) => i \in Int /\ i > offset /\ i <= offset + Len(page)
    BY <1>1, <1>2, <1>7
  <2>5. \A i, j : Old(i) /\ New(j) => allList'[i] # allList'[j]
    BY <1>1, <1>4, <2>1, <2>4, <1>2 DEF BehindIsNew
  <2>6. ComeOnce'
    <3> SUFFICES ASSUME NEW i \in DOMAIN allList', NEW j \in DOMAIN allList', allList'[i] = allList'[j]
                 PROVE  i = j
      BY DEF ComeOnce
    <3>1. (Old(i) /\ Old(j)) \/ (New(i) /\ New(j))
      BY <2>2, <2>5
    <3>2. CASE Old(i) /\ Old(j)
      BY <2>1, <3>2 DEF ComeOnce
    <3>3. CASE New(i) /\ New(j)
      BY <3>3 DEF OnceInv, Once
    <3> QED
      BY <3>1, <3>2, <3>3
  <2>7. BehindIsNew'
    <3> SUFFICES ASSUME NEW i \in DOMAIN list, NEW j \in DOMAIN allList', list[i] = allList'[j]
                 PROVE  i <= offset + Len(page)
      BY <1>5, <1>6 DEF BehindIsNew
    <3>1. CASE Old(j)
      <4>1. i <= offset
        BY <1>4, <2>1, <3>1 DEF BehindIsNew
      <4> QED
        BY <1>1, <1>2, <1>7, <4>1
    <3>2. CASE New(j)
      <4>1. i = j
        BY <3>2 DEF OnceInv, Once
      <4> QED
        BY <2>4, <3>2, <4>1
    <3> QED
      BY <2>2, <3>1, <3>2
  <2> QED
    BY <2>6, <2>7
<1>10. Fresh'
  BY <1>5, <1>9 DEF Fresh, ComeOnce, NothingTwiceWhileShrinking
<1> QED
  BY <1>8, <1>10 DEF OnceInv

\* What SequencesExt!RemoveAt does: the items before the place stay, those behind it
\* move forward by one.
LEMMA RemoveAtProperties ==
    ASSUME NEW S, NEW s \in Seq(S), NEW at \in 1 .. Len(s)
    PROVE  /\ RemoveAt(s, at) \in Seq(S)
           /\ Len(RemoveAt(s, at)) = Len(s) - 1
           /\ \A i \in 1 .. Len(s) - 1 : RemoveAt(s, at)[i] = IF i < at THEN s[i] ELSE s[i + 1]
<1> DEFINE front == SubSeq(s, 1, at - 1)
           back  == SubSeq(s, at + 1, Len(s))
<1>0. Len(s) \in Nat /\ at \in Int
  BY LenProperties
<1>1. /\ front \in Seq(S) /\ Len(front) = at - 1
      /\ \A i \in 1 .. at - 1 : front[i] = s[i]
  OBVIOUS
<1>2. /\ back \in Seq(S) /\ Len(back) = Len(s) - at
      /\ \A i \in 1 .. Len(s) - at : back[i] = s[at + i]
  OBVIOUS
<1>3. RemoveAt(s, at) = front \o back
  BY DEF RemoveAt
<1> HIDE DEF front, back
<1>4. /\ front \o back \in Seq(S) /\ Len(front \o back) = Len(front) + Len(back)
      /\ \A i \in 1 .. Len(front) + Len(back) :
            (front \o back)[i] = IF i <= Len(front) THEN front[i] ELSE back[i - Len(front)]
  BY <1>1, <1>2, ConcatProperties
<1>5. Len(front) + Len(back) = Len(s) - 1
  BY <1>0, <1>1, <1>2
<1>6. ASSUME NEW i \in 1 .. Len(s) - 1
      PROVE  (front \o back)[i] = IF i < at THEN s[i] ELSE s[i + 1]
  <2>1. CASE i < at
    BY <1>0, <1>1, <1>4, <1>5, <2>1
  <2>2. CASE ~(i < at)
    <3> DEFINE k == i - (at - 1)
    <3>1. k \in 1 .. Len(s) - at /\ at + k = i + 1 /\ ~(i <= Len(front)) /\ i - Len(front) = k
      BY <1>0, <1>1, <2>2
    <3>2. (front \o back)[i] = back[k]
      BY <1>4, <1>5, <3>1
    <3>3. back[k] = s[at + k]
      BY <1>2, <3>1
    <3> QED
      BY <2>2, <3>1, <3>2, <3>3
  <2> QED
    BY <2>1, <2>2
<1> QED
  BY <1>3, <1>4, <1>5, <1>6

\* A removal brings items forward, and none behind what came.
LEMMA RemoveItemOnce ==
    ASSUME NEW at \in DOMAIN list, IInv, OnceInv, RemoveItem(at)
    PROVE  OnceInv'
<1>1. list \in Seq(Items) /\ at \in 1 .. Len(list) /\ Len(list) \in Nat
  BY DEF IInv, PagingTypes
<1>2. list' = RemoveAt(list, at) /\ UNCHANGED <<pc, allList, grown>>
  BY DEF RemoveItem
<1>3. /\ list' \in Seq(Items) /\ Len(list') = Len(list) - 1
      /\ \A i \in 1 .. Len(list) - 1 : list'[i] = IF i < at THEN list[i] ELSE list[i + 1]
  BY <1>1, <1>2, RemoveAtProperties
<1> DEFINE Before(i) == IF i < at THEN i ELSE i + 1
<1>4. ASSUME NEW i \in DOMAIN list'
      PROVE  i \in Int /\ Before(i) \in DOMAIN list /\ Before(i) >= i /\ list'[i] = list[Before(i)]
  <2>1. i \in 1 .. Len(list) - 1
    BY <1>1, <1>3
  <2> QED
    BY <1>1, <1>3, <2>1
<1>5. \A i, j \in DOMAIN list' : Before(i) = Before(j) => i = j
  BY <1>1, <1>4
<1>6. Once'
  <2> SUFFICES ASSUME NEW i \in DOMAIN list', NEW j \in DOMAIN list', list'[i] = list'[j] PROVE i = j
    BY DEF Once
  <2> HIDE DEF Before
  <2>1. Before(i) = Before(j)
    BY <1>4 DEF OnceInv, Once
  <2> QED
    BY <1>5, <2>1
<1>7. BehindIsNew => BehindIsNew'
  <2> SUFFICES ASSUME BehindIsNew, NEW i \in DOMAIN list', NEW j \in DOMAIN allList, list'[i] = allList[j]
               PROVE  i <= Len(allList)
    BY <1>2 DEF BehindIsNew
  <2>1. Before(i) <= Len(allList) /\ Before(i) \in Int
    BY <1>1, <1>4 DEF BehindIsNew
  <2>2. Len(allList) \in Nat
    BY DEF IInv, PagingTypes
  <2> QED
    BY <1>4, <2>1, <2>2
<1>8. Fresh'
  BY <1>2, <1>7 DEF OnceInv, Fresh, ComeOnce, NothingTwiceWhileShrinking
<1> QED
  BY <1>6, <1>8 DEF OnceInv

\* The inserted item is at the place asked for.
LEMMA InsertAtPlace ==
    ASSUME NEW S, NEW s \in Seq(S), NEW e \in S, NEW at \in 1 .. Len(s) + 1
    PROVE  InsertAt(s, at, e)[at] = e
<1> DEFINE front == SubSeq(s, 1, at - 1)
           head  == front \o <<e>>
           back  == SubSeq(s, at, Len(s))
<1>1. Len(s) \in Nat /\ at \in Nat /\ at > 0
  BY LenProperties
<1>2. front \in Seq(S) /\ Len(front) = at - 1 /\ back \in Seq(S) /\ Len(back) \in Nat
  BY LenProperties
<1>3. InsertAt(s, at, e) = head \o back
  BY DEF InsertAt
<1> HIDE DEF front, back
<1>4. head \in Seq(S) /\ Len(head) = at /\ head[at] = e
  BY <1>1, <1>2
<1> HIDE DEF head
<1>5. (head \o back)[at] = head[at]
  BY <1>1, <1>2, <1>4, ConcatProperties
<1> QED
  BY <1>3, <1>4, <1>5

\* An addition moves items back, and only ends the claim about those that came.
LEMMA AddItemOnce ==
    ASSUME NEW new \in Items, NEW at \in 1 .. Len(list) + 1, IInv, OnceInv, AddItem(new, at)
    PROVE  OnceInv'
<1>1. list \in Seq(Items) /\ Len(list) \in Nat /\ at \in 1 .. Len(list) + 1
  BY DEF IInv, PagingTypes
<1>2. /\ list' = InsertAt(list, at, new)
      /\ UNCHANGED <<pc, allList>>
      /\ grown' = (grown \/ pc = "loop")
      /\ \A i \in DOMAIN list : list[i] # new
  BY DEF AddItem, Listed
<1>3. /\ Len(list') = Len(list) + 1
      /\ list'[at] = new
      /\ \A i \in 1 .. Len(list) : i < at => list'[i] = list[i]
      /\ \A i \in 1 .. Len(list) : i >= at => list'[i + 1] = list[i]
      /\ list' \in Seq(Items)
  <2> DEFINE after == InsertAt(list, at, new)
  <2>1. after[at] = new
    BY <1>1, InsertAtPlace
  <2>2. /\ after \in Seq(Items) /\ Len(after) = Len(list) + 1
        /\ \A i \in 1 .. Len(list) : i < at => after[i] = list[i]
        /\ \A i \in 1 .. Len(list) : i >= at => after[i + 1] = list[i]
    BY <1>1, InsertAtProperties
  <2> HIDE DEF after
  <2> QED
    BY <1>2, <2>1, <2>2 DEF after
<1> DEFINE Before(i) == IF i < at THEN i ELSE i - 1
<1>4. ASSUME NEW i \in DOMAIN list', i # at
      PROVE  Before(i) \in DOMAIN list /\ list'[i] = list[Before(i)]
  <2>1. i \in 1 .. Len(list) + 1 /\ i # at
    BY <1>1, <1>3, <1>4
  <2>2. CASE i < at
    BY <1>1, <1>3, <2>1, <2>2
  <2>3. CASE ~(i < at)
    <3> DEFINE k == i - 1
    <3>1. k \in 1 .. Len(list) /\ k >= at /\ k + 1 = i
      BY <1>1, <2>1, <2>3
    <3>2. list'[k + 1] = list[k]
      BY <1>3, <3>1
    <3> QED
      BY <1>1, <2>3, <3>1, <3>2
  <2> QED
    BY <2>2, <2>3
<1>5. \A i, j \in DOMAIN list' : i # at /\ j # at /\ Before(i) = Before(j) => i = j
  BY <1>1, <1>3
<1>6. Once'
  <2> SUFFICES ASSUME NEW i \in DOMAIN list', NEW j \in DOMAIN list', list'[i] = list'[j] PROVE i = j
    BY DEF Once
  <2> HIDE DEF Before
  <2>1. CASE i = at \/ j = at
    BY <1>2, <1>3, <1>4, <2>1
  <2>2. CASE i # at /\ j # at
    <3>1. Before(i) = Before(j)
      BY <1>4, <2>2 DEF OnceInv, Once
    <3> QED
      BY <1>5, <2>2, <3>1
  <2> QED
    BY <2>1, <2>2
<1>7. Fresh'
  BY <1>2 DEF OnceInv, Fresh, NothingTwiceWhileShrinking
<1> QED
  BY <1>6, <1>7 DEF OnceInv

\* Nothing is listed and nothing has come at first.
LEMMA InitOnce == Init => OnceInv
<1> SUFFICES ASSUME Init PROVE OnceInv
  OBVIOUS
<1>1. list = <<>> /\ pc = "idle"
  BY DEF Init
<1> QED
  BY <1>1 DEF OnceInv, Once, Fresh, NothingTwiceWhileShrinking

\* Every step keeps it.
LEMMA NextOnce == IInv /\ OnceInv /\ [Next]_vars => OnceInv'
<1> SUFFICES ASSUME IInv, OnceInv, [Next]_vars PROVE OnceInv'
  OBVIOUS
<1>1. CASE Call
  <2>1. list' = list /\ pc' = "loop" /\ allList' = <<>>
    BY <1>1 DEF Call
  <2> QED
    BY <2>1 DEF OnceInv, Once, Fresh, ComeOnce, BehindIsNew, NothingTwiceWhileShrinking
<1>2. CASE FetchFails
  BY <1>2 DEF FetchFails, OnceInv, Once, Fresh, NothingTwiceWhileShrinking
<1>3. CASE Return
  BY <1>3 DEF Return, OnceInv, Once, Fresh, NothingTwiceWhileShrinking
<1>4. CASE UNCHANGED vars
  BY <1>4 DEF vars, OnceInv, Once, Fresh, ComeOnce, BehindIsNew, NothingTwiceWhileShrinking
<1> QED
  BY <1>1, <1>2, <1>3, <1>4, FetchPageOnce, AddItemOnce, RemoveItemOnce DEF Next

\* While items are only removed, no item comes twice.
THEOREM PagingOnce == Spec => []NothingTwiceWhileShrinking
<1>1. OnceInv => NothingTwiceWhileShrinking
  BY DEF OnceInv, Fresh
<1> QED
  BY <1>1, InitOnce, NextOnce, PagingInv, PTL DEF Spec

\* What getAllList promises of a list that others change in one direction, for every
\* set of items and every page size.
THEOREM PagingFits == Spec => []PagesFit
<1>1. NothingMissedWhileGrowing /\ NothingTwiceWhileShrinking => PagesFit
  BY DEF PagesFit
<1> QED
  BY <1>1, PagingMissesNothing, PagingOnce, PTL

-----------------------------------------------------------------------------
(* The number of pages *)

\* A list without repetitions is no longer than there are items.
LEMMA ListBound ==
    ASSUME IsFiniteSet(Items), list \in Seq(Items), Once
    PROVE  Len(list) <= Cardinality(Items)
<1>1. Len(list) \in Nat /\ DOMAIN list = 1 .. Len(list) /\ list \in [1 .. Len(list) -> Items]
  OBVIOUS
<1>2. list \in Injection(1 .. Len(list), Items)
  BY <1>1 DEF Injection, Once, IsInjective
<1>3. Cardinality(1 .. Len(list)) <= Cardinality(Items)
  BY <1>2, FS_Injection
<1>4. Cardinality(1 .. Len(list)) = Len(list)
  BY <1>1, FS_Interval
<1> QED
  BY <1>3, <1>4

\* There are no more full pages than items on them.
LEMMA PagesBound ==
    ASSUME NEW m \in Nat
    PROVE  m * PageSize \in Nat /\ m <= m * PageSize
<1>1. PICK p \in Nat : PageSize = p + 1
  <2>1. PageSize - 1 \in Nat /\ PageSize = (PageSize - 1) + 1
    BY PagingAssumption
  <2> QED
    BY <2>1
<1>2. m * p \in Nat
  OBVIOUS
<1>3. m * (p + 1) = m * p + m
  OBVIOUS
<1> QED
  BY <1>1, <1>2, <1>3

\* The page that is asked for next is no later than the last one of the longest list
\* there can be: every page before it was full, and no item is listed twice.
LEMMA PageBound ==
    ASSUME IsFiniteSet(Items), IInv, OnceInv, IInv', pageNo <= Cardinality(Items), [Next]_vars
    PROVE  pageNo' <= Cardinality(Items)
<1>1. Cardinality(Items) \in Nat
  BY FS_CardinalityType
<1>2. CASE FetchPage
  <2>1. CASE pageNo' = pageNo
    BY <2>1
  <2>2. CASE pageNo' # pageNo
    <3>1. pageNo' = pageNo + 1 /\ pc' = "loop" /\ lastTotal' = Len(list)
      BY <1>2, <2>2 DEF FetchPage
    <3>2. pageNo \in Nat /\ pageNo' \in Nat /\ list \in Seq(Items)
      BY DEF IInv, PagingTypes
    <3>3. Len(allList') = pageNo' * PageSize /\ Len(allList') < Len(list)
      BY <3>1, <3>2 DEF IInv, OnlyFullPagesGoOn
    <3>4. pageNo' <= pageNo' * PageSize
      BY <3>2, PagesBound
    <3>5. Len(list) <= Cardinality(Items) /\ Len(list) \in Nat
      BY <3>2, ListBound DEF OnceInv
    <3>6. pageNo' * PageSize \in Nat
      BY <3>2, PagesBound
    <3> QED
      BY <1>1, <3>2, <3>3, <3>4, <3>5, <3>6
  <2> QED
    BY <2>1, <2>2
<1>3. ASSUME NEW item \in Items, NEW i \in 1 .. Len(list) + 1, AddItem(item, i)
      PROVE  pageNo' = pageNo
  BY <1>3 DEF AddItem
<1>4. ASSUME NEW i \in DOMAIN list, RemoveItem(i) PROVE pageNo' = pageNo
  BY <1>4 DEF RemoveItem
<1>5. CASE Call \/ Return
  BY <1>1, <1>5 DEF Call, Return
<1>6. CASE FetchFails \/ UNCHANGED vars
  BY <1>6 DEF FetchFails, vars
<1> QED
  BY <1>2, <1>3, <1>4, <1>5, <1>6 DEF Next

\* Type correctness.  The loop asks for no more pages than there may be items, though
\* the list grows and shrinks while it runs.
THEOREM PagingTypesHold == ASSUME IsFiniteSet(Items) PROVE Spec => []TypeOK
<1>1. Init => pageNo <= Cardinality(Items)
  BY FS_CardinalityType DEF Init
<1>2. IInv /\ OnceInv /\ IInv' /\ pageNo <= Cardinality(Items) /\ [Next]_vars
        => (pageNo <= Cardinality(Items))'
  BY PageBound
<1>3. IInv /\ pageNo <= Cardinality(Items) => TypeOK
  BY FS_CardinalityType DEF IInv, PagingTypes, TypeOK
<1> QED
  BY <1>1, <1>2, <1>3, InitOnce, NextOnce, PagingInv, PTL DEF Spec
=============================================================================
