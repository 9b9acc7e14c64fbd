---------------------- MODULE DeploymentListingProofs ----------------------
(***************************************************************************)
(* Proofs about DeploymentListing: for lists of any length, visibility     *)
(* pages of any size and a limit that changes from call to call, the pages *)
(* a client receives are exactly the list, and a summary shows each of the *)
(* deployments at its head in its place, however the actors answer.        *)
(***************************************************************************)
EXTENDS DeploymentListing, FiniteSetTheorems, SequenceTheorems, WellFoundedInduction, TLAPS

-----------------------------------------------------------------------------
(* Entries of the list: extremes, ranks, and the first few of a set.       *)

\* A nonempty set of entries has a first one.
LEMMA Least ==
    ASSUME NEW S \in SUBSET Nat, S # {}
    PROVE  \E m \in S : \A i \in S : m <= i
<1> DEFINE Initials == {0 .. m : m \in S}
<1>1. Initials \subseteq FiniteSubsetsOf(Nat)
  <2>1. \A m \in S : IsFiniteSet(0 .. m) /\ 0 .. m \in SUBSET Nat
      BY FS_Interval
  <2> QED BY <2>1 DEF FiniteSubsetsOf
<1>2. Initials # {}
    OBVIOUS
<1>3. PICK x \in Initials : \A y \in Initials : <<y, x>> \notin StrictSubsetOrdering(Nat)
  <2> HIDE DEF Initials
  <2> QED BY <1>1, <1>2, WFMin, FS_StrictSubsetOrderingWellFounded, Zenon
<1>4. PICK m \in S : x = 0 .. m
    OBVIOUS
<1>5. ASSUME NEW i \in S, i < m PROVE FALSE
  <2>1. 0 .. i \in SUBSET Nat /\ 0 .. m \in SUBSET Nat
      OBVIOUS
  <2>2. 0 .. i \subseteq 0 .. m /\ m \in 0 .. m /\ m \notin 0 .. i
      BY <1>5
  <2>3. <<0 .. i, 0 .. m>> \in StrictSubsetOrdering(Nat)
      BY <2>1, <2>2 DEF StrictSubsetOrdering
  <2> QED BY <1>3, <1>4, <2>3
<1> QED BY <1>5

\* A nonempty set of entries of a list has a last one.
LEMMA Greatest ==
    ASSUME NEW n \in Nat, NEW S \in SUBSET (1 .. n), S # {}
    PROVE  \E m \in S : \A i \in S : i <= m
<1> DEFINE Bounds == {k \in Nat : \A i \in S : i <= k}
<1>1. n \in Bounds /\ Bounds \in SUBSET Nat
    OBVIOUS
<1>2. PICK m \in Bounds : \A k \in Bounds : m <= k
  <2> HIDE DEF Bounds
  <2> QED BY <1>1, Least
<1>3. ASSUME m \notin S PROVE FALSE
  <2>1. m \in Nat /\ \A i \in S : i <= m - 1
      BY <1>3
  <2>2. PICK i \in S : i \in 1 .. n
      OBVIOUS
  <2>3. m - 1 \in Nat
      BY <2>1, <2>2
  <2>4. m - 1 \in Bounds
      BY <2>1, <2>3
  <2> QED BY <1>2, <2>1, <2>4
<1> QED BY <1>2, <1>3

\* The entries of a list, or some of them, are finitely many.
LEMMA EntriesFinite ==
    ASSUME NEW n \in Nat, NEW S \in SUBSET (1 .. n)
    PROVE  IsFiniteSet(S) /\ Cardinality(S) \in Nat
<1>1. IsFiniteSet(1 .. n)
    BY FS_Interval, 1 \in Int, n \in Int
<1>2. IsFiniteSet(S)
    BY <1>1, FS_Subset
<1> QED BY <1>2, FS_CardinalityType

\* How many entries of S lie before i.
before(S, i) == {j \in S : j < i}
rank(S, i) == Cardinality(before(S, i))

\* The rank grows along the list, from 0 to one less than there are entries.
LEMMA RankGrows ==
    ASSUME NEW n \in Nat, NEW S \in SUBSET (1 .. n), NEW i \in S
    PROVE  /\ i \in Nat /\ rank(S, i) \in Nat
           /\ rank(S, i) \in 0 .. Cardinality(S) - 1
           /\ \A j \in S : i < j => rank(S, i) < rank(S, j)
<1>1. IsFiniteSet(S) /\ Cardinality(S) \in Nat
    BY EntriesFinite
<1>2. ASSUME NEW T \in SUBSET S, i \in T, before(S, i) \subseteq T
      PROVE  rank(S, i) < Cardinality(T)
  <2>1. IsFiniteSet(T) /\ Cardinality(T) \in Nat
      BY <1>1, FS_Subset, FS_CardinalityType
  <2>2. IsFiniteSet(before(S, i)) /\ rank(S, i) \in Nat
      BY <1>1, FS_Subset, FS_CardinalityType DEF before, rank
  <2>3. i \notin before(S, i)
      BY DEF before
  <2>4. before(S, i) \in SUBSET T /\ before(S, i) # T
      BY <1>2, <2>3
  <2>5. rank(S, i) <= Cardinality(T) /\ rank(S, i) # Cardinality(T)
      BY <2>1, <2>4, FS_Subset DEF rank
  <2> QED BY <2>1, <2>2, <2>5
<1>3. rank(S, i) \in Nat /\ rank(S, i) \in 0 .. Cardinality(S) - 1
  <2>1. rank(S, i) < Cardinality(S)
      BY <1>2 DEF before
  <2>2. rank(S, i) \in Nat
      BY <1>1, FS_Subset, FS_CardinalityType DEF before, rank
  <2> QED BY <1>1, <2>1, <2>2
<1>4. ASSUME NEW j \in S, i < j PROVE rank(S, i) < rank(S, j)
  <2>1. ASSUME NEW k \in S, k < i PROVE k < j
      BY <1>4, <2>1
  <2>2. before(S, j) \in SUBSET S /\ i \in before(S, j) /\ before(S, i) \subseteq before(S, j)
      BY <1>4, <2>1 DEF before
  <2> QED BY <1>2, <2>2 DEF rank
<1> QED BY <1>3, <1>4

\* Every rank below the number of entries is that of exactly one of them.
LEMMA RankIsOnto ==
    ASSUME NEW n \in Nat, NEW S \in SUBSET (1 .. n), NEW r \in 0 .. Cardinality(S) - 1
    PROVE  \E i \in S : rank(S, i) = r
<1> DEFINE ranks == [i \in S |-> rank(S, i)]
           c == Cardinality(S)
<1>1. IsFiniteSet(S) /\ c \in Nat
    BY EntriesFinite
<1>2. IsFiniteSet(0 .. c - 1) /\ Cardinality(0 .. c - 1) = c
  <2> HIDE DEF c
  <2>1. /\ IsFiniteSet(0 .. c - 1)
        /\ Cardinality(0 .. c - 1) = IF 0 > c - 1 THEN 0 ELSE c - 1 - 0 + 1
      BY <1>1, FS_Interval, 0 \in Int, c - 1 \in Int
  <2> QED BY <1>1, <2>1
<1>3. ranks \in [S -> 0 .. c - 1]
    BY RankGrows
<1>4. ASSUME NEW i \in S, NEW j \in S, ranks[i] = ranks[j] PROVE i = j
  <2>1. rank(S, i) = rank(S, j)
      BY <1>4
  <2>2. rank(S, i) \in Nat /\ i \in Nat /\ j \in Nat
      BY <1>3, <1>4
  <2>3. i < j => rank(S, i) < rank(S, j)
      BY RankGrows
  <2>4. j < i => rank(S, j) < rank(S, i)
      BY RankGrows
  <2> QED BY <2>1, <2>2, <2>3, <2>4
<1>5. ranks \in Injection(S, 0 .. c - 1)
  <2> HIDE DEF ranks, c
  <2> QED BY <1>3, <1>4 DEF Injection, IsInjective
<1>6. ranks \in Surjection(S, 0 .. c - 1)
  <2> HIDE DEF ranks
  <2> QED BY <1>2, <1>5, FS_Injection
<1>7. \E i \in S : ranks[i] = r
  <2> HIDE DEF ranks
  <2> QED BY <1>6 DEF Surjection
<1> QED BY <1>7

\* What a call takes of the matching entries (service.go:190-226): no more than its
\* limit, nothing behind what it leaves, and everything unless the limit is reached.
LEMMA FirstOf ==
    ASSUME NEW n \in Nat, NEW S \in SUBSET (1 .. n), NEW limit \in Nat \ {0}
    PROVE  /\ firstOf(S, limit) \in SUBSET S
           /\ \A i \in firstOf(S, limit), j \in S \ firstOf(S, limit) : i < j
           /\ Cardinality(firstOf(S, limit)) # limit => firstOf(S, limit) = S
<1> DEFINE taken == firstOf(S, limit)
<1>1. taken = {i \in S : rank(S, i) < limit}
    BY DEF firstOf, rank, before
<1> HIDE DEF taken
<1>2. ASSUME NEW i \in S PROVE rank(S, i) \in Nat /\ i \in Nat
    BY RankGrows
<1>3. ASSUME NEW i \in taken, NEW j \in S \ taken PROVE i < j
  <2>1. rank(S, i) < limit /\ rank(S, j) >= limit /\ i \in S /\ j \in S
      BY <1>1, <1>2
  <2>2. j < i => rank(S, j) < rank(S, i)
      BY <2>1, RankGrows
  <2> QED BY <1>2, <2>1, <2>2
<1>4. ASSUME taken # S PROVE Cardinality(taken) = limit
  <2>1. PICK m \in S \ taken : \A j \in S \ taken : m <= j
    <3>1. S \ taken \in SUBSET Nat /\ S \ taken # {}
        BY <1>1, <1>2, <1>4
    <3> QED BY <3>1, Least
  <2>2. taken = before(S, m)
    <3>1. \A i \in taken : i \in S /\ i < m
        BY <1>1, <1>3
    <3>2. \A i \in S : i < m => i \in taken
        BY <1>2, <2>1
    <3> QED BY <3>1, <3>2, <1>1 DEF before
  <2>3. Cardinality(taken) \in Nat /\ Cardinality(taken) >= limit
    <3>1. rank(S, m) >= limit
        BY <1>1, <1>2
    <3> QED BY <1>2, <2>2, <3>1 DEF rank
  <2>4. Cardinality(taken) <= limit
    <3>1. taken \in SUBSET (1 .. n)
        BY <1>1
    <3>2. CASE taken = {}
      <4> QED BY <3>2, FS_EmptySet
    <3>3. CASE taken # {}
      <4>1. PICK k \in taken : \A i \in taken : i <= k
          BY <3>1, <3>3, Greatest
      <4>2. k \in S /\ rank(S, k) \in Nat /\ rank(S, k) < limit
          BY <1>1, <1>2
      <4>3. \A i \in taken : i \in S /\ (i < k \/ i = k)
          BY <1>1, <1>2, <4>1
      <4>4. taken \in SUBSET (before(S, k) \cup {k})
          BY <4>3 DEF before
      <4>5. before(S, k) \in SUBSET (1 .. n) /\ k \notin before(S, k)
        <5>1. before(S, k) \in SUBSET S /\ ~(k < k)
            BY <1>2, <4>2 DEF before
        <5> QED BY <5>1 DEF before
      <4>6. IsFiniteSet(before(S, k))
          BY <4>5, EntriesFinite
      <4>7. /\ IsFiniteSet(before(S, k) \cup {k})
            /\ Cardinality(before(S, k) \cup {k}) = rank(S, k) + 1
          BY <4>5, <4>6, FS_AddElement DEF rank
      <4>8. Cardinality(taken) <= rank(S, k) + 1
          BY <4>4, <4>7, FS_Subset
      <4> QED BY <2>3, <4>2, <4>8
    <3> QED BY <3>2, <3>3
  <2> QED BY <2>3, <2>4
<1> QED BY <1>1, <1>3, <1>4 DEF taken

-----------------------------------------------------------------------------
(* Paging.                                                                 *)

\* Where a client has got to in the list.
position == token.start + token.offset

\* What a client holds while it pages: a cursor into the list, and exactly the matching
\* entries before it.
PagingInv ==
    /\ executions \in Seq(BOOLEAN)
    /\ token \in [start : Nat, offset : Nat]
    /\ place \in {"paging", "describing", "done", "invalid"}
    /\ place = "paging" => position <= Len(executions)
    /\ place \in {"paging", "invalid"} => cards = <<>>
    /\ place = "describing" => cards # <<>>
    /\ PagesAreExact

\* A visibility page holds an entry at least (service.go:163-171).
LEMMA PageSize ==
    ASSUME NEW limit \in Limits
    PROVE  limit \in Nat \ {0} /\ pageSize(limit) \in Nat \ {0}
BY ListingAssumption DEF pageSize

\* The matching entries up to b are those up to a and those behind a.
LEMMA MatchingSplit ==
    ASSUME NEW a \in Nat, NEW b \in Nat, a <= b, b <= Len(executions),
           executions \in Seq(BOOLEAN)
    PROVE  /\ matching(1, b) = matching(1, a) \cup matching(a + 1, b)
           /\ matching(1, a) \in SUBSET (1 .. a)
           /\ matching(a + 1, b) \in SUBSET (a + 1 .. b)
<1>1. Len(executions) \in Nat
    BY LenProperties
<1>2. 1 .. b = (1 .. a) \cup (a + 1 .. b)
    OBVIOUS
<1> QED BY <1>2 DEF matching

\* The page on which a call meets entry `last', among those it reads from `start' on.
LEMMA PageHolds ==
    ASSUME NEW start \in Nat, NEW last \in Nat, start < last, NEW size \in Nat \ {0}
    PROVE  /\ pageOf(last, start, size) \in Nat
           /\ pageOf(last, start, size) < last
           /\ last <= pageOf(last, start, size) + size
<1> DEFINE x == last - start - 1
<1>1. x \in Nat
    OBVIOUS
<1>2. /\ (x \div size) \in Nat
      /\ size * (x \div size) <= x
      /\ x < size * (x \div size) + size
  <2> HIDE DEF x
  <2> QED BY <1>1
<1>3. /\ (x \div size) * size \in Nat
      /\ (x \div size) * size <= x
      /\ x < (x \div size) * size + size
  <2> HIDE DEF x
  <2> QED BY <1>1, <1>2
<1>4. pageOf(last, start, size) = start + (x \div size) * size
    BY DEF pageOf
<1> DEFINE pages == (x \div size) * size
<1>5. /\ pages \in Nat /\ pages <= x /\ x < pages + size
      /\ pageOf(last, start, size) = start + pages
    BY <1>3, <1>4
<1> HIDE DEF pages
<1> QED BY <1>5

\* The cursor to the entry behind `last' is a place in the list right behind it, unless
\* the list ends there (service.go:226-243).
LEMMA CursorIsBehindLast ==
    ASSUME executions \in Seq(BOOLEAN), NEW start \in Nat, NEW size \in Nat \ {0},
           NEW last \in Nat, start < last, last <= Len(executions),
           NEW cursor, cursor = cursorBehind(last, pageOf(last, start, size), size)
    PROVE  /\ cursor \in [start : Nat, offset : Nat]
           /\ cursor = NoCursor => last = Len(executions)
           /\ cursor # NoCursor => cursor.start + cursor.offset = last
<1> DEFINE page == pageOf(last, start, size)
<1>1. Len(executions) \in Nat
    BY LenProperties
<1>2. page \in Nat /\ page < last /\ last <= page + size
    BY PageHolds
<1> HIDE DEF page
<1>3. pageEnd(page, size) \in Nat /\ last <= pageEnd(page, size)
    BY <1>1, <1>2 DEF pageEnd
<1>4. CASE last < pageEnd(page, size)
  <2>1. cursor = [start |-> page, offset |-> last - page]
      BY <1>4 DEF cursorBehind, Cursor, page
  <2>2. last - page \in Nat /\ page + (last - page) = last /\ last - page # 0
      BY <1>2
  <2> QED BY <1>2, <2>1, <2>2 DEF NoCursor, Cursor
<1>5. CASE last = pageEnd(page, size)
  <2>1. cursor = [start |-> IF last = Len(executions) THEN 0 ELSE last, offset |-> 0]
      BY <1>5 DEF cursorBehind, Cursor, nextPage, page
  <2> QED BY <1>1, <1>2, <2>1 DEF NoCursor, Cursor
<1> QED BY <1>2, <1>3, <1>4, <1>5

\* A new client is at the start of the list and has received nothing.
LEMMA PagingInit == Init => PagingInv
<1> SUFFICES ASSUME Init PROVE PagingInv
    OBVIOUS
<1>1. executions \in Seq(BOOLEAN)
  <2>1. PICK n \in 0 .. MaxListed : executions \in [1 .. n -> BOOLEAN]
      BY DEF Init
  <2>2. n \in Nat
      BY ListingAssumption
  <2> QED BY <2>1, <2>2, IsASeq
<1>2. token = [start |-> 0, offset |-> 0] /\ position = 0
    BY DEF Init, NoCursor, Cursor, position
<1>3. 0 <= Len(executions)
    BY <1>1, LenProperties
<1>4. matching(1, 0) = {}
    BY DEF matching
<1>5. PagesAreExact
    BY <1>2, <1>4 DEF Init, PagesAreExact, position
<1> QED BY <1>1, <1>2, <1>3, <1>5 DEF Init, PagingInv

\* A call of ListDeployments gives the client the next matching entries, and a cursor to
\* the place behind them unless they were the last.
LEMMA ListKeepsPaging ==
    ASSUME PagingInv, NEW limit \in Limits, ListDeployments(limit)
    PROVE  PagingInv'
<1> DEFINE size == pageSize(limit)
           rest == matching(position + 1, Len(executions))
           taken == firstOf(rest, limit)
           last == CHOOSE i \in taken : \A j \in taken : j <= i
           N == Len(executions)
<1>1. /\ place = "paging" /\ cards = <<>> /\ N \in Nat
      /\ token.start \in Nat /\ token.offset \in Nat
      /\ position \in Nat /\ position <= N /\ executions \in Seq(BOOLEAN)
    BY LenProperties DEF PagingInv, ListDeployments, position
<1>2. limit \in Nat \ {0} /\ size \in Nat \ {0}
    BY PageSize
<1>3. UNCHANGED <<executions, cards>>
    BY DEF ListDeployments, summary
<1>4. inOrder /\ listed = matching(1, position)
    BY <1>1 DEF PagingInv, PagesAreExact, position
<1>5. CASE place' = "invalid" /\ UNCHANGED token
    BY <1>1, <1>3, <1>5 DEF PagingInv, PagesAreExact
<1>6. CASE /\ listed' = listed \cup taken
           /\ inOrder' = (inOrder /\ \A i \in listed, j \in taken : i < j)
           /\ token' = IF Cardinality(taken) = limit
                       THEN cursorBehind(last, pageOf(last, token.start, size), size)
                       ELSE NoCursor
           /\ place' = IF token' = NoCursor THEN "done" ELSE "paging"
  <2>1. /\ matching(1, N) = listed \cup rest
        /\ listed \in SUBSET (1 .. position)
        /\ rest \in SUBSET (position + 1 .. N)
      BY <1>1, <1>4, MatchingSplit
  <2>2. rest \in SUBSET (1 .. N)
      BY <1>1, <2>1
  <2>3. /\ taken \in SUBSET rest
        /\ \A i \in taken, j \in rest \ taken : i < j
        /\ Cardinality(taken) # limit => taken = rest
    <3> HIDE DEF rest
    <3> QED BY <1>1, <1>2, <2>2, FirstOf
  <2> HIDE DEF rest, taken
  <2>4. inOrder'
    <3>1. ASSUME NEW i \in listed, NEW j \in taken PROVE i < j
      <4>1. i \in 1 .. position /\ j \in position + 1 .. N
          BY <2>1, <2>3
      <4> QED BY <1>1, <4>1
    <3> QED BY <1>4, <1>6, <3>1
  <2>5. CASE Cardinality(taken) # limit
    <3>1. token' = NoCursor /\ place' = "done" /\ listed' = matching(1, N)
        BY <1>6, <2>1, <2>3, <2>5
    <3>2. PagesAreExact'
        BY <1>3, <2>4, <3>1 DEF PagesAreExact, matching
    <3> QED BY <1>1, <1>3, <3>1, <3>2 DEF PagingInv, NoCursor, Cursor
  <2>6. CASE Cardinality(taken) = limit
    <3>1. taken # {}
        BY <1>2, <2>6, FS_EmptySet
    <3>2. \E i \in taken : \A j \in taken : j <= i
        BY <1>1, <2>2, <2>3, <3>1, Greatest
    <3>3. last \in taken /\ \A j \in taken : j <= last
        BY <3>2
    <3> HIDE DEF last
    <3>4. last \in Nat /\ position < last /\ last <= N /\ token.start < last
        BY <1>1, <2>1, <2>3, <3>3 DEF position
    <3>5. taken = matching(position + 1, last)
      <4>1. \A i \in rest : i \in Nat
          BY <1>1, <2>1
      <4>2. \A i \in rest : i <= last => i \in taken
          BY <2>3, <3>3, <3>4, <4>1
      <4>3. taken = {i \in rest : i <= last}
          BY <2>3, <3>3, <4>2
      <4>4. matching(position + 1, last) = {i \in rest : i <= last}
        <5>1. matching(position + 1, last) = {i \in 1 .. N : i \in position + 1 .. last /\ executions[i]}
            BY <1>1, <3>4 DEF matching
        <5>2. rest = {i \in 1 .. N : i \in position + 1 .. N /\ executions[i]}
            BY <1>1 DEF matching, rest
        <5> QED BY <1>1, <3>4, <5>1, <5>2
      <4> QED BY <4>3, <4>4
    <3>6. listed' = matching(1, last)
        BY <1>1, <1>4, <1>6, <3>4, <3>5, MatchingSplit, position <= last
    <3>7. /\ token' \in [start : Nat, offset : Nat]
          /\ token' = NoCursor => last = N
          /\ token' # NoCursor => token'.start + token'.offset = last
      <4>1. token' = cursorBehind(last, pageOf(last, token.start, size), size)
          BY <1>6, <2>6
      <4> HIDE DEF size
      <4> QED BY <1>1, <1>2, <3>4, <4>1, CursorIsBehindLast
    <3>8. PagesAreExact'
        BY <1>3, <1>6, <2>4, <3>6, <3>7 DEF PagesAreExact, matching
    <3>9. place' = "paging" => position' <= Len(executions)'
        BY <1>3, <1>6, <3>4, <3>7 DEF position
    <3> QED BY <1>1, <1>3, <1>6, <3>7, <3>8, <3>9 DEF PagingInv
  <2> QED BY <2>5, <2>6
<1> QED BY <1>1, <1>5, <1>6 DEF ListDeployments, position

\* The card index of a summary is a nonempty function, unlike the empty one.
LEMMA CardsAreNotEmpty ==
    ASSUME NEW f, NEW k \in DOMAIN f
    PROVE  f # <<>>
OBVIOUS

\* A summary does not touch the cursor.  If there is nothing to summarise, the list has
\* no matching entry at all.
LEMMA DescribeKeepsPaging ==
    ASSUME PagingInv, DescribeAll
    PROVE  PagingInv'
<1> DEFINE N == Len(executions)
           head == firstOf(matching(1, N), SummaryLimit)
<1>1. /\ place = "paging" /\ N \in Nat /\ executions \in Seq(BOOLEAN)
      /\ UNCHANGED <<executions, token, inOrder>> /\ listed' = head
    BY LenProperties DEF PagingInv, DescribeAll
<1>2. /\ head \in SUBSET matching(1, N)
      /\ Cardinality(head) # SummaryLimit => head = matching(1, N)
      /\ matching(1, N) \in SUBSET (1 .. N)
  <2> DEFINE all == matching(1, N)
  <2>1. all \in SUBSET (1 .. N)
      BY DEF matching
  <2> HIDE DEF all
  <2>2. /\ firstOf(all, SummaryLimit) \in SUBSET all
        /\ Cardinality(firstOf(all, SummaryLimit)) # SummaryLimit => firstOf(all, SummaryLimit) = all
      BY <1>1, <2>1, FirstOf, ListingAssumption
  <2> QED BY <2>1, <2>2 DEF all
<1>3. IsFiniteSet(head) /\ Cardinality(head) \in Nat
    BY <1>1, <1>2, EntriesFinite
<1> HIDE DEF head
<1>4. CASE awaited' = {}
  <2>1. Cardinality(head) = 0
      BY <1>1, <1>3, <1>4 DEF DescribeAll
  <2>2. head = matching(1, N)
      BY <1>2, <2>1, ListingAssumption
  <2>3. place' = "done" /\ inOrder
      BY <1>1, <1>4 DEF DescribeAll, PagingInv, PagesAreExact
  <2>4. PagesAreExact'
      BY <1>1, <2>2, <2>3 DEF PagesAreExact, matching
  <2> QED BY <1>1, <2>3, <2>4 DEF PagingInv
<1>5. CASE awaited' # {}
  <2>1. place' = "describing" /\ cards' = [k \in awaited' |-> Blank]
      BY <1>5 DEF DescribeAll
  <2>2. cards' # <<>>
    <3>1. PICK k \in awaited' : k \in DOMAIN cards'
        BY <1>5, <2>1
    <3> QED BY <3>1, CardsAreNotEmpty
  <2> QED BY <1>1, <2>1, <2>2 DEF PagingInv, PagesAreExact
<1> QED BY <1>4, <1>5

\* The answers fill cards, and a summary has some.
LEMMA AnswerKeepsPaging ==
    ASSUME PagingInv, NEW k \in awaited, DescribeReturns(k),
           awaited \subseteq DOMAIN cards
    PROVE  PagingInv'
<1>1. DOMAIN cards' = DOMAIN cards /\ UNCHANGED <<executions, token, listed, inOrder>>
    BY DEF DescribeReturns
<1>2. cards' # <<>> /\ cards # <<>>
  <2>1. k \in DOMAIN cards /\ k \in DOMAIN cards'
      BY <1>1
  <2> QED BY <2>1, CardsAreNotEmpty
<1>3. place' \in {"describing", "done"}
    BY <1>2 DEF DescribeReturns, PagingInv
<1> QED BY <1>1, <1>2, <1>3 DEF PagingInv, PagesAreExact

-----------------------------------------------------------------------------
(* Summaries.                                                              *)

\* While a summary is made: one card for each of the deployments listed, those of the
\* actors that have answered filled in, and the failures known are theirs.
CardsInv ==
    /\ listed = firstOf(matching(1, Len(executions)), SummaryLimit)
    /\ cards \in [1 .. Cardinality(listed) -> [about : Nat, view : Nat]]
    /\ awaited \subseteq DOMAIN cards
    /\ \A k \in DOMAIN cards \ awaited :
          /\ cards[k].about = nth(k)
          /\ cards[k].view = IF nth(k) \in failed THEN 0 ELSE nth(k)
    /\ failed \subseteq {nth(k) : k \in DOMAIN cards \ awaited}

\* The whole of it: no actor is asked but for a summary, and none fails before.
SummaryInv ==
    /\ place = "paging" => failed = {}
    /\ place # "describing" => awaited = {}
    /\ cards # <<>> => CardsInv

\* Each of the deployments listed is the one of its place, and of no other.
LEMMA NthIsRanked ==
    ASSUME NEW n \in Nat, listed \in SUBSET (1 .. n)
    PROVE  /\ \A k \in 1 .. Cardinality(listed) :
                nth(k) \in listed /\ rank(listed, nth(k)) = k - 1
           /\ \A i \in listed :
                rank(listed, i) + 1 \in 1 .. Cardinality(listed) /\ nth(rank(listed, i) + 1) = i
           /\ \A k, m \in 1 .. Cardinality(listed) : k < m => nth(k) < nth(m)
<1>1. Cardinality(listed) \in Nat
    BY EntriesFinite
<1>2. \A i \in listed : /\ i \in Nat /\ rank(listed, i) \in Nat
                       /\ rank(listed, i) \in 0 .. Cardinality(listed) - 1
                       /\ \A j \in listed : i < j => rank(listed, i) < rank(listed, j)
    BY RankGrows
<1> DEFINE ranked(i, j) == /\ rank(listed, i) = rank(listed, j) => i = j
                           /\ rank(listed, i) < rank(listed, j) => i < j
<1>3. ASSUME NEW i \in listed, NEW j \in listed PROVE ranked(i, j)
  <2>1. i \in Nat /\ j \in Nat /\ rank(listed, i) \in Nat /\ rank(listed, j) \in Nat
      BY <1>2
  <2>2. i < j => rank(listed, i) < rank(listed, j)
      BY <1>2
  <2>3. j < i => rank(listed, j) < rank(listed, i)
      BY <1>2
  <2> QED BY <2>1, <2>2, <2>3
<1>4. ASSUME NEW k \in 1 .. Cardinality(listed)
      PROVE  nth(k) \in listed /\ rank(listed, nth(k)) = k - 1
  <2>1. \E i \in listed : rank(listed, i) = k - 1
      BY <1>1, RankIsOnto, k - 1 \in 0 .. Cardinality(listed) - 1
  <2>2. nth(k) = CHOOSE i \in listed : rank(listed, i) = k - 1
      BY DEF nth, rank, before
  <2> QED BY <2>1, <2>2
<1>5. ASSUME NEW i \in listed
      PROVE  rank(listed, i) + 1 \in 1 .. Cardinality(listed) /\ nth(rank(listed, i) + 1) = i
  <2> DEFINE k == rank(listed, i) + 1
  <2>1. k \in 1 .. Cardinality(listed) /\ k - 1 = rank(listed, i)
      BY <1>1, <1>2
  <2>2. nth(k) \in listed /\ rank(listed, nth(k)) = rank(listed, i)
      BY <1>4, <2>1
  <2>3. nth(k) = i
      BY <1>3, <2>2
  <2> QED BY <2>1, <2>3
<1>6. ASSUME NEW k \in 1 .. Cardinality(listed), NEW m \in 1 .. Cardinality(listed), k < m
      PROVE  nth(k) < nth(m)
  <2>1. /\ nth(k) \in listed /\ rank(listed, nth(k)) = k - 1
        /\ nth(m) \in listed /\ rank(listed, nth(m)) = m - 1
      BY <1>4
  <2>2. ranked(nth(k), nth(m))
    <3> HIDE DEF ranked
    <3> QED BY <1>3, <2>1
  <2>3. k - 1 < m - 1
      BY <1>1, <1>6
  <2> QED BY <2>1, <2>2, <2>3
<1> QED BY <1>4, <1>5, <1>6

\* What a summary lists is part of the list.
LEMMA ListedIsInList ==
    ASSUME PagingInv, CardsInv
    PROVE  Len(executions) \in Nat /\ listed \in SUBSET (1 .. Len(executions))
BY LenProperties DEF PagingInv, CardsInv, firstOf, matching

\* At the start of a summary every card is blank and awaited.
LEMMA DescribeKeepsSummary ==
    ASSUME PagingInv, SummaryInv, DescribeAll
    PROVE  SummaryInv'
<1>1. /\ listed' = firstOf(matching(1, Len(executions)), SummaryLimit)
      /\ awaited' = 1 .. Cardinality(listed')
      /\ cards' = [k \in awaited' |-> Blank]
      /\ failed' = {} /\ UNCHANGED executions
    BY DEF DescribeAll, SummaryInv
<1>2. listed' = firstOf(matching(1, Len(executions)), SummaryLimit)'
    BY <1>1 DEF matching, firstOf
<1>3. Blank \in [about : Nat, view : Nat]
    BY DEF Blank
<1>4. CardsInv'
    BY <1>1, <1>2, <1>3 DEF CardsInv
<1>5. place' # "describing" => awaited' = {}
    BY DEF DescribeAll
<1> QED BY <1>1, <1>4, <1>5 DEF SummaryInv

\* An answer fills the card at its own place, and a failure is told of no other card,
\* because no other deployment has that place.
LEMMA AnswerKeepsSummary ==
    ASSUME PagingInv, SummaryInv, NEW k \in awaited, DescribeReturns(k)
    PROVE  SummaryInv' /\ awaited \subseteq DOMAIN cards
<1>1. place = "describing" /\ CardsInv
    BY DEF SummaryInv, PagingInv
<1> DEFINE K == 1 .. Cardinality(listed)
<1>2. /\ cards \in [K -> [about : Nat, view : Nat]] /\ awaited \subseteq K /\ k \in K
      /\ failed \subseteq {nth(m) : m \in K \ awaited}
    BY <1>1 DEF CardsInv
<1>3. /\ UNCHANGED <<executions, listed>> /\ awaited' = awaited \ {k}
      /\ \A m : nth(m)' = nth(m)
    BY DEF DescribeReturns, nth
<1>4. PICK answer \in {nth(k), 0} :
          /\ cards' = [cards EXCEPT ![k] = [about |-> nth(k), view |-> answer]]
          /\ failed' = IF answer = 0 THEN failed \cup {nth(k)} ELSE failed
    BY DEF DescribeReturns, placeOf
<1>5. nth(k) \in Nat \ {0}
    BY <1>1, <1>2, ListedIsInList, NthIsRanked
<1>6. ASSUME NEW m \in K, m # k PROVE nth(m) # nth(k)
  <2>1. /\ m \in Nat /\ k \in Nat
        /\ m < k => nth(m) < nth(k)
        /\ k < m => nth(k) < nth(m)
        /\ nth(m) \in Nat
      BY <1>1, <1>2, ListedIsInList, NthIsRanked
  <2> QED BY <1>5, <1>6, <2>1
<1>7. cards' \in [K -> [about : Nat, view : Nat]]
    BY <1>2, <1>4, <1>5
<1>8. ASSUME NEW m \in K \ awaited'
      PROVE  /\ cards'[m].about = nth(m)
             /\ cards'[m].view = IF nth(m) \in failed' THEN 0 ELSE nth(m)
  <2>1. CASE m = k
    <3>1. cards'[m] = [about |-> nth(k), view |-> answer]
        BY <1>2, <1>4, <2>1
    <3>2. nth(k) \notin failed
        BY <1>2, <1>6
    <3>3. nth(k) \in failed' <=> answer = 0
        BY <1>4, <3>2
    <3> QED BY <1>5, <2>1, <3>1, <3>3
  <2>2. CASE m # k
    <3>1. m \in K \ awaited /\ cards'[m] = cards[m]
        BY <1>2, <1>3, <1>4, <2>2
    <3>2. nth(m) \in failed' <=> nth(m) \in failed
        BY <1>4, <1>6, <2>2
    <3> QED BY <1>1, <1>2, <3>1, <3>2 DEF CardsInv
  <2> QED BY <2>1, <2>2
<1>9. failed' \subseteq {nth(m) : m \in K \ awaited'}
    BY <1>2, <1>3, <1>4
<1>10. CardsInv'
  <2>1. listed' = firstOf(matching(1, Len(executions)), SummaryLimit)'
      BY <1>1, <1>3 DEF CardsInv, matching, firstOf
  <2>2. DOMAIN cards' = K /\ awaited' \subseteq K /\ K = (1 .. Cardinality(listed))'
      BY <1>2, <1>3, <1>7
  <2> QED BY <1>3, <1>7, <1>8, <1>9, <2>1, <2>2 DEF CardsInv
<1>11. place' # "describing" => awaited' = {}
    BY <1>1 DEF DescribeReturns
<1>12. place' # "paging"
    BY <1>1 DEF DescribeReturns
<1> QED BY <1>2, <1>10, <1>11, <1>12 DEF SummaryInv

-----------------------------------------------------------------------------
(* The theorems.                                                           *)

\* Both invariants, in every reachable state.
THEOREM ListingInvariant == Spec => [](PagingInv /\ SummaryInv)
<1>1. Init => SummaryInv
    BY DEF Init, SummaryInv
<1>2. ASSUME PagingInv, SummaryInv, [Next]_vars
      PROVE  PagingInv' /\ SummaryInv'
  <2>1. ASSUME NEW limit \in Limits, ListDeployments(limit)
        PROVE  PagingInv' /\ SummaryInv'
    <3>1. place = "paging" /\ cards = <<>> /\ awaited = {} /\ failed = {}
        BY <1>2, <2>1 DEF ListDeployments, PagingInv, SummaryInv
    <3>2. SummaryInv'
        BY <2>1, <3>1 DEF ListDeployments, summary, SummaryInv
    <3> QED BY <1>2, <2>1, <3>2, ListKeepsPaging
  <2>2. CASE DescribeAll
      BY <1>2, <2>2, DescribeKeepsPaging, DescribeKeepsSummary
  <2>3. ASSUME NEW k \in awaited, DescribeReturns(k)
        PROVE  PagingInv' /\ SummaryInv'
      BY <1>2, <2>3, AnswerKeepsSummary, AnswerKeepsPaging
  <2>4. CASE UNCHANGED vars
    <3>1. UNCHANGED <<executions, token, place, awaited, cards, failed, listed, inOrder>>
        BY <2>4 DEF vars, summary
    <3>2. \A k : nth(k)' = nth(k)
        BY <3>1 DEF nth
    <3>3. firstOf(matching(1, Len(executions)), SummaryLimit)'
              = firstOf(matching(1, Len(executions)), SummaryLimit)
        BY <3>1 DEF firstOf, matching
    <3>4. PagingInv'
        BY <1>2, <3>1 DEF PagingInv, PagesAreExact, matching, position
    <3>5. SummaryInv'
        BY <1>2, <3>1, <3>2, <3>3 DEF SummaryInv, CardsInv
    <3> QED BY <3>4, <3>5
  <2> QED BY <1>2, <2>1, <2>2, <2>3, <2>4 DEF Next
<1> QED BY <1>1, <1>2, PagingInit, PTL DEF Spec

\* For lists of any length, visibility pages of any size and limits that change from call
\* to call, the pages neither skip nor repeat an entry (service.go:176-243).
THEOREM PagesAreExactHolds == Spec => []PagesAreExact
<1>1. PagingInv => PagesAreExact
    BY DEF PagingInv
<1> QED BY <1>1, ListingInvariant, PTL

\* Whatever the order of the answers, and whichever queries fail, a complete summary has
\* the right card at each place (service.go:291-335).
THEOREM SummaryIsExactHolds == Spec => []SummaryIsExact
<1>1. ASSUME PagingInv, SummaryInv, place = "done", cards # <<>>
      PROVE  /\ \A i, j \in DOMAIN cards : i < j => cards[i].about < cards[j].about
             /\ {cards[k].about : k \in DOMAIN cards} =
                    firstOf(matching(1, Len(executions)), SummaryLimit)
             /\ \A k \in DOMAIN cards :
                   cards[k].view = IF cards[k].about \in failed THEN 0 ELSE cards[k].about
  <2>1. CardsInv /\ awaited = {} /\ DOMAIN cards = 1 .. Cardinality(listed)
      BY <1>1 DEF SummaryInv, CardsInv
  <2>2. \A k \in DOMAIN cards :
            /\ cards[k].about = nth(k)
            /\ cards[k].view = IF nth(k) \in failed THEN 0 ELSE nth(k)
      BY <2>1 DEF CardsInv
  <2>3. /\ \A k \in DOMAIN cards : nth(k) \in listed
        /\ \A i \in listed : \E k \in DOMAIN cards : nth(k) = i
        /\ \A i, j \in DOMAIN cards : i < j => nth(i) < nth(j)
    <3>1. Len(executions) \in Nat /\ listed \in SUBSET (1 .. Len(executions))
        BY <1>1, <2>1, ListedIsInList
    <3>2. /\ \A k \in DOMAIN cards : nth(k) \in listed
          /\ \A i, j \in DOMAIN cards : i < j => nth(i) < nth(j)
        BY <2>1, <3>1, NthIsRanked
    <3>3. \A i \in listed : rank(listed, i) + 1 \in DOMAIN cards /\ nth(rank(listed, i) + 1) = i
        BY <2>1, <3>1, NthIsRanked
    <3> QED BY <3>2, <3>3
  <2>4. {cards[k].about : k \in DOMAIN cards} = listed
      BY <2>2, <2>3
  <2> QED BY <2>1, <2>2, <2>3, <2>4 DEF CardsInv
<1>2. PagingInv /\ SummaryInv => SummaryIsExact
    BY <1>1 DEF SummaryIsExact
<1> QED BY <1>2, ListingInvariant, PTL

=============================================================================
