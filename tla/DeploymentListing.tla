------------------------- MODULE DeploymentListing -------------------------
(***************************************************************************)
(* ListDeployments (control/service.go): pages through the workflows that  *)
(* Temporal's visibility store lists, keeps the deployment actors that     *)
(* match the filter, and hands the client a cursor that may point into the *)
(* middle of a visibility page.  DescribeAll lists the first of them once  *)
(* and asks all of their actors at the same time.                          *)
(*                                                                         *)
(* Visibility is external: the list of open workflows, cut into pages of   *)
(* the size each call asks for, a page token naming the place where the    *)
(* next page starts.  The list holds still while a client pages through.   *)
(***************************************************************************)
EXTENDS Integers, Sequences, FiniteSets

CONSTANTS
    Limits,         \* values of the limit parameter
    MinPage,        \* smallest visibility page, 100
    MaxPage,        \* largest visibility page, 1000
    SummaryLimit,   \* how many deployments DescribeAll asks for, 500
    MaxListed       \* bound: how many workflows are listed

ASSUME ListingAssumption ==
    /\ Limits \subseteq Nat \ {0}
    /\ MinPage \in Nat \ {0} /\ MaxPage \in Nat /\ MinPage <= MaxPage
    /\ MaxListed \in Nat /\ SummaryLimit \in Nat \ {0}

VARIABLES
    executions,     \* the open workflows: does each match type, id and filter?
    token,          \* the deploymentListCursor the client holds
    place,          \* "paging", "describing", "done" or "invalid"
    awaited,        \* DescribeAll: positions whose actor has not yet answered
    cards,          \* DescribeAll: the card at each position
    failed,         \* history: the workflows whose query failed
    listed,         \* history: the entries received so far, as indices
    inOrder         \* history: did every page lie behind those before it?

summary == <<awaited, cards, failed>>
vars == <<executions, token, place, summary, listed, inOrder>>

-----------------------------------------------------------------------------

\* Visibility pages are larger than the client's, for the entries filtered out.
pageSize(limit) ==
    IF limit * 2 < MinPage THEN MinPage
    ELSE IF limit * 2 > MaxPage THEN MaxPage ELSE limit * 2

\* A cursor: visibility page starting after `start' entries, `offset' into it.  The
\* zero cursor is encoded as the empty page token.
Cursor(start, offset) == [start |-> start, offset |-> offset]
NoCursor == Cursor(0, 0)

\* The end of the visibility page that starts after `start' entries, and the next
\* page token, empty (0) at the end of the list.
pageEnd(start, size) ==
    IF start + size < Len(executions) THEN start + size ELSE Len(executions)
nextPage(start, size) ==
    IF pageEnd(start, size) = Len(executions) THEN 0 ELSE pageEnd(start, size)

\* The matching entries among those from `first' to `last'.
matching(first, last) == {i \in first .. last : executions[i]}

\* The first `limit' of some entries.
firstOf(entries, limit) == {i \in entries : Cardinality({j \in entries : j < i}) < limit}

\* Mutant: forgets the offset and points at the start of the page.
cursorAtPage(last, start, size) ==
    IF last < pageEnd(start, size) THEN Cursor(start, 0)
    ELSE Cursor(nextPage(start, size), 0)

\* Mutant: a page that was filled by its last entry counts as not used up.
cursorBehindPage(last, start, size) ==
    IF last <= pageEnd(start, size) THEN Cursor(nextPage(start, size), 0)
    ELSE Cursor(start, last - start)

\* A call of ListDeployments collects `limit' matching entries or all that are left,
\* over as many visibility pages as that takes.  If it fills up at entry `last' of
\* the page starting at `start', it returns a cursor to the entry behind it.
cursorBehind(last, start, size) ==
    IF last < pageEnd(start, size) THEN Cursor(start, last - start)
    ELSE Cursor(nextPage(start, size), 0)

\* The page starts a call may read: that of its cursor, then whole pages behind it.
pageOf(last, start, size) == start + ((last - start - 1) \div size) * size

ListDeployments(limit) ==
    LET size == pageSize(limit)
        first == token.start + token.offset + 1
        rest == matching(first, Len(executions))
        taken == firstOf(rest, limit)
        last == CHOOSE i \in taken : \A j \in taken : j <= i
    IN  /\ place = "paging"
        /\ IF token.start + token.offset > pageEnd(token.start, size)
           THEN /\ place' = "invalid"
                /\ UNCHANGED <<token, listed, inOrder>>
           ELSE /\ listed' = listed \cup taken
                /\ inOrder' = (inOrder /\ \A i \in listed, j \in taken : i < j)
                /\ token' = IF Cardinality(taken) = limit
                            THEN cursorBehind(last, pageOf(last, token.start, size), size)
                            ELSE NoCursor
                /\ place' = IF token' = NoCursor THEN "done" ELSE "paging"
        /\ UNCHANGED <<executions, summary>>

\* What stands in a card before its actor has answered.
Blank == [about |-> 0, view |-> 0]

\* DescribeAll: the deployments are listed from the start, the cursor to the rest is
\* dropped, and one query each is sent to their actors.
DescribeAll ==
    /\ place = "paging" /\ token = NoCursor /\ listed = {}
    /\ listed' = firstOf(matching(1, Len(executions)), SummaryLimit)
    /\ awaited' = 1 .. Cardinality(listed')
    /\ cards' = [k \in awaited' |-> Blank]
    /\ place' = IF awaited' = {} THEN "done" ELSE "describing"
    /\ UNCHANGED <<executions, token, failed, inOrder>>

\* The k-th of the deployments listed.
nth(k) == CHOOSE i \in listed : Cardinality({j \in listed : j < i}) = k - 1

\* Mutant: fills the cards in the order of the answers.
placeOfArrival(k) == Cardinality(DOMAIN cards) - Cardinality(awaited) + 1

\* The card an answer belongs in.
placeOf(k) == k

\* The k-th actor answers with its view, or its query fails and the card says so.
\* A view is abstracted to the workflow it is of, 0 is "UNREACHABLE".
DescribeReturns(k) ==
    /\ k \in awaited
    /\ \E answer \in {nth(k), 0} :
          /\ cards' = [cards EXCEPT ![placeOf(k)] = [about |-> nth(k), view |-> answer]]
          /\ failed' = IF answer = 0 THEN failed \cup {nth(k)} ELSE failed
    /\ awaited' = awaited \ {k}
    /\ place' = IF awaited' = {} THEN "done" ELSE place
    /\ UNCHANGED <<executions, token, listed, inOrder>>

Init ==
    /\ executions \in UNION {[1 .. n -> BOOLEAN] : n \in 0 .. MaxListed}
    /\ token = NoCursor
    /\ place = "paging"
    /\ awaited = {}
    /\ cards = <<>>
    /\ failed = {}
    /\ listed = {}
    /\ inOrder = TRUE

Next ==
    \/ \E limit \in Limits : ListDeployments(limit)
    \/ DescribeAll
    \/ \E k \in awaited : DescribeReturns(k)

Spec == Init /\ [][Next]_vars /\ WF_vars(Next)

-----------------------------------------------------------------------------
(* Properties.                                                             *)

\* Whatever limit each call uses, the pages a client has received are disjoint, in
\* the order of the list, and leave no matching deployment out: a cursor into a
\* visibility page neither skips nor repeats one (service.go:176-243).
PagesAreExact ==
    (place # "invalid" /\ cards = <<>>) =>
        /\ inOrder
        /\ listed = matching(1, IF place = "done" THEN Len(executions)
                               ELSE token.start + token.offset)

\* In whatever order the actors answer, and whichever of them do not, each of the
\* deployments at the head of the list gets the card at its place, with its own view,
\* and is shown as unreachable only if its own query failed (service.go:291-335).
SummaryIsExact ==
    (place = "done" /\ cards # <<>>) =>
        /\ \A i, j \in DOMAIN cards : i < j => cards[i].about < cards[j].about
        /\ {cards[k].about : k \in DOMAIN cards} =
               firstOf(matching(1, Len(executions)), SummaryLimit)
        /\ \A k \in DOMAIN cards :
              cards[k].view = IF cards[k].about \in failed THEN 0 ELSE cards[k].about

\* Paging ends, and so does a summary (service.go:222-229: the cursor always moves on).
PagingEnds == <>(place \in {"done", "invalid"})

=============================================================================
