------------------------------- MODULE Paging -------------------------------
(***************************************************************************)
(* Reading an inbox page by page (Store.ListRequests and the Cursor of     *)
(* internal/store, handleListRequests of internal/server/server.go), while *)
(* captures are stored and deleted. A capture's time is the one at which   *)
(* it was received, so rows appear above and below the cursor, and several *)
(* may have the same time.                                                 *)
(***************************************************************************)
EXTENDS Naturals, Sequences, FiniteSets

CONSTANTS
    Ids,        \* ids of captures, in their order
    Times,      \* values of received_at
    Limit,      \* the page size asked for, within 1..maxLimit
    NoCursor    \* the empty next_cursor

ASSUME PagingAssumption ==
    /\ Ids \subseteq Nat
    /\ Times \subseteq Nat
    /\ Limit \in Nat \ {0}
    /\ NoCursor \notin Times \X Ids

\* A row's place in the list, which is also what a cursor holds.
Position == Times \X Ids

VARIABLES
    rows,      \* the table: the positions of the stored rows
    client,    \* "reading", or "finished" with the last page
    cursor,    \* the next_cursor the client was given
    read,      \* the rows it was given, in their order
    standing   \* history: rows there since the first page

pagingVars == <<rows, client, cursor, read, standing>>

\* Every variable has its type.
PagingTypeOK ==
    /\ rows \subseteq Position
    /\ client \in {"reading", "finished"}
    /\ cursor \in Position \cup {NoCursor}
    /\ read \in Seq(Position)
    /\ standing \subseteq Position

PagingInit ==
    /\ rows = {}
    /\ client = "reading"
    /\ cursor = NoCursor
    /\ read = <<>>
    /\ standing = {}

-----------------------------------------------------------------------------

Received == {read[i] : i \in DOMAIN read}

StoreRow(id, t) ==
    /\ \A p \in rows \cup Received : p[2] # id
    /\ rows' = rows \cup {<<t, id>>}
    /\ standing' = IF read = <<>> /\ client = "reading"
                   THEN standing \cup {<<t, id>>} ELSE standing
    /\ UNCHANGED <<client, cursor, read>>

DeleteRow(p) ==
    /\ p \in rows
    /\ rows' = rows \ {p}
    /\ standing' = standing \ {p}
    /\ UNCHANGED <<client, cursor, read>>

\* Mutant: rows of the same time are not told apart.
BelowByTime(p, q) == p[1] < q[1]

\* The comparison of (received_at, id) in the query.
Below(p, q) == p[1] < q[1] \/ (p[1] = q[1] /\ p[2] < q[2])

Candidates == {p \in rows : cursor = NoCursor \/ Below(p, cursor)}

\* The order by received_at desc, id desc.
Newer(p, q) == q[1] < p[1] \/ (q[1] = p[1] /\ q[2] < p[2])

\* The rows of a set in this order.
InOrder(S) ==
    CHOOSE s \in [1..Cardinality(S) -> S] :
        \A i, j \in 1..Cardinality(S) : i < j => Newer(s[i], s[j])

FirstOf(s, n) == SubSeq(s, 1, IF Len(s) < n THEN Len(s) ELSE n)

\* The query: one row more than was asked for.
Probed == FirstOf(InOrder(Candidates), Limit + 1)

\* NextCursor: the last row the client gets, if there is another after it.
NextCursor(out) == IF Len(out) > Limit THEN out[Limit] ELSE NoCursor

\* ListRequests, and the client takes its answer.
ReadPage ==
    /\ client = "reading"
    /\ read' = read \o FirstOf(Probed, Limit)
    /\ cursor' = NextCursor(Probed)
    /\ client' = IF cursor' = NoCursor THEN "finished" ELSE "reading"
    /\ UNCHANGED <<rows, standing>>

PagingNext ==
    \/ \E id \in Ids, t \in Times : StoreRow(id, t)
    \/ \E p \in Position : DeleteRow(p)
    \/ ReadPage

PagingSpec == PagingInit /\ [][PagingNext]_pagingVars

-----------------------------------------------------------------------------
(* Properties                                                              *)

\* "A cursor that cannot tell two rows apart either skips one or returns it
\* forever" (cursor.go:13-15): however rows come and go while a client pages
\* through, it gets none twice, and every one that was there all the time.
PagesAreComplete ==
    /\ \A i, j \in DOMAIN read : i < j => Newer(read[i], read[j])
    /\ client = "finished" => standing \subseteq Received

=============================================================================
