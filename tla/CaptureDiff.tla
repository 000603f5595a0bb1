----------------------------- MODULE CaptureDiff -----------------------------
(***************************************************************************)
(* The structural comparison of two captures (internal/diff, handleDiff of *)
(* internal/server/diff.go). A JSON value is a tree, a path in it the      *)
(* sequence of its keys, indices and ids. Changes are a set: their order,  *)
(* which the code makes that of their paths, is left out. A header's value *)
(* is the sequence of what its ", " separates.                             *)
(***************************************************************************)
EXTENDS Naturals, Sequences, SequencesExt

CONSTANTS
    JSON,      \* the JSON values there are, with all that is in them
    MaxDepth,  \* how deep values nest: encoding/json refuses deeper ones
    Inputs,    \* pairs of captures that are compared
    IdKeys,    \* the keys that may hold an id, in their priority
    EmptyText, \* the text of the empty string
    Lower(_),  \* strings.ToLower, on names of headers
    Volatile   \* VolatileHeaders

VARIABLES
    pair,       \* the captures, and whether volatile headers are asked for
    comparison  \* the answer, {} before it is there

diffVars == <<pair, comparison>>

-----------------------------------------------------------------------------
(* JSON values: [kind |-> "null"], [kind |-> "num" or "str", text |-> t],    *)
(* [kind |-> "obj", of |-> a function of keys], [kind |-> "arr", of |-> a    *)
(* sequence]. A body that is not JSON is [kind |-> "bytes", text |-> t].     *)

Scalar(v) == v.kind \in {"num", "str"}

ASSUME DiffAssumption ==
    /\ MaxDepth \in Nat
    /\ IdKeys \in Seq(STRING)
    /\ \A v \in JSON :
         /\ v.kind = "obj" => \A k \in DOMAIN v.of : v.of[k] \in JSON
         /\ v.kind = "arr" => v.of \in Seq(JSON)
    /\ \A p \in Inputs : \A body \in {p.left.body, p.right.body} :
         body.kind = "bytes" \/ body \in JSON

Absent == [kind |-> "absent"]

Change(path, op, l, r) == [path |-> path, op |-> op, old |-> l, new |-> r]

Differ(path, l, r) == IF l = r THEN {} ELSE {Change(path, "changed", l, r)}

\* join: what is below a place has its step in front of its path.
Under(step, changes) ==
    {Change(<<step>> \o c.path, c.op, c.old, c.new) : c \in changes}

\* The text of the first key that holds a scalar; the empty text if none does.
IdText(v) ==
    LET named == {i \in DOMAIN IdKeys :
                    v.kind = "obj" /\ IdKeys[i] \in DOMAIN v.of /\ Scalar(v.of[IdKeys[i]])}
    IN IF named = {} THEN EmptyText ELSE v.of[IdKeys[Min(named)]].text

ElementIds(items) == {IdText(items[i]) : i \in DOMAIN items}

\* Mutant: the same id may occur twice.
AnyIds(items) == items # <<>> /\ EmptyText \notin ElementIds(items)

\* elementIDs: whether every element has an id, and no two the same.
Identified(items) ==
    /\ items # <<>>
    /\ EmptyText \notin ElementIds(items)
    /\ \A i, j \in DOMAIN items : i < j => IdText(items[i]) # IdText(items[j])

\* Two functions, place by place; walk says what differs within a place.
AtPlace(step, k, l, r, walk) ==
    IF k \notin DOMAIN r THEN {Change(<<step>>, "removed", l[k], Absent)}
    ELSE IF k \notin DOMAIN l THEN {Change(<<step>>, "added", Absent, r[k])}
    ELSE Under(step, walk[<<l[k], r[k]>>])

Places(how, l, r, walk) ==
    UNION {AtPlace(<<how, k>>, k, l, r, walk) : k \in DOMAIN l \cup DOMAIN r}

WalkObjects(l, r, walk) == Places("key", l, r, walk)

\* The elements by their ids, the last one if an id is repeated (rByID).
ById(items) ==
    [id \in ElementIds(items) |-> items[Max({i \in DOMAIN items : IdText(items[i]) = id})]]

WalkArraysById(l, r, walk) == Places("id", ById(l), ById(r), walk)

WalkArrays(l, r, walk) ==
    IF Identified(l) /\ Identified(r) THEN WalkArraysById(l, r, walk)
    ELSE Places("index", l, r, walk)

\* walk at a pair of values, given the walk of pairs that nest less deep.
WalkOnce(walk) ==
    [p \in JSON \X JSON |->
       LET l == p[1]
           r == p[2]
       IN IF l.kind = "obj" /\ r.kind = "obj" THEN WalkObjects(l.of, r.of, walk)
          ELSE IF l.kind = "arr" /\ r.kind = "arr" THEN WalkArrays(l.of, r.of, walk)
          ELSE Differ(<<>>, l, r)]

\* The innermost values hold no others.
WalkLeaves == [p \in JSON \X JSON |-> Differ(<<>>, p[1], p[2])]

Walk[depth \in 0..MaxDepth] ==
    IF depth = 0 THEN WalkLeaves ELSE WalkOnce(Walk[depth - 1])

\* Bodies: one that is not JSON makes it a comparison of bytes.
BodyChanges(l, r) ==
    IF l.kind = "bytes" \/ r.kind = "bytes" THEN Differ(<<>>, l, r)
    ELSE Walk[MaxDepth][<<l, r>>]

-----------------------------------------------------------------------------
(* Headers: a sequence of [name |-> n, value |-> v]                          *)

Names(hs) == {Lower(hs[i].name) : i \in DOMAIN hs}

\* The values of a name in their order, joined.
Joined(hs, name) ==
    [kind |-> "values",
     of |-> FlattenSeq([i \in DOMAIN hs |->
                          IF Lower(hs[i].name) = name THEN hs[i].value ELSE <<>>])]

HeaderChanges(l, r) ==
    UNION {IF n \notin Names(r) THEN {Change(<<n>>, "removed", Joined(l, n), Absent)}
           ELSE IF n \notin Names(l) THEN {Change(<<n>>, "added", Absent, Joined(r, n))}
           ELSE Differ(<<n>>, Joined(l, n), Joined(r, n))
           : n \in Names(l) \cup Names(r)}

WithoutVolatile(changes) == {c \in changes : c.path[1] \notin Volatile}

\* handleDiff.
Compared(p) ==
    LET body == BodyChanges(p.left.body, p.right.body)
        all == HeaderChanges(p.left.headers, p.right.headers)
        headers == IF p.volatile THEN all ELSE WithoutVolatile(all)
        line == Differ(<<"line">>, p.left.line, p.right.line)
    IN [line |-> line, headers |-> headers, body |-> body,
        identical |-> line \cup headers \cup body = {}]

DiffInit ==
    /\ pair \in Inputs
    /\ comparison = {}

CompareCaptures ==
    /\ comparison = {}
    /\ comparison' = {Compared(pair)}
    /\ UNCHANGED pair

DiffNext == CompareCaptures

DiffSpec == DiffInit /\ [][DiffNext]_diffVars

-----------------------------------------------------------------------------
(* Properties                                                              *)

\* When two values are the same for a reader: objects without an order, arrays
\* element by element, in any order if no id in them is ambiguous.
Unambiguous(items) ==
    \A i, j \in DOMAIN items :
        /\ IdText(items[i]) # EmptyText
        /\ i # j => IdText(items[i]) # IdText(items[j])

InPlace(f) == \A i \in DOMAIN f : f[i] = i

SameObjects(l, r, same) ==
    /\ DOMAIN l = DOMAIN r
    /\ \A k \in DOMAIN l : <<l[k], r[k]>> \in same

SameArrays(l, r, same) ==
    /\ Len(l) = Len(r)
    /\ \E f \in Injection(DOMAIN l, DOMAIN r) :
         /\ InPlace(f) \/ Unambiguous(l)
         /\ \A i \in DOMAIN l : <<l[i], r[f[i]]>> \in same

SameOnce(same) ==
    {p \in JSON \X JSON :
       LET l == p[1]
           r == p[2]
       IN IF l.kind = "obj" /\ r.kind = "obj" THEN SameObjects(l.of, r.of, same)
          ELSE IF l.kind = "arr" /\ r.kind = "arr" THEN SameArrays(l.of, r.of, same)
          ELSE l = r}

SameLeaves == {p \in JSON \X JSON : p[1] = p[2]}

Same[depth \in 0..MaxDepth] ==
    IF depth = 0 THEN SameLeaves ELSE SameOnce(Same[depth - 1])

SameBodies(l, r) ==
    IF l.kind = "bytes" \/ r.kind = "bytes" THEN l = r ELSE <<l, r>> \in Same[MaxDepth]

Opposite == [added |-> "removed", removed |-> "added", changed |-> "changed"]

\* The changes in the other direction.
Flip(changes) == {Change(c.path, Opposite[c.op], c.new, c.old) : c \in changes}

\* "Identical is an answer worth stating" (diff.go:46-49): two bodies without
\* changes are the same, and the same bodies have none, although arrays are
\* matched by ids or by index as both sides allow, and texts of different types
\* are the same id. What one direction adds the other removes.
ComparisonIsExact ==
    \A c \in comparison :
        /\ c.body = {} <=> SameBodies(pair.left.body, pair.right.body)
        /\ BodyChanges(pair.right.body, pair.left.body) = Flip(c.body)
        /\ c.identical /\ pair.volatile =>
             \A n \in Names(pair.left.headers) \cup Names(pair.right.headers) :
                 Joined(pair.left.headers, n) = Joined(pair.right.headers, n)

=============================================================================
