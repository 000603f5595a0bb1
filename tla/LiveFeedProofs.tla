--------------------------- MODULE LiveFeedProofs ---------------------------
(***************************************************************************)
(* The live feed, for any number of captures, viewers and streams, queues  *)
(* and wires of any size: no capture becomes two rows, what was queued for *)
(* a watching viewer is shown, and drops are counted exactly.              *)
(***************************************************************************)
EXTENDS LiveFeed, FiniteInduction, FiniteSetTheorems, TLAPS

Events == Message \cup [event : {"dropped"}, count : Nat]

CaptureOf(id)  == [event |-> "capture", id |-> id]
DeliveryOf(id) == [event |-> "delivery", id |-> id]

\* Streams are opened one after the other, and only the one that is read is
\* alive; a handler that does not stream has nothing queued and nothing counted.
StreamOK(s) ==
    /\ up[s] <=> (s[2] = opened[s[1]] /\ reading[s[1]])
    /\ opened[s[1]] < s[2] => handler[s] = "none"
    /\ ~up[s] => wire[s] = << >>
    /\ s \in subs <=> handler[s] = "streaming"
    /\ s \notin subs => queue[s] = << >> /\ dropped[s] = 0 /\ reported[s] = 0
    /\ reported[s] <= dropped[s]

StreamInv ==
    /\ \A v \in Viewers : reading[v] => opened[v] > 0
    /\ \A s \in Streams : StreamOK(s)

\* No capture is in these rows twice.
Distinct(rows) == \A i, j \in DOMAIN rows : rows[i].id = rows[j].id => i = j

RowsInv ==
    /\ \A i \in DOMAIN table : stage[table[i]] # "new"
    /\ \A i, j \in DOMAIN table : table[i] = table[j] => i = j
    /\ \A v \in Viewers : Distinct(page[v]) /\ Distinct(list[v])

\* What a viewer has been shown of its drops, or is about to be.
Known(v) ==
    IF opened[v] = 0 THEN shown[v]
    ELSE shown[v] + OnWire(wire[Current(v)])
         + (IF Current(v) \in subs THEN dropped[Current(v)] - reported[Current(v)] ELSE 0)

DropsOK(v) ==
    /\ Known(v) <= lost[v]
    /\ opened[v] = 0 => lost[v] = 0
    /\ opened[v] = 1 /\ reading[v] => Known(v) = lost[v]

DropsInv == \A v \in Viewers : DropsOK(v)

\* The first a of the sequence comes before every b.
Before(s, a, b) ==
    \E i \in DOMAIN s : s[i] = a /\ \A j \in DOMAIN s : s[j] = b => i < j

\* The row that a delivery is for is on the list, or comes before the delivery.
Preceded(v, id) ==
    \/ id \in Ids(list[v])
    \/ Before(wire[Current(v)], CaptureOf(id), DeliveryOf(id))
    \/ /\ DeliveryOf(id) \notin Range(wire[Current(v)])
       /\ Before(queue[Current(v)], CaptureOf(id), DeliveryOf(id))

\* Nothing tells of an outcome that is not recorded.
ToldInv ==
    \A s \in Streams : \A m \in Range(queue[s]) \cup Range(wire[s]) :
        m.event = "delivery" => stage[m.id] = "done"

OwedOK(v) ==
    /\ owed[v] # {} => loaded[v] /\ fetching[v] = "no" /\ reading[v]
    /\ \A m \in owed[v] :
          /\ m \in Range(queue[Current(v)]) \cup Range(wire[Current(v)]) \/ Reflects(v, m)
          /\ m.event = "delivery" => Preceded(v, m.id)

OwedInv == \A v \in Viewers : OwedOK(v)

FeedInv == TypeOK /\ StreamInv /\ RowsInv /\ DropsInv /\ ToldInv /\ OwedInv

-----------------------------------------------------------------------------
(* Sequences                                                               *)

\* Nothing is in the empty sequence.
LEMMA EmptySequence ==
    ASSUME NEW S
    PROVE  /\ << >> \in Seq(S) /\ Range(<< >>) = {} /\ Len(<< >>) = 0
           /\ \A a, b : ~Before(<< >>, a, b)
  BY DEF Range, Before

\* Appending adds one element, and changes no order.
LEMMA AppendSequence ==
    ASSUME NEW S, NEW s \in Seq(S), NEW x \in S
    PROVE  /\ Append(s, x) \in Seq(S) /\ Len(Append(s, x)) = Len(s) + 1
           /\ Range(Append(s, x)) = Range(s) \cup {x}
           /\ \A a, b : Before(s, a, b) => Before(Append(s, x), a, b)
           /\ \A b : b # x /\ b \notin Range(s) => Before(Append(s, x), x, b)
  <1> DEFINE t == Append(s, x)
  <1>1. /\ t \in Seq(S) /\ Len(t) = Len(s) + 1 /\ Len(s) \in Nat
        /\ DOMAIN s = 1..Len(s) /\ DOMAIN t = 1..Len(s) + 1
        /\ t[Len(s) + 1] = x /\ \A i \in 1..Len(s) : t[i] = s[i]
    OBVIOUS
  <1> HIDE DEF t
  <1>2. Range(t) = Range(s) \cup {x}
    BY <1>1 DEF Range
  <1>3. ASSUME NEW a, NEW b, Before(s, a, b) PROVE Before(t, a, b)
    <2>1. PICK i \in 1..Len(s) : s[i] = a /\ \A j \in 1..Len(s) : s[j] = b => i < j
      BY <1>1, <1>3 DEF Before
    <2>2. t[i] = a /\ \A j \in 1..Len(s) + 1 : t[j] = b => i < j
      BY <1>1, <2>1
    <2> QED  BY <1>1, <2>1, <2>2 DEF Before
  <1>4. ASSUME NEW b, b # x, b \notin Range(s) PROVE Before(t, x, b)
    <2>1. \A j \in 1..Len(s) + 1 : t[j] # b
      BY <1>1, <1>4 DEF Range
    <2> QED  BY <1>1, <2>1 DEF Before
  <1> QED  BY <1>1, <1>2, <1>3, <1>4 DEF t

\* Taking the head leaves the rest in its order.
LEMMA TailSequence ==
    ASSUME NEW S, NEW s \in Seq(S), s # << >>
    PROVE  /\ Tail(s) \in Seq(S) /\ Len(Tail(s)) = Len(s) - 1 /\ Len(s) > 0
           /\ Head(s) \in S
           /\ Range(s) = Range(Tail(s)) \cup {Head(s)}
           /\ \A a, b : Before(s, a, b) /\ a # b =>
                  Head(s) # b /\ (Head(s) = a \/ Before(Tail(s), a, b))
  <1> DEFINE t == Tail(s)
  <1>1. /\ t \in Seq(S) /\ Len(t) = Len(s) - 1 /\ Len(s) \in Nat \ {0}
        /\ DOMAIN s = 1..Len(s) /\ DOMAIN t = 1..Len(s) - 1
        /\ Head(s) = s[1] /\ s[1] \in S
        /\ \A i \in 1..Len(s) - 1 : t[i] = s[i + 1]
    OBVIOUS
  <1> HIDE DEF t
  <1>2. Range(s) = Range(t) \cup {Head(s)}
    <2>1. \A i \in 2..Len(s) : i - 1 \in 1..Len(s) - 1 /\ s[i] = t[i - 1]
      BY <1>1
    <2>2. \A i \in 1..Len(s) - 1 : i + 1 \in 1..Len(s) /\ t[i] = s[i + 1]
      BY <1>1
    <2>3. \A i \in 1..Len(s) : i = 1 \/ i \in 2..Len(s)
      BY <1>1
    <2>4. 1 \in 1..Len(s)
      BY <1>1
    <2>5. Range(s) \subseteq Range(t) \cup {Head(s)}
      <3> SUFFICES ASSUME NEW i \in 1..Len(s) PROVE s[i] \in Range(t) \cup {Head(s)}
        BY <1>1 DEF Range
      <3>1. CASE i = 1
        BY <1>1, <3>1
      <3>2. CASE i \in 2..Len(s)
        BY <1>1, <2>1, <3>2 DEF Range
      <3> QED  BY <2>3, <3>1, <3>2
    <2>6. Range(t) \cup {Head(s)} \subseteq Range(s)
      BY <1>1, <2>2, <2>4 DEF Range
    <2> QED  BY <2>5, <2>6
  <1>3. ASSUME NEW a, NEW b, Before(s, a, b), a # b
        PROVE  Head(s) # b /\ (Head(s) = a \/ Before(t, a, b))
    <2>1. PICK i \in 1..Len(s) : s[i] = a /\ \A j \in 1..Len(s) : s[j] = b => i < j
      BY <1>1, <1>3 DEF Before
    <2>2. Head(s) # b
      BY <1>1, <2>1
    <2>3. CASE i # 1
      <3>1. i - 1 \in 1..Len(s) - 1 /\ t[i - 1] = a
        BY <1>1, <2>1, <2>3
      <3>2. ASSUME NEW j \in 1..Len(s) - 1, t[j] = b PROVE i - 1 < j
        <4>1. j + 1 \in 1..Len(s) /\ s[j + 1] = b
          BY <1>1, <3>2
        <4>2. i < j + 1 /\ i \in Nat /\ j \in Nat
          BY <1>1, <2>1, <3>2, <4>1
        <4> QED  BY <4>2
      <3> QED  BY <1>1, <2>2, <3>1, <3>2 DEF Before
    <2> QED  BY <1>1, <2>1, <2>2, <2>3
  <1> QED  BY <1>1, <1>2, <1>3 DEF t

-----------------------------------------------------------------------------
(* Rows                                                                    *)

\* Whether some rows say what the message says.
Says(rows, m) ==
    \E i \in DOMAIN rows : rows[i].id = m.id /\ (m.event = "delivery" => rows[i].outcome)

\* A capture is prepended once, and nothing shown goes.
LEMMA PrependedRows ==
    ASSUME NEW rows \in Seq(Row), NEW id \in Captures
    PROVE  /\ Prepended(rows, id) \in Seq(Row)
           /\ Distinct(rows) => Distinct(Prepended(rows, id))
           /\ Ids(Prepended(rows, id)) = Ids(rows) \cup {id}
           /\ \A m : Says(rows, m) => Says(Prepended(rows, id), m)
           /\ \A m : m.id = id /\ m.event # "delivery" => Says(Prepended(rows, id), m)
  <1>1. Ids(rows) = {rows[i].id : i \in DOMAIN rows}
    BY DEF Ids, Range
  <1>2. CASE id \in Ids(rows)
    BY <1>1, <1>2 DEF Prepended, Says
  <1>3. CASE id \notin Ids(rows)
    <2> DEFINE new == [id |-> id, outcome |-> FALSE]
               t == << new >> \o rows
    <2>1. new \in Row
      BY DEF Row
    <2>2. /\ t \in Seq(Row) /\ Len(t) = Len(rows) + 1 /\ Len(rows) \in Nat
          /\ DOMAIN rows = 1..Len(rows) /\ DOMAIN t = 1..Len(rows) + 1
          /\ t[1] = new /\ \A i \in 1..Len(rows) : t[i + 1] = rows[i]
      BY <2>1
    <2>3. Prepended(rows, id) = t /\ new.id = id
      BY <1>3 DEF Prepended
    <2> HIDE DEF t, new
    <2>4. \A i \in 2..Len(rows) + 1 : i - 1 \in 1..Len(rows) /\ t[i] = rows[i - 1]
      BY <2>2
    <2>5. \A i \in 1..Len(rows) + 1 : i = 1 \/ i \in 2..Len(rows) + 1
      BY <2>2
    <2>6. \A i \in 1..Len(rows) : i + 1 \in 1..Len(rows) + 1
      BY <2>2
    <2>7. 1 \in 1..Len(rows) + 1
      BY <2>2
    <2>8. Ids(t) = {t[i].id : i \in 1..Len(rows) + 1}
      BY <2>2 DEF Ids, Range
    <2>9. Ids(t) = Ids(rows) \cup {id}
      <3>1. \A i \in 1..Len(rows) + 1 :
               t[i].id = id \/ (i - 1 \in DOMAIN rows /\ t[i].id = rows[i - 1].id)
        BY <2>2, <2>3, <2>4, <2>5
      <3>2. \A i \in DOMAIN rows : i + 1 \in 1..Len(rows) + 1 /\ t[i + 1].id = rows[i].id
        BY <2>2, <2>6
      <3>3. Ids(t) \subseteq Ids(rows) \cup {id}
        BY <1>1, <2>8, <3>1
      <3>4. Ids(rows) \cup {id} \subseteq Ids(t)
        BY <1>1, <2>2, <2>3, <2>7, <2>8, <3>2
      <3> QED  BY <3>3, <3>4
    <2>10. Distinct(rows) => Distinct(t)
      <3> SUFFICES ASSUME Distinct(rows),
                          NEW i \in 1..Len(rows) + 1, NEW j \in 1..Len(rows) + 1,
                          t[i].id = t[j].id
                   PROVE  i = j
        BY <2>2 DEF Distinct
      <3>1. CASE i # 1 /\ j # 1
        <4>1. /\ i - 1 \in 1..Len(rows) /\ j - 1 \in 1..Len(rows)
              /\ rows[i - 1].id = rows[j - 1].id
          BY <2>4, <2>5, <3>1
        <4>2. i - 1 = j - 1
          BY <2>2, <4>1 DEF Distinct
        <4> QED  BY <2>2, <4>2
      <3>2. \A k \in 2..Len(rows) + 1 : t[k].id # id
        BY <1>1, <1>3, <2>2, <2>4
      <3> QED  BY <2>2, <2>3, <2>5, <3>1, <3>2
    <2>11. \A m : Says(rows, m) => Says(t, m)
      BY <2>2, <2>6 DEF Says
    <2>12. \A m : m.id = id /\ m.event # "delivery" => Says(t, m)
      BY <2>2, <2>3, <2>7 DEF Says
    <2> QED  BY <2>2, <2>3, <2>9, <2>10, <2>11, <2>12
  <1> QED  BY <1>2, <1>3

\* An outcome goes to the rows of its capture, and nothing shown goes.
LEMMA PatchedRows ==
    ASSUME NEW rows \in Seq(Row), NEW id \in Captures
    PROVE  /\ Patched(rows, id) \in Seq(Row)
           /\ Distinct(rows) => Distinct(Patched(rows, id))
           /\ Ids(Patched(rows, id)) = Ids(rows)
           /\ \A m : Says(rows, m) => Says(Patched(rows, id), m)
           /\ id \in Ids(rows) => \A m : m.id = id => Says(Patched(rows, id), m)
  <1> DEFINE t == Patched(rows, id)
  <1>1. /\ DOMAIN rows = 1..Len(rows) /\ Len(rows) \in Nat /\ DOMAIN t = 1..Len(rows)
        /\ \A i \in 1..Len(rows) :
              /\ rows[i] \in Row /\ t[i] \in Row /\ t[i].id = rows[i].id
              /\ rows[i].outcome => t[i].outcome
              /\ rows[i].id = id => t[i].outcome
    <2>1. /\ DOMAIN rows = 1..Len(rows) /\ Len(rows) \in Nat /\ DOMAIN t = 1..Len(rows)
          /\ \A i \in 1..Len(rows) : rows[i] \in Row
      BY DEF Patched
    <2>2. ASSUME NEW i \in 1..Len(rows)
          PROVE  /\ t[i] \in Row /\ t[i].id = rows[i].id
                 /\ rows[i].outcome => t[i].outcome
                 /\ rows[i].id = id => t[i].outcome
      <3>1. CASE rows[i].id = id
        <4>1. t[i] = [rows[i] EXCEPT !.outcome = TRUE]
          BY <2>1, <3>1 DEF Patched
        <4> QED  BY <2>1, <4>1 DEF Row
      <3>2. CASE rows[i].id # id
        <4>1. t[i] = rows[i]
          BY <2>1, <3>2 DEF Patched
        <4> QED  BY <2>1, <3>2, <4>1 DEF Row
      <3> QED  BY <3>1, <3>2
    <2> HIDE DEF t
    <2> QED  BY <2>1, <2>2
  <1>2. t \in Seq(Row)
    <2>1. t = [i \in 1..Len(rows) |-> t[i]]
      BY <1>1 DEF Patched
    <2> HIDE DEF t
    <2>2. t \in [1..Len(rows) -> Row]
      BY <1>1, <2>1
    <2>3. Len(rows) \in Nat
      BY <1>1
    <2> QED  BY <2>2, <2>3
  <1> HIDE DEF t
  <1>3. Distinct(rows) => Distinct(t)
    BY <1>1 DEF Distinct
  <1>4. Ids(rows) = {rows[i].id : i \in 1..Len(rows)} /\ Ids(t) = {t[i].id : i \in 1..Len(rows)}
    BY <1>1 DEF Ids, Range
  <1>5. Ids(t) = Ids(rows)
    BY <1>1, <1>4
  <1>6. \A m : Says(rows, m) => Says(t, m)
    BY <1>1 DEF Says
  <1>7. id \in Ids(rows) => \A m : m.id = id => Says(t, m)
    BY <1>1, <1>4 DEF Says
  <1> QED  BY <1>2, <1>3, <1>5, <1>6, <1>7 DEF t
-----------------------------------------------------------------------------
(* The count of drops on the wire                                          *)

\* What one event says of drops.
Drops(e) == IF e.event = "dropped" THEN e.count ELSE 0

\* u holds the partial sums of the drops in s.
Sums(u, s) ==
    u = [i \in 0..Len(s) |-> IF i = 0 THEN 0 ELSE u[i - 1] + Drops(s[i])]

\* The events of a stream tell of a natural number of drops.
LEMMA DropsType ==
    ASSUME NEW s \in Seq(Events)
    PROVE  \A i \in 1..Len(s) : Drops(s[i]) \in Nat
  BY DEF Events, Drops, Message

\* u holds the partial sums of the first n events.
SumsTo(u, s, n) ==
    /\ u \in [0..n -> Nat]
    /\ u[0] = 0
    /\ \A i \in 1..n : u[i] = u[i - 1] + Drops(s[i])

\* Partial sums exist.
LEMMA SumsExist ==
    ASSUME NEW s \in Seq(Events)
    PROVE  \E u : Sums(u, s)
  <1> DEFINE S == {n \in 0..Len(s) : \E u : SumsTo(u, s, n)}
  <1>1. Len(s) \in Nat /\ \A i \in 1..Len(s) : Drops(s[i]) \in Nat
    BY DropsType
  <1>2. 0 \in S
    <2>1. SumsTo([i \in 0..0 |-> 0], s, 0)
      BY DEF SumsTo
    <2> QED  BY <1>1, <2>1
  <1>3. ASSUME NEW n \in 1..Len(s), n - 1 \in S PROVE n \in S
    <2>1. PICK u : SumsTo(u, s, n - 1)
      BY <1>3
    <2> DEFINE w == [i \in 0..n |-> IF i = n THEN u[n - 1] + Drops(s[n]) ELSE u[i]]
    <2>2. u[n - 1] + Drops(s[n]) \in Nat /\ \A i \in 0..n : i # n => u[i] \in Nat
      BY <1>1, <2>1 DEF SumsTo
    <2>3. w \in [0..n -> Nat]
      BY <2>2
    <2>4. w[0] = 0 /\ \A i \in 1..n : w[i] = w[i - 1] + Drops(s[i])
      BY <2>1 DEF SumsTo
    <2> HIDE DEF w
    <2>5. SumsTo(w, s, n)
      BY <2>3, <2>4 DEF SumsTo
    <2> QED  BY <1>1, <2>5
  <1>4. Len(s) \in S
    <2> HIDE DEF S
    <2>1. 0..Len(s) \subseteq S
      BY <1>1, <1>2, <1>3, UpTo
    <2> QED  BY <1>1, <2>1
  <1>5. PICK u : SumsTo(u, s, Len(s))
    BY <1>4
  <1>6. \A i \in 0..Len(s) : u[i] = IF i = 0 THEN 0 ELSE u[i - 1] + Drops(s[i])
    BY <1>1, <1>5 DEF SumsTo
  <1>7. u = [i \in 0..Len(s) |-> u[i]]
    BY <1>5 DEF SumsTo
  <1> QED  BY <1>6, <1>7 DEF Sums

\* The count is the last of the partial sums.
LEMMA OnWireSums ==
    ASSUME NEW s \in Seq(Events)
    PROVE  \E u : SumsTo(u, s, Len(s)) /\ OnWire(s) = u[Len(s)]
  <1> DEFINE u == CHOOSE u : Sums(u, s)
  <1>1. OnWire(s) = u[Len(s)]
    BY Zenon DEF OnWire, Sums, Drops
  <1>2. Sums(u, s)
    BY SumsExist
  <1> HIDE DEF u
  <1>3. Len(s) \in Nat /\ \A i \in 1..Len(s) : Drops(s[i]) \in Nat
    BY DropsType
  <1>4. DOMAIN u = 0..Len(s) /\ u[0] = 0
    BY <1>2, <1>3 DEF Sums
  <1>5. \A i \in 1..Len(s) : u[i] = u[i - 1] + Drops(s[i])
    BY <1>2, <1>3 DEF Sums
  <1> DEFINE N == {i \in 0..Len(s) : u[i] \in Nat}
  <1>6. 0..Len(s) \subseteq N
    <2>1. 0 \in N
      BY <1>3, <1>4
    <2>2. \A i \in 1..Len(s) : i - 1 \in N => i \in N
      BY <1>3, <1>5
    <2> HIDE DEF N
    <2> QED  BY <1>3, <2>1, <2>2, UpTo
  <1>7. u \in [0..Len(s) -> Nat]
    <2>1. u = [i \in 0..Len(s) |-> u[i]]
      BY <1>2 DEF Sums
    <2> QED  BY <1>6, <2>1
  <1> QED  BY <1>1, <1>4, <1>5, <1>7 DEF SumsTo

\* u holds the sums of the n events of s, w those of the m events of t: the same,
\* after k others.
Shifted(u, s, n, w, t, m, k) ==
    /\ n \in Nat /\ k \in Nat /\ m = n + k
    /\ SumsTo(u, s, n) /\ SumsTo(w, t, m)
    /\ \A i \in 1..n : Drops(s[i]) \in Nat /\ s[i] = t[i + k]

\* Partial sums of the same events are the same.
LEMMA SumsAgree ==
    ASSUME NEW u, NEW s, NEW n, NEW w, NEW t, NEW m, NEW k,
           Shifted(u, s, n, w, t, m, k)
    PROVE  w[m] = w[k] + u[n]
  <1> USE DEF Shifted
  <1> DEFINE S == {i \in 0..n : w[i + k] = w[k] + u[i]}
  <1>1. 0 \in S
    <2>1. u[0] = 0 /\ w[k] \in Nat /\ 0 + k = k
      BY DEF SumsTo
    <2> QED  BY <2>1
  <1>2. ASSUME NEW i \in 1..n, i - 1 \in S PROVE i \in S
    <2>1. w[i + k] = w[i + k - 1] + Drops(t[i + k])
      BY DEF SumsTo
    <2>2. u[i] = u[i - 1] + Drops(s[i]) /\ s[i] = t[i + k]
          /\ Drops(s[i]) \in Nat
      BY DEF SumsTo
    <2>3. w[(i - 1) + k] = w[k] + u[i - 1] /\ (i - 1) + k = i + k - 1
      BY <1>2
    <2>4. u[i] \in Nat /\ u[i - 1] \in Nat /\ w[k] \in Nat /\ w[i + k] \in Nat
          /\ w[i + k - 1] \in Nat
      <3>1. /\ i \in 0..n /\ i - 1 \in 0..n
            /\ k \in 0..m /\ i + k \in 0..m /\ i + k - 1 \in 0..m
        OBVIOUS
      <3>2. u \in [0..n -> Nat] /\ w \in [0..m -> Nat]
        BY DEF SumsTo
      <3> QED  BY <3>1, <3>2
    <2>5. w[i + k - 1] = w[k] + u[i - 1]
      BY <2>3
    <2>6. w[i + k] = w[k] + u[i]
      BY <2>1, <2>2, <2>4, <2>5
    <2>7. i \in 0..n
      OBVIOUS
    <2> QED  BY <2>6, <2>7
  <1>3. 0..n \subseteq S
    <2> HIDE DEF S
    <2> QED  BY <1>1, <1>2, UpTo
  <1> QED  BY <1>3

\* An empty wire tells of no drop.
LEMMA OnWireEmpty == OnWire(<< >>) = 0
  <1>1. << >> \in Seq(Events) /\ Len(<< >>) = 0
    OBVIOUS
  <1> QED  BY <1>1, OnWireSums DEF SumsTo

\* What a wire tells of is a number.
LEMMA OnWireType == ASSUME NEW s \in Seq(Events) PROVE OnWire(s) \in Nat
  <1>1. PICK u : SumsTo(u, s, Len(s)) /\ OnWire(s) = u[Len(s)]
    BY OnWireSums
  <1>2. Len(s) \in Nat /\ Len(s) \in 0..Len(s)
    OBVIOUS
  <1> QED  BY <1>1, <1>2 DEF SumsTo

\* An event that is written adds what it says.
LEMMA OnWireAppend ==
    ASSUME NEW s \in Seq(Events), NEW e \in Events
    PROVE  OnWire(Append(s, e)) = OnWire(s) + Drops(e)
  <1> DEFINE t == Append(s, e)
  <1>1. /\ Len(s) \in Nat /\ t \in Seq(Events) /\ Len(t) = Len(s) + 1
        /\ t[Len(s) + 1] = e /\ \A i \in 1..Len(s) : s[i] = t[i]
    OBVIOUS
  <1> HIDE DEF t
  <1>2. PICK u : SumsTo(u, s, Len(s)) /\ OnWire(s) = u[Len(s)]
    BY OnWireSums
  <1>3. PICK w : SumsTo(w, t, Len(t)) /\ OnWire(t) = w[Len(t)]
    BY <1>1, OnWireSums
  <1>4. /\ SumsTo(w, t, Len(s) + 1) /\ OnWire(t) = w[Len(s) + 1]
        /\ w[Len(s) + 1] = w[Len(s)] + Drops(e)
    <2>1. Len(s) + 1 \in 1..Len(s) + 1 /\ (Len(s) + 1) - 1 = Len(s)
      BY <1>1
    <2> QED  BY <1>1, <1>3, <2>1 DEF SumsTo
  <1> DEFINE v == [i \in 0..Len(s) |-> w[i]]
  <1>5. SumsTo(v, t, Len(s)) /\ v[0] = 0 /\ v[Len(s)] = w[Len(s)] /\ Len(s) = Len(s) + 0
    <2>1. Len(s) + 0 = Len(s) /\ Len(s) \in 0..Len(s) /\ 0 \in 0..Len(s)
      BY <1>1
    <2>2. \A i \in 0..Len(s) : i \in 0..Len(s) + 1
      BY <1>1
    <2>3. \A i \in 1..Len(s) : i \in 1..Len(s) + 1 /\ i \in 0..Len(s) /\ i - 1 \in 0..Len(s)
      BY <1>1
    <2>4. v \in [0..Len(s) -> Nat]
      BY <1>4, <2>2 DEF SumsTo
    <2>5. \A i \in 1..Len(s) : v[i] = v[i - 1] + Drops(t[i])
      BY <1>4, <2>3 DEF SumsTo
    <2>6. v[0] = 0 /\ v[Len(s)] = w[Len(s)]
      BY <1>4, <2>1 DEF SumsTo
    <2> HIDE DEF v
    <2> QED  BY <2>1, <2>4, <2>5, <2>6 DEF SumsTo
  <1> HIDE DEF v
  <1>6. \A i \in 1..Len(s) : s[i] = t[i + 0]
    BY <1>1
  <1>7. v[Len(s)] = v[0] + u[Len(s)]
    <2> DEFINE k == 0
    <2>1. Shifted(u, s, Len(s), v, t, Len(s), k)
      <3>1. \A i \in 1..Len(s) : Drops(s[i]) \in Nat
        BY <1>1, DropsType
      <3> QED  BY <1>1, <1>2, <1>5, <1>6, <3>1 DEF Shifted
    <2> HIDE DEF k
    <2>2. v[Len(s)] = v[k] + u[Len(s)]
      BY <2>1, SumsAgree
    <2> QED  BY <2>2 DEF k
  <1>8. u[Len(s)] \in Nat
    BY <1>1, <1>2 DEF SumsTo
  <1> QED  BY <1>2, <1>4, <1>5, <1>7, <1>8 DEF t

\* An event that is read takes away what it says.
LEMMA OnWireTail ==
    ASSUME NEW s \in Seq(Events), s # << >>
    PROVE  OnWire(s) = OnWire(Tail(s)) + Drops(Head(s))
  <1> DEFINE t == Tail(s)
  <1>1. /\ Len(t) \in Nat /\ t \in Seq(Events) /\ Len(s) = Len(t) + 1
        /\ Head(s) = s[1] /\ \A i \in 1..Len(t) : t[i] = s[i + 1]
    OBVIOUS
  <1> HIDE DEF t
  <1>2. PICK u : SumsTo(u, t, Len(t)) /\ OnWire(t) = u[Len(t)]
    BY <1>1, OnWireSums
  <1>3. PICK w : SumsTo(w, s, Len(t) + 1) /\ OnWire(s) = w[Len(t) + 1]
    BY <1>1, OnWireSums
  <1> DEFINE n == Len(t) + 1
  <1>4. w[n] = w[1] + u[Len(t)]
    <2> DEFINE k == 1
    <2>1. Shifted(u, t, Len(t), w, s, n, k)
      <3>1. \A i \in 1..Len(t) : Drops(t[i]) \in Nat
        BY <1>1, DropsType
      <3> QED  BY <1>1, <1>2, <1>3, <3>1 DEF Shifted
    <2> HIDE DEF n, k
    <2>2. w[n] = w[k] + u[Len(t)]
      BY <2>1, SumsAgree
    <2> QED  BY <2>2 DEF k
  <1>5. w[1] = Drops(Head(s)) /\ w[1] \in Nat /\ u[Len(t)] \in Nat
    <2>1. 1 \in 1..Len(t) + 1 /\ 1 - 1 = 0 /\ 1 \in 0..Len(t) + 1
      BY <1>1
    <2>2. w[1] = w[0] + Drops(Head(s)) /\ w[0] = 0 /\ w[1] \in Nat
      BY <1>1, <1>3, <2>1 DEF SumsTo
    <2>3. Drops(Head(s)) \in Nat
      BY <1>1 DEF Drops, Events, Message
    <2>4. u[Len(t)] \in Nat
      BY <1>1, <1>2 DEF SumsTo
    <2> QED  BY <2>2, <2>3, <2>4
  <1> QED  BY <1>2, <1>3, <1>4, <1>5 DEF t

-----------------------------------------------------------------------------
(* The inductive invariant                                                 *)

\* The initial state satisfies the invariant.
LEMMA InitFeed == Init => FeedInv
  <1> SUFFICES ASSUME Init PROVE FeedInv
    OBVIOUS
  <1> USE DEF Init
  <1>1. TypeOK
    BY LiveFeedAssumption DEF TypeOK, Streams
  <1>2. StreamInv
    BY DEF StreamInv, StreamOK, Streams
  <1>3. RowsInv
    BY DEF RowsInv, Distinct
  <1>4. DropsInv
    BY DEF DropsInv, DropsOK, Known
  <1>5. ToldInv /\ OwedInv
    <2>1. \A s \in Streams : Range(queue[s]) \cup Range(wire[s]) = {}
      BY DEF Range
    <2>2. \A v \in Viewers : owed[v] = {}
      OBVIOUS
    <2> QED  BY <2>1, <2>2 DEF ToldInv, OwedInv, OwedOK
  <1> QED  BY <1>1, <1>2, <1>3, <1>4, <1>5 DEF FeedInv

\* The latest stream of a viewer that has one is a stream.
LEMMA CurrentStream ==
    ASSUME TypeOK, NEW v \in Viewers
    PROVE  /\ Current(v)[1] = v /\ Current(v)[2] = opened[v]
           /\ opened[v] \in Nat
           /\ opened[v] > 0 => Current(v) \in Streams
           /\ \A s \in Streams : s[1] = v /\ s[2] = opened[v] => s = Current(v)
  BY LiveFeedAssumption DEF TypeOK, Streams, Current

\* The broker drops a message for finitely many streams of a viewer; for one at
\* least if its latest is among them, and for no other if it has had no other.
LEMMA DroppedFor ==
    ASSUME TypeOK, StreamInv, NEW v \in Viewers
    PROVE  LET D == {s \in subs : s[1] = v /\ ~HasRoom(s)} IN
           /\ Cardinality(D) \in Nat
           /\ opened[v] > 0 /\ Current(v) \in subs /\ ~HasRoom(Current(v)) =>
                 Cardinality(D) > 0
           /\ opened[v] = 0 => D = {}
           /\ opened[v] = 1 =>
                 Cardinality(D) = IF Current(v) \in subs /\ ~HasRoom(Current(v))
                                  THEN 1 ELSE 0
  <1> DEFINE D == {s \in subs : s[1] = v /\ ~HasRoom(s)}
  <1>1. IsFiniteSet(D)
    <2>1. IsFiniteSet({v} \X (1..MaxStreams))
      <3> DEFINE A == {v}
                 B == 1..MaxStreams
      <3>1. IsFiniteSet(A) /\ IsFiniteSet(B)
        <4>1. IsFiniteSet(A)
          BY FS_Singleton
        <4>2. MaxStreams \in Int
          BY LiveFeedAssumption
        <4>3. IsFiniteSet(B)
          BY <4>2, FS_Interval
        <4> QED  BY <4>1, <4>3
      <3> HIDE DEF A, B
      <3>2. IsFiniteSet(A \X B)
        BY <3>1, FS_Product, Zenon
      <3> QED  BY <3>2 DEF A, B
    <2>2. D \subseteq {v} \X (1..MaxStreams)
      BY DEF TypeOK, Streams
    <2> HIDE DEF D
    <2> QED  BY <2>1, <2>2, FS_Subset
  <1>2. \A s \in D : s \in Streams /\ s[1] = v /\ s[2] \in 1..MaxStreams /\ s[2] <= opened[v]
    <2> SUFFICES ASSUME NEW s \in D
                 PROVE  s \in Streams /\ s[1] = v /\ s[2] \in 1..MaxStreams /\ s[2] <= opened[v]
      OBVIOUS
    <2>1. s \in Streams /\ s[1] = v /\ s \in subs
      BY DEF TypeOK
    <2>2. s[2] \in 1..MaxStreams /\ opened[v] \in Nat
      BY <2>1, CurrentStream DEF Streams
    <2>3. ~(opened[v] < s[2])
      BY <2>1 DEF StreamInv, StreamOK
    <2> QED  BY <2>1, <2>2, <2>3, LiveFeedAssumption
  <1>3. opened[v] \in Nat
    BY CurrentStream
  <1>4. opened[v] > 0 /\ Current(v) \in subs /\ ~HasRoom(Current(v)) => Current(v) \in D
    BY CurrentStream
  <1>5. opened[v] = 1 => \A s \in D : s = Current(v)
    BY <1>2, CurrentStream
  <1>6. opened[v] = 0 => D = {}
    BY <1>2, LiveFeedAssumption
  <1>7. Current(v) \in D => Current(v) \in subs /\ ~HasRoom(Current(v))
    OBVIOUS
  <1> HIDE DEF D
  <1>8. Cardinality(D) \in Nat
    BY <1>1, FS_CardinalityType
  <1>9. D # {} => Cardinality(D) > 0
    BY <1>1, <1>8, FS_EmptySet
  <1>10. D = {} => Cardinality(D) = 0
    BY FS_EmptySet
  <1>11. D = {Current(v)} => Cardinality(D) = 1
    BY FS_Singleton
  <1>12. opened[v] = 1 => D = {} \/ D = {Current(v)}
    BY <1>5
  <1>13. opened[v] = 1 => Cardinality(D) = IF Current(v) \in subs /\ ~HasRoom(Current(v))
                                           THEN 1 ELSE 0
    <2>1. CASE Current(v) \in D
      BY <1>7, <1>11, <1>12, <2>1
    <2>2. CASE Current(v) \notin D
      BY <1>3, <1>4, <1>10, <1>12, <2>2
    <2> QED  BY <2>1, <2>2
  <1> QED  BY <1>4, <1>6, <1>8, <1>9, <1>13 DEF D

\* Publish keeps the types of what it changes.
LEMMA PublishType ==
    ASSUME TypeOK, StreamInv, NEW m \in Message, Publish(m)
    PROVE  /\ subs' \subseteq Streams
           /\ queue' \in [Streams -> Seq(Message)]
           /\ \A s \in Streams : Len(queue'[s]) <= Buffer
           /\ dropped' \in [Streams -> Nat]
           /\ lost' \in [Viewers -> Nat]
           /\ owed' \in [Viewers -> SUBSET Message]
  <1> USE DEF Publish
  <1>1. ASSUME NEW s \in Streams
        PROVE  queue'[s] \in Seq(Message) /\ Len(queue'[s]) <= Buffer /\ dropped'[s] \in Nat
    <2>1. queue[s] \in Seq(Message) /\ Len(queue[s]) \in Nat /\ Len(queue[s]) <= Buffer
      BY DEF TypeOK
    <2>2. Append(queue[s], m) \in Seq(Message) /\ Len(Append(queue[s], m)) = Len(queue[s]) + 1
      BY <2>1
    <2>3. HasRoom(s) => Len(queue[s]) + 1 <= Buffer
      BY <2>1, LiveFeedAssumption DEF HasRoom
    <2>4. dropped[s] \in Nat /\ dropped[s] + 1 \in Nat
      BY DEF TypeOK
    <2>5. /\ queue'[s] = IF s \in subs /\ HasRoom(s) THEN Append(queue[s], m) ELSE queue[s]
          /\ dropped'[s] = IF s \in subs /\ ~HasRoom(s) THEN dropped[s] + 1 ELSE dropped[s]
      OBVIOUS
    <2> QED  BY <2>1, <2>2, <2>3, <2>4, <2>5
  <1>2. queue' \in [Streams -> Seq(Message)] /\ dropped' \in [Streams -> Nat]
    BY <1>1
  <1>3. ASSUME NEW v \in Viewers
        PROVE  lost[v] + Cardinality({s \in subs : s[1] = v /\ ~HasRoom(s)}) \in Nat
    <2> DEFINE n == Cardinality({s \in subs : s[1] = v /\ ~HasRoom(s)})
    <2>1. n \in Nat
      BY DroppedFor
    <2> HIDE DEF n
    <2>2. lost[v] + n \in Nat
      BY <2>1 DEF TypeOK
    <2> QED  BY <2>2 DEF n
  <1>4. lost' \in [Viewers -> Nat]
    BY <1>3
  <1>5. owed' \in [Viewers -> SUBSET Message]
    BY DEF TypeOK
  <1> QED  BY <1>1, <1>2, <1>4, <1>5 DEF TypeOK

\* Every step keeps the types.
LEMMA TypeStep == FeedInv /\ Next => TypeOK'
  <1> SUFFICES ASSUME FeedInv, Next PROVE TypeOK'
    OBVIOUS
  <1> USE DEF FeedInv
  <1>1. ASSUME NEW c \in Captures, NEW a, NEW b \in {"stored", "announced", "recorded", "done"},
               Advance(c, a, b)
        PROVE  stage' \in [Captures -> {"new", "stored", "announced", "recorded", "done"}]
    BY <1>1 DEF Advance, TypeOK
  <1>2. ASSUME NEW c \in Captures, InsertRow(c) PROVE TypeOK'
    <2>1. << c >> \o table \in Seq(Captures)
      BY DEF TypeOK
    <2> QED  BY <1>1, <1>2, <2>1 DEF InsertRow, TypeOK, broker, server, network, browser, history
  <1>3. ASSUME NEW c \in Captures, PublishCapture(c) PROVE TypeOK'
    <2>1. [event |-> "capture", id |-> c] \in Message
      BY DEF Message
    <2> QED  BY <1>1, <1>3, <2>1, PublishType DEF PublishCapture, TypeOK, server, network, browser
  <1>4. ASSUME NEW c \in Captures, RecordOutcome(c) PROVE TypeOK'
    BY <1>1, <1>4 DEF RecordOutcome, TypeOK, broker, server, network, browser, history
  <1>5. ASSUME NEW c \in Captures, PublishDelivery(c) PROVE TypeOK'
    <2>1. [event |-> "delivery", id |-> c] \in Message
      BY DEF Message
    <2> QED  BY <1>1, <1>5, <2>1, PublishType DEF PublishDelivery, TypeOK, server, network, browser
  <1>6. ASSUME NEW s \in Streams, Subscribe(s) PROVE TypeOK'
    BY <1>6 DEF Subscribe, TypeOK, network, browser, history
  <1>7. ASSUME NEW s \in Streams, NEW e \in Events, WriteEvent(s, e)
        PROVE  wire' \in [Streams -> Seq(Events)]
    BY <1>7 DEF WriteEvent, TypeOK, Events
  <1>8. ASSUME NEW s \in Streams, ForwardEvent(s) PROVE TypeOK'
    <2>1. /\ Head(queue[s]) \in Message /\ Tail(queue[s]) \in Seq(Message)
          /\ Len(Tail(queue[s])) <= Buffer
      <3>1. queue[s] \in Seq(Message) /\ queue[s] # << >> /\ Len(queue[s]) <= Buffer
        BY <1>8 DEF ForwardEvent, TypeOK
      <3>2. Len(queue[s]) \in Nat /\ Buffer \in Nat
        BY <3>1, LiveFeedAssumption
      <3> QED  BY <3>1, <3>2, TailSequence
    <2>2. wire' \in [Streams -> Seq(Events)]
      BY <1>7, <1>8, <2>1 DEF ForwardEvent, Events
    <2>3. queue' \in [Streams -> Seq(Message)] /\ \A t \in Streams : Len(queue'[t]) <= Buffer
      BY <1>8, <2>1 DEF ForwardEvent, TypeOK
    <2> QED  BY <1>8, <2>2, <2>3 DEF ForwardEvent, TypeOK, server, browser, history, Events
  <1>9. ASSUME NEW s \in Streams, ReportDrops(s) PROVE TypeOK'
    <2>1. [event |-> "dropped", count |-> NewDrops(s)] \in Events
      BY <1>9 DEF ReportDrops, DropsSince, NewDrops, TypeOK, Events
    <2>2. wire' \in [Streams -> Seq(Events)]
      BY <1>7, <1>9, <2>1 DEF ReportDrops
    <2>3. reported' \in [Streams -> Nat]
      BY <1>9 DEF ReportDrops, TypeOK
    <2> QED  BY <1>9, <2>2, <2>3 DEF ReportDrops, TypeOK, broker, browser, history, Events
  <1>10. ASSUME NEW s \in Streams, ReturnFrom(s) PROVE TypeOK'
    <2>1. queue' \in [Streams -> Seq(Message)] /\ \A t \in Streams : Len(queue'[t]) <= Buffer
      <3>1. << >> \in Seq(Message) /\ Len(<< >>) <= Buffer
        BY LiveFeedAssumption
      <3> QED  BY <1>10, <3>1 DEF ReturnFrom, TypeOK
    <2> QED  BY <1>10, <2>1 DEF ReturnFrom, Unsubscribed, TypeOK, network, browser, history
  <1>11. ASSUME NEW v \in Viewers, OpenStream(v) PROVE TypeOK'
    <2>1. opened[v] + 1 \in 0..MaxStreams
      BY <1>11, LiveFeedAssumption DEF OpenStream, TypeOK
    <2> QED  BY <1>11, <2>1 DEF OpenStream, TypeOK, broker, browser, history
  <1>12. ASSUME NEW v \in Viewers, BreakStream(v) PROVE TypeOK'
    <2>1. << >> \in Seq(Events)
      OBVIOUS
    <2>2. wire' \in [Streams -> Seq(Events)]
      BY <1>12, <2>1 DEF BreakStream, TypeOK, Events
    <2> QED  BY <1>12, <2>2 DEF BreakStream, TypeOK, broker, server, browser, Events
  <1>13. ASSUME NEW v \in Viewers, ServeList(v) PROVE TypeOK'
    <2> DEFINE p == [i \in DOMAIN table |->
                       [id |-> table[i], outcome |-> stage[table[i]] \in {"recorded", "done"}]]
    <2>1. /\ DOMAIN table = 1..Len(table) /\ Len(table) \in Nat
          /\ \A i \in 1..Len(table) : table[i] \in Captures
      BY DEF TypeOK
    <2>2. p \in Seq(Row)
      <3>1. p \in [1..Len(table) -> Row]
        BY <2>1 DEF Row
      <3> HIDE DEF p
      <3> QED  BY <2>1, <3>1
    <2>3. page' = [page EXCEPT ![v] = p]
      BY <1>13 DEF ServeList
    <2> HIDE DEF p
    <2>4. page' \in [Viewers -> Seq(Row)]
      BY <2>2, <2>3 DEF TypeOK
    <2> QED  BY <1>13, <2>4 DEF ServeList, TypeOK, broker, server, network, history
  <1>14. ASSUME NEW v \in Viewers, ListArrives(v) PROVE TypeOK'
    <2>1. << >> \in Seq(Row)
      OBVIOUS
    <2> QED  BY <1>14, <2>1 DEF ListArrives, TypeOK, broker, server, network, history
  <1>15. ASSUME NEW v \in Viewers, Refetch(v) PROVE TypeOK'
    <2>1. << >> \in Seq(Row)
      OBVIOUS
    <2>2. refetches[v] + 1 \in 0..MaxRefetches
      BY <1>15, LiveFeedAssumption DEF Refetch, TypeOK
    <2> QED  BY <1>15, <2>1, <2>2 DEF Refetch, TypeOK, broker, server, network
  <1>16. ASSUME NEW v \in Viewers, ReadEvent(v) PROVE TypeOK'
    <2> DEFINE s == Current(v)
               e == Head(wire[s])
    <2>1. s \in Streams
      BY <1>16, CurrentStream DEF ReadEvent, StreamInv, StreamOK
    <2>2. wire[s] \in Seq(Events) /\ wire[s] # << >>
      BY <1>16, <2>1 DEF ReadEvent, TypeOK, Events
    <2>3. e \in Events /\ Tail(wire[s]) \in Seq(Events)
      BY <2>2, TailSequence
    <2>4. wire' = [wire EXCEPT ![s] = Tail(@)]
      BY <1>16 DEF ReadEvent
    <2>5. wire' \in [Streams -> Seq(Events)]
      BY <2>1, <2>3, <2>4 DEF TypeOK, Events
    <2>6. shown' \in [Viewers -> Nat] /\ list' \in [Viewers -> Seq(Row)]
      <3>1. CASE e.event = "dropped" /\ shown' = [shown EXCEPT ![v] = @ + e.count] /\ UNCHANGED list
        <4>1. e.count \in Nat
          BY <2>3, <3>1 DEF Events, Message
        <4> HIDE DEF e
        <4>2. shown[v] \in Nat
          BY DEF TypeOK
        <4>3. shown[v] + e.count \in Nat
          BY <4>1, <4>2
        <4> QED  BY <3>1, <4>3 DEF TypeOK
      <3>2. CASE /\ e.event = "capture" /\ UNCHANGED shown
                 /\ list' = [list EXCEPT ![v] = IF loaded[v] THEN Prepended(@, e.id) ELSE @]
        <4>1. e.id \in Captures
          BY <2>3, <3>2 DEF Events, Message
        <4>2. Prepended(list[v], e.id) \in Seq(Row)
          BY <4>1, PrependedRows DEF TypeOK
        <4> QED  BY <3>2, <4>2 DEF TypeOK
      <3>3. CASE /\ e.event = "delivery" /\ UNCHANGED shown
                 /\ list' = [list EXCEPT ![v] = IF loaded[v] THEN Patched(@, e.id) ELSE @]
        <4>1. e.id \in Captures
          BY <2>3, <3>3 DEF Events, Message
        <4>2. Patched(list[v], e.id) \in Seq(Row)
          BY <4>1, PatchedRows DEF TypeOK
        <4> QED  BY <3>3, <4>2 DEF TypeOK
      <3> QED  BY <1>16, <3>1, <3>2, <3>3 DEF ReadEvent
    <2> HIDE DEF s, e
    <2> QED  BY <1>16, <2>5, <2>6 DEF ReadEvent, TypeOK, broker, server, history, Events
  <1> QED  BY <1>2, <1>3, <1>4, <1>5, <1>6, <1>8, <1>9, <1>10, <1>11, <1>12, <1>13, <1>14,
              <1>15, <1>16 DEF Next, CaptureStep, StreamStep, ViewerStep

\* A stream is a viewer and a number.
LEMMA StreamParts ==
    ASSUME NEW s \in Streams
    PROVE  s[1] \in Viewers /\ s[2] \in Nat /\ s[2] > 0 /\ s = <<s[1], s[2]>>
  BY LiveFeedAssumption DEF Streams

\* Every step keeps the life of the streams.
LEMMA StreamStepInv == FeedInv /\ Next => StreamInv'
  <1> SUFFICES ASSUME FeedInv, Next PROVE StreamInv'
    OBVIOUS
  <1> USE DEF FeedInv
  <1>1. ASSUME UNCHANGED <<broker, server, network>> PROVE StreamInv'
    BY <1>1 DEF StreamInv, StreamOK, broker, server, network
  <1>2. ASSUME NEW m \in Message, Publish(m), UNCHANGED <<server, network>> PROVE StreamInv'
    <2> SUFFICES ASSUME NEW s \in Streams
                 PROVE  /\ s \notin subs => queue'[s] = queue[s] /\ dropped'[s] = dropped[s]
                        /\ dropped'[s] \in {dropped[s], dropped[s] + 1}
      BY <1>2 DEF StreamInv, StreamOK, TypeOK, Publish, server, network
    <2> QED  BY <1>2 DEF Publish
  <1>3. ASSUME NEW s \in Streams, Subscribe(s) PROVE StreamInv'
    BY <1>3 DEF Subscribe, StreamInv, StreamOK, TypeOK, network
  <1>4. ASSUME NEW s \in Streams, ForwardEvent(s) PROVE StreamInv'
    BY <1>4 DEF ForwardEvent, WriteEvent, StreamInv, StreamOK, TypeOK, server
  <1>5. ASSUME NEW s \in Streams, ReportDrops(s) PROVE StreamInv'
    BY <1>5 DEF ReportDrops, WriteEvent, StreamInv, StreamOK, TypeOK, broker
  <1>6. ASSUME NEW s \in Streams, ReturnFrom(s) PROVE StreamInv'
    BY <1>6 DEF ReturnFrom, Unsubscribed, StreamInv, StreamOK, TypeOK, network
  <1>7. ASSUME NEW v \in Viewers, OpenStream(v) PROVE StreamInv'
    <2> DEFINE t == <<v, opened[v] + 1>>
    <2>1. /\ ~reading[v] /\ opened[v] \in Nat /\ opened' = [opened EXCEPT ![v] = @ + 1]
          /\ reading' = [reading EXCEPT ![v] = TRUE] /\ up' = [up EXCEPT ![t] = TRUE]
          /\ handler' = [handler EXCEPT ![t] = "opened"]
          /\ UNCHANGED <<broker, reported, wire>>
      BY <1>7, CurrentStream DEF OpenStream
    <2>2. \A s \in Streams : s = t <=> (s[1] = v /\ s[2] = opened[v] + 1)
      BY StreamParts
    <2> HIDE DEF t
    <2>3. \A s \in Streams : s[1] \in Viewers /\ s[2] \in Nat /\ s[2] > 0
      BY StreamParts
    <2>4. \A w \in Viewers : opened[w] \in Nat
      BY CurrentStream
    <2>5. \A w \in Viewers : opened'[w] = IF w = v THEN opened[w] + 1 ELSE opened[w]
      BY <2>1 DEF TypeOK
    <2>6. \A w \in Viewers : reading'[w] => opened'[w] > 0
      BY <2>1, <2>4, <2>5 DEF StreamInv, StreamOK, TypeOK
    <2>7. ASSUME NEW s \in Streams PROVE StreamOK(s)'
      <3>1. /\ up'[s] = (s = t \/ up[s]) /\ handler'[s] = IF s = t THEN "opened" ELSE handler[s]
            /\ wire'[s] = wire[s] /\ (s \in subs' <=> s \in subs) /\ queue'[s] = queue[s]
            /\ dropped'[s] = dropped[s] /\ reported'[s] = reported[s]
            /\ reading'[s[1]] = (s[1] = v \/ reading[s[1]])
        BY <2>1, <2>3 DEF TypeOK, broker
      <3>2. StreamOK(s)
        BY DEF StreamInv
      <3>3. s[1] \in Viewers /\ s[2] \in Nat /\ opened[s[1]] \in Nat
        BY <2>3, <2>4
      <3>4. opened'[s[1]] = IF s[1] = v THEN opened[s[1]] + 1 ELSE opened[s[1]]
        BY <2>5, <3>3
      <3>5. s = t <=> (s[1] = v /\ s[2] = opened[v] + 1)
        BY <2>2
      <3>6. CASE s[1] = v /\ s[2] = opened[v] + 1
        <4>1. /\ s = t /\ opened'[s[1]] = opened[s[1]] + 1 /\ opened[s[1]] < s[2]
              /\ ~(opened'[s[1]] < s[2]) /\ s[2] = opened'[s[1]]
          BY <3>3, <3>4, <3>5, <3>6
        <4>2. handler[s] = "none" /\ ~up[s]
          BY <2>1, <3>2, <3>3, <3>6, <4>1 DEF StreamOK
        <4> QED  BY <3>1, <3>2, <3>6, <4>1, <4>2 DEF StreamOK
      <3>7. CASE s[1] = v /\ s[2] # opened[v] + 1
        BY <2>1, <3>1, <3>2, <3>3, <3>4, <3>5, <3>7 DEF StreamOK
      <3>8. CASE s[1] # v
        BY <3>1, <3>2, <3>3, <3>4, <3>5, <3>8 DEF StreamOK
      <3> QED  BY <3>6, <3>7, <3>8
    <2> QED  BY <2>6, <2>7 DEF StreamInv
  <1>8. ASSUME NEW v \in Viewers, BreakStream(v) PROVE StreamInv'
    <2> DEFINE t == Current(v)
    <2>1. /\ reading' = [reading EXCEPT ![v] = FALSE] /\ up' = [up EXCEPT ![t] = FALSE]
          /\ wire' = [wire EXCEPT ![t] = << >>]
          /\ UNCHANGED <<broker, server, opened>>
      BY <1>8 DEF BreakStream
    <2>2. \A s \in Streams : s = t <=> (s[1] = v /\ s[2] = opened[v])
      BY CurrentStream
    <2> HIDE DEF t
    <2>3. ASSUME NEW s \in Streams PROVE StreamOK(s)'
      <3>1. /\ up'[s] = (s # t /\ up[s]) /\ handler'[s] = handler[s]
            /\ wire'[s] = IF s = t THEN << >> ELSE wire[s]
            /\ (s \in subs' <=> s \in subs) /\ queue'[s] = queue[s]
            /\ dropped'[s] = dropped[s] /\ reported'[s] = reported[s]
            /\ opened'[s[1]] = opened[s[1]]
        BY <2>1 DEF TypeOK, broker, server
      <3>2. reading'[s[1]] = (s[1] # v /\ reading[s[1]])
        BY <2>1, StreamParts DEF TypeOK
      <3>3. StreamOK(s)
        BY DEF StreamInv
      <3>4. s = t <=> (s[1] = v /\ s[2] = opened[v])
        BY <2>2
      <3> QED  BY <3>1, <3>2, <3>3, <3>4 DEF StreamOK
    <2>4. \A w \in Viewers : reading'[w] => opened'[w] > 0
      BY <2>1 DEF StreamInv, TypeOK
    <2> QED  BY <2>3, <2>4 DEF StreamInv
  <1>9. ASSUME NEW v \in Viewers, ReadEvent(v) PROVE StreamInv'
    <2> DEFINE t == Current(v)
    <2>1. /\ wire' = [wire EXCEPT ![t] = Tail(@)] /\ wire[t] # << >>
          /\ UNCHANGED <<broker, server, up, opened, reading>>
      BY <1>9 DEF ReadEvent
    <2> HIDE DEF t
    <2>2. ASSUME NEW s \in Streams PROVE StreamOK(s)'
      <3>1. StreamOK(s)
        BY DEF StreamInv
      <3>2. ~up[s] => wire'[s] = << >>
        BY <2>1, <3>1 DEF StreamOK, TypeOK
      <3> QED  BY <2>1, <3>1, <3>2 DEF StreamOK, broker, server
    <2>3. \A w \in Viewers : reading'[w] => opened'[w] > 0
      BY <2>1 DEF StreamInv
    <2> QED  BY <2>2, <2>3 DEF StreamInv
  <1> QED
    BY <1>1, <1>2, <1>3, <1>4, <1>5, <1>6, <1>7, <1>8, <1>9
       DEF Next, CaptureStep, StreamStep, ViewerStep, Message, InsertRow, PublishCapture,
           RecordOutcome, PublishDelivery, ServeList, ListArrives, Refetch

\* Every step keeps the rows distinct.
LEMMA RowsStep == FeedInv /\ Next => RowsInv'
  <1> SUFFICES ASSUME FeedInv, Next PROVE RowsInv'
    OBVIOUS
  <1> USE DEF FeedInv
  <1>1. ASSUME NEW c \in Captures, NEW a, NEW b \in {"stored", "announced", "recorded", "done"},
               Advance(c, a, b)
        PROVE  \A x \in Captures : stage[x] # "new" \/ x = c => stage'[x] # "new"
    BY <1>1 DEF Advance, TypeOK
  <1>2. DOMAIN table = 1..Len(table) /\ Len(table) \in Nat /\ \A i \in 1..Len(table) : table[i] \in Captures
    BY DEF TypeOK
  <1>3. ASSUME UNCHANGED <<table, page, list>>,
               \A x \in Captures : stage[x] # "new" => stage'[x] # "new"
        PROVE  RowsInv'
    BY <1>2, <1>3 DEF RowsInv
  <1>4. ASSUME NEW c \in Captures, InsertRow(c) PROVE RowsInv'
    <2> DEFINE t == << c >> \o table
    <2>1. /\ Len(t) = Len(table) + 1 /\ DOMAIN t = 1..Len(table) + 1
          /\ t[1] = c /\ \A i \in 1..Len(table) : t[i + 1] = table[i]
      BY <1>2 DEF TypeOK
    <2>2. table' = t /\ UNCHANGED <<page, list>> /\ stage[c] = "new"
      BY <1>4 DEF InsertRow, Advance, browser
    <2> HIDE DEF t
    <2>3. \A x \in Captures : stage[x] # "new" \/ x = c => stage'[x] # "new"
      BY <1>1, <1>4 DEF InsertRow
    <2>4. \A i \in 1..Len(table) + 1 :
             i = 1 \/ (i - 1 \in 1..Len(table) /\ t[i] = table[i - 1])
      <3> SUFFICES ASSUME NEW i \in 1..Len(table) + 1, i # 1
                   PROVE  i - 1 \in 1..Len(table) /\ t[i] = table[i - 1]
        OBVIOUS
      <3>1. i - 1 \in 1..Len(table) /\ (i - 1) + 1 = i
        BY <1>2
      <3> QED  BY <2>1, <3>1
    <2>5. \A i \in 1..Len(table) : table[i] # c
      BY <1>2, <2>2 DEF RowsInv
    <2>6. \A i \in DOMAIN t : stage'[t[i]] # "new"
      BY <1>2, <2>1, <2>3, <2>4 DEF RowsInv
    <2>7. ASSUME NEW i \in DOMAIN t, NEW j \in DOMAIN t, t[i] = t[j] PROVE i = j
      <3>1. CASE i # 1 /\ j # 1
        <4>1. /\ i - 1 \in DOMAIN table /\ j - 1 \in DOMAIN table
              /\ table[i - 1] = table[j - 1]
          BY <1>2, <2>1, <2>4, <2>7, <3>1
        <4>2. i - 1 = j - 1
          BY <4>1 DEF RowsInv
        <4> QED  BY <1>2, <2>1, <4>2
      <3> QED  BY <1>2, <2>1, <2>4, <2>5, <2>7, <3>1
    <2> QED  BY <2>2, <2>6, <2>7 DEF RowsInv
  <1>5. ASSUME NEW v \in Viewers, ServeList(v) PROVE RowsInv'
    <2> DEFINE p == [i \in DOMAIN table |->
                       [id |-> table[i], outcome |-> stage[table[i]] \in {"recorded", "done"}]]
    <2>1. Distinct(p)
      BY DEF Distinct, RowsInv
    <2>2. page' = [page EXCEPT ![v] = p] /\ UNCHANGED <<stage, table, list>>
      BY <1>5 DEF ServeList
    <2> HIDE DEF p
    <2> QED  BY <1>2, <2>1, <2>2 DEF RowsInv, TypeOK
  <1>6. Distinct(<< >>)
    BY DEF Distinct
  <1>7. ASSUME NEW v \in Viewers, ListArrives(v) PROVE RowsInv'
    BY <1>2, <1>6, <1>7 DEF ListArrives, RowsInv, TypeOK
  <1>8. ASSUME NEW v \in Viewers, Refetch(v) PROVE RowsInv'
    BY <1>2, <1>6, <1>8 DEF Refetch, RowsInv, TypeOK
  <1>9. ASSUME NEW v \in Viewers, ReadEvent(v) PROVE RowsInv'
    <2> DEFINE e == Head(wire[Current(v)])
    <2>1. e \in Events
      <3>1. Current(v) \in Streams
        BY <1>9, CurrentStream DEF ReadEvent, StreamInv
      <3>2. wire[Current(v)] \in Seq(Events) /\ wire[Current(v)] # << >>
        BY <1>9, <3>1 DEF ReadEvent, TypeOK, Events
      <3> QED  BY <3>2, TailSequence
    <2>2. /\ UNCHANGED <<stage, table, page>>
          /\ \/ UNCHANGED list
             \/ /\ e.event = "capture"
                /\ list' = [list EXCEPT ![v] = IF loaded[v] THEN Prepended(@, e.id) ELSE @]
             \/ /\ e.event = "delivery"
                /\ list' = [list EXCEPT ![v] = IF loaded[v] THEN Patched(@, e.id) ELSE @]
      BY <1>9 DEF ReadEvent
    <2> HIDE DEF e
    <2>3. e.event \in {"capture", "delivery"} => e.id \in Captures
      BY <2>1 DEF Events, Message
    <2>4. \A w \in Viewers : Distinct(list'[w])
      <3> SUFFICES ASSUME NEW w \in Viewers PROVE Distinct(list'[w])
        OBVIOUS
      <3>1. Distinct(list[w]) /\ list[w] \in Seq(Row)
        BY DEF RowsInv, TypeOK
      <3>2. e.id \in Captures =>
               Distinct(Prepended(list[w], e.id)) /\ Distinct(Patched(list[w], e.id))
        BY <3>1, PrependedRows, PatchedRows
      <3>3. \/ list'[w] = list[w]
            \/ e.event = "capture" /\ list'[w] = Prepended(list[w], e.id)
            \/ e.event = "delivery" /\ list'[w] = Patched(list[w], e.id)
        BY <2>2 DEF TypeOK
      <3> QED  BY <2>3, <3>1, <3>2, <3>3
    <2> QED  BY <1>2, <2>2, <2>4 DEF RowsInv
  <1> QED
    BY <1>1, <1>3, <1>4, <1>5, <1>7, <1>8, <1>9
       DEF Next, CaptureStep, StreamStep, ViewerStep, PublishCapture, RecordOutcome,
           PublishDelivery, OpenStream, Subscribe, ForwardEvent, ReportDrops, ReturnFrom,
           BreakStream, browser

\* What is known is a number, of which each part is one.
LEMMA KnownParts ==
    ASSUME TypeOK, StreamInv, NEW v \in Viewers
    PROVE  LET c == Current(v)
               d == dropped[c] - reported[c]
           IN /\ Known(v) \in Nat /\ shown[v] \in Nat /\ lost[v] \in Nat
              /\ opened[v] = 0 => Known(v) = shown[v]
              /\ opened[v] # 0 =>
                    /\ c \in Streams
                    /\ wire[c] \in Seq(Events)
                    /\ OnWire(wire[c]) \in Nat
                    /\ d \in Nat /\ dropped[c] \in Nat /\ reported[c] \in Nat
                    /\ c \in subs => Known(v) = shown[v] + OnWire(wire[c]) + d
                    /\ c \notin subs => d = 0 /\ Known(v) = shown[v] + OnWire(wire[c])
  <1> DEFINE c == Current(v)
             d == dropped[c] - reported[c]
  <1>1. shown[v] \in Nat /\ lost[v] \in Nat
    BY DEF TypeOK
  <1>2. CASE opened[v] = 0
    BY <1>1, <1>2 DEF Known
  <1>3. CASE opened[v] # 0
    <2>1. c \in Streams
      BY <1>3, CurrentStream
    <2>2. wire[c] \in Seq(Events) /\ dropped[c] \in Nat /\ reported[c] \in Nat
      BY <2>1 DEF TypeOK, Events
    <2>3. reported[c] <= dropped[c] /\ (c \notin subs => dropped[c] = 0 /\ reported[c] = 0)
      BY <2>1 DEF StreamInv, StreamOK
    <2>4. d \in Nat /\ (c \notin subs => d = 0)
      BY <2>2, <2>3
    <2>5. OnWire(wire[c]) \in Nat
      BY <2>2, OnWireType
    <2>6. Known(v) = shown[v] + OnWire(wire[c]) + (IF c \in subs THEN d ELSE 0)
      BY <1>3 DEF Known
    <2> HIDE DEF c, d
    <2>7. c \in subs => Known(v) = shown[v] + OnWire(wire[c]) + d
      BY <2>6
    <2>8. c \notin subs => Known(v) = shown[v] + OnWire(wire[c])
      BY <1>1, <2>5, <2>6
    <2>9. Known(v) \in Nat
      BY <1>1, <2>4, <2>5, <2>7, <2>8
    <2> QED  BY <1>1, <1>3, <2>1, <2>2, <2>4, <2>5, <2>7, <2>8, <2>9 DEF c, d
  <1> QED  BY <1>2, <1>3

\* While a viewer opens no stream, only what happens to its latest one matters.
LEMMA KnownNext ==
    ASSUME NEW v \in Viewers, opened'[v] = opened[v]
    PROVE  LET c == Current(v) IN
           /\ opened[v] = 0 => Known(v)' = shown'[v]
           /\ opened[v] # 0 /\ c \in subs' =>
                 Known(v)' = shown'[v] + OnWire(wire'[c]) + (dropped'[c] - reported'[c])
           /\ opened[v] # 0 /\ c \notin subs' => Known(v)' = shown'[v] + OnWire(wire'[c]) + 0
  BY DEF Known, Current

\* Publishing counts each drop on both sides.
LEMMA PublishDrops ==
    ASSUME TypeOK, StreamInv, DropsInv, NEW m \in Message, Publish(m),
           UNCHANGED <<server, network, shown>>, NEW v \in Viewers
    PROVE  DropsOK(v)'
  <1> DEFINE c == Current(v)
             n == Cardinality({s \in subs : s[1] = v /\ ~HasRoom(s)})
  <1>1. lost'[v] = lost[v] + n
    BY DEF Publish
  <1>2. /\ n \in Nat
        /\ opened[v] > 0 /\ c \in subs /\ ~HasRoom(c) => n > 0
        /\ opened[v] = 0 => n = 0
        /\ opened[v] = 1 => n = IF c \in subs /\ ~HasRoom(c) THEN 1 ELSE 0
    BY DroppedFor, FS_EmptySet
  <1> HIDE DEF n
  <1>3. /\ opened' = opened /\ reading' = reading /\ subs' = subs /\ wire' = wire
        /\ reported' = reported /\ shown' = shown
    BY DEF Publish, server, network
  <1>4. DropsOK(v) /\ opened[v] \in Nat
    BY CurrentStream DEF DropsInv
  <1>5. CASE opened[v] = 0
    BY <1>1, <1>2, <1>3, <1>4, <1>5, KnownParts, KnownNext DEF DropsOK
  <1>6. CASE opened[v] # 0 /\ c \in subs /\ ~HasRoom(c)
    <2>1. dropped'[c] = dropped[c] + 1
      BY <1>6, KnownParts DEF Publish
    <2>2. Known(v)' = shown'[v] + OnWire(wire'[c]) + (dropped'[c] - reported'[c])
      BY <1>3, <1>6, KnownNext
    <2> DEFINE k == OnWire(wire[c])
               d == dropped[c]
               r == reported[c]
    <2>3. Known(v)' = shown[v] + k + ((d + 1) - r)
      BY <1>3, <2>1, <2>2
    <2>4. Known(v) = shown[v] + k + (d - r)
      BY <1>6, KnownParts
    <2>5. shown[v] \in Nat /\ k \in Nat /\ d \in Nat /\ r \in Nat
      BY <1>6, KnownParts
    <2> HIDE DEF k, d, r
    <2>6. Known(v)' = Known(v) + 1
      BY <2>3, <2>4, <2>5
    <2> QED  BY <1>1, <1>2, <1>3, <1>4, <1>6, <2>6, KnownParts DEF DropsOK
  <1>7. CASE opened[v] # 0 /\ ~(c \in subs /\ ~HasRoom(c))
    <2>1. dropped'[c] = dropped[c]
      BY <1>7, KnownParts DEF Publish
    <2>2. Known(v)' = Known(v)
      BY <1>3, <1>7, <2>1, KnownParts, KnownNext
    <2> QED  BY <1>1, <1>2, <1>3, <1>4, <1>7, <2>2, KnownParts DEF DropsOK
  <1> QED  BY <1>5, <1>6, <1>7

\* Every step keeps the count of drops.
LEMMA DropsStep == FeedInv /\ Next => DropsInv'
  <1> SUFFICES ASSUME FeedInv, Next, NEW v \in Viewers PROVE DropsOK(v)'
    BY DEF DropsInv
  <1> USE DEF FeedInv
  <1> DEFINE c == Current(v)
  <1>1. DropsOK(v) /\ opened[v] \in Nat
    BY CurrentStream DEF DropsInv
  <1>2. opened[v] # 0 => StreamOK(c) /\ (up[c] <=> reading[v])
    BY CurrentStream DEF StreamInv, StreamOK
  \* A step that opens no stream and drops no message.
  <1>3. ASSUME opened'[v] = opened[v], lost'[v] = lost[v], Known(v)' \in Int, Known(v)' <= Known(v),
               Known(v)' = Known(v) \/ ~reading'[v], reading'[v] => reading[v]
        PROVE  DropsOK(v)'
    BY <1>1, <1>3, KnownParts DEF DropsOK
  <1>4. ASSUME opened'[v] = opened[v], lost'[v] = lost[v], reading'[v] = reading[v],
               shown'[v] = shown[v], wire'[c] = wire[c], dropped'[c] = dropped[c],
               reported'[c] = reported[c], c \in subs' <=> c \in subs
        PROVE  DropsOK(v)'
    <2>1. Known(v)' = Known(v)
      BY <1>4, KnownParts, KnownNext
    <2> QED  BY <1>3, <1>4, <2>1, KnownParts
  <1>5. ASSUME UNCHANGED <<broker, server, network, shown, lost>> PROVE DropsOK(v)'
    BY <1>4, <1>5 DEF broker, server, network
  <1>6. ASSUME NEW x \in Captures, PublishCapture(x) PROVE DropsOK(v)'
    <2>1. [event |-> "capture", id |-> x] \in Message
      BY DEF Message
    <2> QED  BY <1>6, <2>1, PublishDrops DEF PublishCapture, browser
  <1>7. ASSUME NEW x \in Captures, PublishDelivery(x) PROVE DropsOK(v)'
    <2>1. [event |-> "delivery", id |-> x] \in Message
      BY DEF Message
    <2> QED  BY <1>7, <2>1, PublishDrops DEF PublishDelivery, browser
  <1>8. ASSUME NEW s \in Streams, Subscribe(s) PROVE DropsOK(v)'
    <2>1. /\ opened'[v] = opened[v] /\ lost'[v] = lost[v] /\ reading'[v] = reading[v]
          /\ shown'[v] = shown[v] /\ wire' = wire /\ dropped' = dropped /\ reported' = reported
          /\ subs' = subs \cup {s} /\ s \notin subs
      BY <1>8 DEF Subscribe, network, browser, history, StreamInv, StreamOK
    <2>2. CASE c = s
      <3>1. Known(v)' = Known(v)
        BY <2>1, <2>2, KnownParts, KnownNext
      <3> QED  BY <1>3, <2>1, <3>1, KnownParts
    <2>3. CASE c # s
      BY <1>4, <2>1, <2>3
    <2> QED  BY <2>2, <2>3
  <1>9. ASSUME NEW s \in Streams, ForwardEvent(s) PROVE DropsOK(v)'
    <2>1. /\ opened'[v] = opened[v] /\ lost'[v] = lost[v] /\ reading'[v] = reading[v]
          /\ shown'[v] = shown[v] /\ dropped' = dropped /\ reported' = reported
          /\ subs' = subs /\ wire' = [wire EXCEPT ![s] = IF up[s] THEN Append(@, Head(queue[s])) ELSE @]
      BY <1>9 DEF ForwardEvent, WriteEvent, server, browser, history
    <2>2. CASE c = s /\ up[s]
      <3> DEFINE e == Head(queue[s])
      <3>1. e \in Message
        BY <1>9, TailSequence DEF ForwardEvent, TypeOK
      <3>2. e \in Events /\ Drops(e) = 0
        BY <3>1 DEF Events, Message, Drops
      <3>3. wire'[c] = Append(wire[c], e) /\ wire[c] \in Seq(Events)
        BY <2>1, <2>2 DEF TypeOK, Events
      <3> HIDE DEF e
      <3>4. OnWire(wire'[c]) = OnWire(wire[c]) + 0
        BY <3>2, <3>3, OnWireAppend
      <3>5. Known(v)' = Known(v)
        BY <2>1, <3>4, KnownParts, KnownNext
      <3> QED  BY <1>3, <2>1, <3>5, KnownParts
    <2>3. CASE ~(c = s /\ up[s])
      <3>1. opened[v] # 0 => wire'[c] = wire[c]
        BY <2>1, <2>3, KnownParts DEF TypeOK
      <3>2. Known(v)' = Known(v)
        BY <2>1, <3>1, KnownParts, KnownNext
      <3> QED  BY <1>3, <2>1, <3>2, KnownParts
    <2> QED  BY <2>2, <2>3
  <1>10. ASSUME NEW s \in Streams, ReportDrops(s) PROVE DropsOK(v)'
    <2> DEFINE e == [event |-> "dropped", count |-> NewDrops(s)]
    <2>1. /\ opened'[v] = opened[v] /\ lost'[v] = lost[v] /\ reading'[v] = reading[v]
          /\ shown'[v] = shown[v] /\ dropped' = dropped /\ subs' = subs /\ s \in subs
          /\ reported' = [reported EXCEPT ![s] = dropped[s]]
          /\ wire' = [wire EXCEPT ![s] = IF up[s] THEN Append(@, e) ELSE @]
          /\ dropped[s] > reported[s]
      BY <1>10 DEF ReportDrops, WriteEvent, DropsSince, broker, browser, history, StreamInv, StreamOK
    <2>2. /\ dropped[s] \in Nat /\ reported[s] \in Nat /\ NewDrops(s) \in Nat
          /\ NewDrops(s) = dropped[s] - reported[s]
      BY <2>1 DEF NewDrops, TypeOK
    <2>3. e \in Events /\ Drops(e) = NewDrops(s)
      BY <2>2 DEF Events, Drops
    <2> HIDE DEF e
    <2>4. reported'[s] = dropped[s]
      BY <2>1 DEF TypeOK
    <2>5. CASE c = s /\ up[s] /\ opened[v] # 0
      <3>1. wire'[c] = Append(wire[c], e) /\ wire[c] \in Seq(Events)
        BY <2>1, <2>5 DEF TypeOK, Events
      <3>2. OnWire(wire'[c]) = OnWire(wire[c]) + NewDrops(s)
        BY <2>3, <3>1, OnWireAppend
      <3>3. Known(v)' = shown[v] + OnWire(wire'[c]) + 0
        <4>1. dropped'[c] - reported'[c] = 0
          BY <2>1, <2>2, <2>4, <2>5
        <4> QED  BY <2>1, <2>5, <4>1, KnownNext
      <3>4. Known(v) = shown[v] + OnWire(wire[c]) + NewDrops(s)
        BY <2>1, <2>2, <2>5, KnownParts
      <3>5. Known(v)' = Known(v)
        BY <2>2, <2>5, <3>2, <3>3, <3>4, KnownParts
      <3> QED  BY <1>3, <2>1, <3>5, KnownParts
    <2>6. CASE c = s /\ ~up[s] /\ opened[v] # 0
      <3>1. wire'[c] = wire[c]
        BY <2>1, <2>6 DEF TypeOK
      <3>2. Known(v)' \in Int /\ Known(v)' <= Known(v)
        <4>1. Known(v)' = shown'[v] + OnWire(wire'[c]) + (dropped'[c] - reported'[c])
          BY <2>1, <2>6, KnownNext
        <4> DEFINE k == OnWire(wire[c])
                   d == dropped[c]
                   r == reported[c]
        <4>2. Known(v)' = shown[v] + k + (d - d)
          BY <2>1, <2>4, <2>6, <3>1, <4>1
        <4>3. Known(v) = shown[v] + k + (d - r)
          BY <2>1, <2>6, KnownParts
        <4>4. shown[v] \in Nat /\ k \in Nat /\ d \in Nat /\ r \in Nat /\ d - r \in Nat
          BY <2>6, KnownParts
        <4> HIDE DEF k, d, r
        <4> QED  BY <4>2, <4>3, <4>4
      <3> QED  BY <1>2, <1>3, <2>1, <2>6, <3>2
    <2>7. CASE c # s \/ opened[v] = 0
      <3>1. opened[v] # 0 => wire'[c] = wire[c] /\ reported'[c] = reported[c]
        BY <2>1, <2>7, KnownParts DEF TypeOK
      <3>2. Known(v)' = Known(v)
        BY <2>1, <3>1, KnownParts, KnownNext
      <3> QED  BY <1>3, <2>1, <3>2, KnownParts
    <2> QED  BY <2>5, <2>6, <2>7
  <1>11. ASSUME NEW s \in Streams, ReturnFrom(s) PROVE DropsOK(v)'
    <2>1. /\ opened'[v] = opened[v] /\ lost'[v] = lost[v] /\ reading'[v] = reading[v]
          /\ shown'[v] = shown[v] /\ wire' = wire /\ subs' = subs \ {s} /\ ~up[s]
          /\ dropped' = [dropped EXCEPT ![s] = 0] /\ reported' = [reported EXCEPT ![s] = 0]
      BY <1>11 DEF ReturnFrom, Unsubscribed, network, browser, history
    <2>2. CASE c = s /\ opened[v] # 0
      <3>1. Known(v)' \in Int /\ Known(v)' <= Known(v)
        BY <2>1, <2>2, KnownParts, KnownNext
      <3> QED  BY <1>2, <1>3, <2>1, <2>2, <3>1
    <2>3. CASE c # s \/ opened[v] = 0
      <3>1. opened[v] # 0 => dropped'[c] = dropped[c] /\ reported'[c] = reported[c]
        BY <2>1, <2>3, KnownParts DEF TypeOK
      <3>2. Known(v)' = Known(v)
        BY <2>1, <2>3, <3>1, KnownParts, KnownNext
      <3> QED  BY <1>3, <2>1, <3>2, KnownParts
    <2> QED  BY <2>2, <2>3
  <1>12. ASSUME NEW w \in Viewers, OpenStream(w) PROVE DropsOK(v)'
    <2>1. /\ ~reading[w] /\ opened' = [opened EXCEPT ![w] = @ + 1]
          /\ opened[w] < MaxStreams
          /\ reading' = [reading EXCEPT ![w] = TRUE]
          /\ wire' = wire /\ subs' = subs /\ dropped' = dropped /\ reported' = reported
          /\ shown' = shown /\ lost' = lost
      BY <1>12 DEF OpenStream, broker, browser, history
    <2>2. CASE w = v
      <3> DEFINE t == <<v, opened[v] + 1>>
      <3>1. t \in Streams
        BY <1>1, <2>1, <2>2, LiveFeedAssumption DEF Streams
      <3>2. StreamOK(t) /\ t[1] = v /\ t[2] = opened[v] + 1
        BY <3>1 DEF StreamInv
      <3>3. wire[t] = << >> /\ t \notin subs
        BY <1>1, <3>2 DEF StreamOK
      <3>4. opened'[v] = opened[v] + 1 /\ Current(v)' = t
        BY <2>1, <2>2 DEF TypeOK, Current
      <3>5. Known(v)' = shown[v] + 0 + 0
        BY <1>1, <2>1, <3>3, <3>4, OnWireEmpty DEF Known
      <3>6. shown[v] <= Known(v)
        BY <1>1, KnownParts
      <3> HIDE DEF t
      <3> QED  BY <1>1, <2>1, <3>4, <3>5, <3>6, KnownParts DEF DropsOK
    <2>3. CASE w # v
      <3>1. opened'[v] = opened[v] /\ reading'[v] = reading[v]
        BY <2>1, <2>3 DEF TypeOK
      <3> QED  BY <1>4, <2>1, <3>1
    <2> QED  BY <2>2, <2>3
  <1>13. ASSUME NEW w \in Viewers, BreakStream(w) PROVE DropsOK(v)'
    <2>1. /\ opened' = opened /\ reading' = [reading EXCEPT ![w] = FALSE]
          /\ wire' = [wire EXCEPT ![Current(w)] = << >>]
          /\ subs' = subs /\ dropped' = dropped /\ reported' = reported
          /\ shown' = shown /\ lost' = lost /\ reading[w]
      BY <1>13 DEF BreakStream, broker, server, browser
    <2>2. CASE w = v
      <3>1. opened[v] # 0 => wire'[c] = << >>
        BY <2>1, <2>2, KnownParts DEF TypeOK
      <3>2. Known(v)' \in Int /\ Known(v)' <= Known(v)
        <4>1. CASE opened[v] = 0
          BY <2>1, <4>1, KnownParts, KnownNext
        <4>2. CASE opened[v] # 0
          <5>1. OnWire(wire'[c]) = 0
            BY <3>1, <4>2, OnWireEmpty
          <5>2. Known(v) \in Nat /\ shown[v] <= Known(v) /\ shown[v] \in Nat
            BY <4>2, KnownParts
          <5>3. CASE c \in subs
            <6>1. Known(v)' = shown[v] + 0 + (dropped[c] - reported[c])
              BY <2>1, <4>2, <5>1, <5>3, KnownNext
            <6> QED  BY <4>2, <5>3, <6>1, KnownParts
          <5>4. CASE c \notin subs
            <6>1. Known(v)' = shown[v] + 0 + 0
              BY <2>1, <4>2, <5>1, <5>4, KnownNext
            <6> QED  BY <5>2, <6>1
          <5> QED  BY <5>3, <5>4
        <4> QED  BY <4>1, <4>2
      <3>3. ~reading'[v]
        BY <2>1, <2>2 DEF TypeOK
      <3> QED  BY <1>3, <2>1, <3>2, <3>3
    <2>3. CASE w # v
      <3>1. Current(w) # c
        BY <2>3, CurrentStream
      <3>2. opened[v] # 0 => wire'[c] = wire[c]
        BY <2>1, <3>1, KnownParts DEF TypeOK
      <3>3. Known(v)' = Known(v)
        BY <2>1, <3>2, KnownParts, KnownNext
      <3> QED  BY <1>3, <2>1, <2>3, <3>3, KnownParts
    <2> QED  BY <2>2, <2>3
  <1>14. ASSUME NEW w \in Viewers, ReadEvent(w) PROVE DropsOK(v)'
    <2> DEFINE e == Head(wire[Current(w)])
    <2>1. /\ opened' = opened /\ reading' = reading /\ reading[w]
          /\ wire' = [wire EXCEPT ![Current(w)] = Tail(@)] /\ wire[Current(w)] # << >>
          /\ subs' = subs /\ dropped' = dropped /\ reported' = reported /\ lost' = lost
          /\ \/ e.event = "dropped" /\ shown' = [shown EXCEPT ![w] = @ + e.count]
             \/ e.event \in {"capture", "delivery"} /\ shown' = shown
      BY <1>14 DEF ReadEvent, broker, server, history
    <2>2. CASE w = v
      <3>1. opened[v] # 0
        BY <1>1, <2>1, <2>2 DEF StreamInv
      <3>2. wire[c] \in Seq(Events) /\ wire[c] # << >> /\ wire'[c] = Tail(wire[c])
        BY <2>1, <2>2, <3>1, KnownParts DEF TypeOK
      <3>3. OnWire(wire[c]) = OnWire(wire'[c]) + Drops(e)
        BY <2>2, <3>2, OnWireTail
      <3>4. OnWire(wire'[c]) \in Nat /\ OnWire(wire[c]) \in Nat
        BY <3>2, TailSequence, OnWireType
      <3>5. shown'[v] = shown[v] + Drops(e) /\ Drops(e) \in Nat
        <4>1. e \in Events
          BY <2>2, <3>2, TailSequence
        <4>2. CASE e.event = "dropped" /\ shown' = [shown EXCEPT ![w] = @ + e.count]
          BY <2>2, <4>1, <4>2 DEF TypeOK, Drops, Events, Message
        <4>3. CASE e.event \in {"capture", "delivery"} /\ shown' = shown
          BY <4>3, KnownParts DEF Drops
        <4> QED  BY <2>1, <4>2, <4>3
      <3> HIDE DEF e
      <3>6. Known(v)' = Known(v)
        <4> DEFINE d == IF c \in subs THEN dropped[c] - reported[c] ELSE 0
        <4>1. Known(v) = shown[v] + OnWire(wire[c]) + d
          BY <3>1 DEF Known
        <4>2. Known(v)' = shown'[v] + OnWire(wire'[c]) + d
          BY <2>1, <3>1 DEF Known, Current
        <4>3. d \in Nat /\ shown[v] \in Nat
          BY <3>1, KnownParts
        <4> HIDE DEF d
        <4> QED  BY <3>3, <3>4, <3>5, <4>1, <4>2, <4>3
      <3> QED  BY <1>3, <2>1, <3>6, KnownParts
    <2>3. CASE w # v
      <3>1. Current(w) # c
        BY <2>3, CurrentStream
      <3>2. opened[v] # 0 => wire'[c] = wire[c]
        BY <2>1, <3>1, KnownParts DEF TypeOK
      <3>3. shown'[v] = shown[v]
        BY <2>1, <2>3 DEF TypeOK
      <3>4. Known(v)' = Known(v)
        BY <2>1, <3>2, <3>3, KnownParts, KnownNext
      <3> QED  BY <1>3, <2>1, <3>4, KnownParts
    <2> QED  BY <2>2, <2>3
  <1> QED
    BY <1>5, <1>6, <1>7, <1>8, <1>9, <1>10, <1>11, <1>12, <1>13, <1>14
       DEF Next, CaptureStep, StreamStep, ViewerStep, InsertRow, RecordOutcome, ServeList,
           ListArrives, Refetch, broker, server, network, browser, history

\* A message is about a capture, and is one of two.
LEMMA MessageForms ==
    /\ \A m \in Message : /\ m.id \in Captures
                          /\ m = CaptureOf(m.id) \/ m = DeliveryOf(m.id)
    /\ \A x : /\ CaptureOf(x).event = "capture" /\ CaptureOf(x).id = x
              /\ DeliveryOf(x).event = "delivery" /\ DeliveryOf(x).id = x
    /\ \A x \in Captures : CaptureOf(x) \in Message /\ DeliveryOf(x) \in Message
    /\ \A e \in Events : e.event = "dropped" \/ e \in Message
    /\ \A m \in Message : m.event \in {"capture", "delivery"}
  BY DEF Message, Events, CaptureOf, DeliveryOf

\* No outcome is taken back.
LEMMA DoneStays ==
    ASSUME TypeOK, Next, NEW x \in Captures, stage[x] = "done"
    PROVE  stage'[x] = "done"
  <1>1. ASSUME NEW c \in Captures, NEW a, NEW b, a # "done", Advance(c, a, b)
        PROVE  stage'[x] = "done"
    BY <1>1 DEF Advance, TypeOK
  <1> QED
    BY <1>1 DEF Next, CaptureStep, StreamStep, ViewerStep, InsertRow, PublishCapture,
       RecordOutcome, PublishDelivery, Subscribe, ForwardEvent, ReportDrops, ReturnFrom,
       OpenStream, BreakStream, ServeList, ListArrives, Refetch, ReadEvent

\* Every step tells of recorded outcomes only.
LEMMA ToldStep == FeedInv /\ Next => ToldInv'
  <1> SUFFICES ASSUME FeedInv, Next, NEW s \in Streams,
                      NEW m \in Range(queue'[s]) \cup Range(wire'[s]), m.event = "delivery"
               PROVE  stage'[m.id] = "done"
    BY DEF ToldInv
  <1> USE DEF FeedInv
  <1>1. queue[s] \in Seq(Message) /\ wire[s] \in Seq(Events)
    BY DEF TypeOK, Events
  <1>2. m \in Range(queue[s]) \cup Range(wire[s]) => stage'[m.id] = "done"
    <2> SUFFICES ASSUME m \in Range(queue[s]) \cup Range(wire[s])
                 PROVE  stage'[m.id] = "done"
      OBVIOUS
    <2>1. stage[m.id] = "done"
      BY DEF ToldInv
    <2>2. m \in Events
      BY <1>1 DEF Range, Events
    <2>3. m.id \in Captures
      BY <2>2, MessageForms
    <2> QED  BY <2>1, <2>3, DoneStays
  <1>3. ASSUME UNCHANGED <<queue, wire>> PROVE stage'[m.id] = "done"
    BY <1>2, <1>3
  <1>4. ASSUME NEW x \in Message, Publish(x), UNCHANGED wire,
               x.event = "delivery" => stage'[x.id] = "done"
        PROVE  stage'[m.id] = "done"
    <2>1. queue'[s] = queue[s] \/ queue'[s] = Append(queue[s], x)
      BY <1>4 DEF Publish
    <2>2. Range(queue'[s]) \subseteq Range(queue[s]) \cup {x}
      BY <1>1, <2>1, AppendSequence
    <2> QED  BY <1>2, <1>4, <2>2
  <1>5. ASSUME NEW c \in Captures, PublishCapture(c) PROVE stage'[m.id] = "done"
    <2>1. CaptureOf(c) \in Message /\ CaptureOf(c).event # "delivery"
      BY MessageForms
    <2>2. Publish(CaptureOf(c)) /\ UNCHANGED wire
      BY <1>5 DEF PublishCapture, network, CaptureOf
    <2> QED  BY <1>4, <2>1, <2>2
  <1>6. ASSUME NEW c \in Captures, PublishDelivery(c) PROVE stage'[m.id] = "done"
    <2>1. DeliveryOf(c) \in Message /\ DeliveryOf(c).id = c
      BY MessageForms
    <2>2. stage'[c] = "done"
      BY <1>6 DEF PublishDelivery, Advance, TypeOK
    <2>3. Publish(DeliveryOf(c)) /\ UNCHANGED wire
      BY <1>6 DEF PublishDelivery, network, DeliveryOf
    <2> QED  BY <1>4, <2>1, <2>2, <2>3
  <1>7. ASSUME NEW t \in Streams, NEW e \in Events, WriteEvent(t, e),
               e.event = "dropped" \/ e \in Range(queue[t])
        PROVE  Range(wire'[s]) \subseteq
                 Range(wire[s]) \cup (IF s = t THEN {e} ELSE {})
    <2>1. wire'[s] = wire[s] \/ (s = t /\ wire'[s] = Append(wire[s], e))
      BY <1>7 DEF WriteEvent, TypeOK
    <2>2. Range(Append(wire[s], e)) = Range(wire[s]) \cup {e}
      BY <1>1, AppendSequence
    <2> QED  BY <2>1, <2>2
  <1>8. ASSUME NEW t \in Streams, ForwardEvent(t) PROVE stage'[m.id] = "done"
    <2> DEFINE e == Head(queue[t])
    <2>1. e \in Message /\ Range(queue[t]) = Range(Tail(queue[t])) \cup {e}
      BY <1>8, TailSequence DEF ForwardEvent, TypeOK
    <2>2. WriteEvent(t, e) /\ queue' = [queue EXCEPT ![t] = Tail(@)]
      BY <1>8 DEF ForwardEvent
    <2> HIDE DEF e
    <2>3. e \in Events /\ e \in Range(queue[t])
      BY <2>1 DEF Events
    <2>4. Range(wire'[s]) \subseteq Range(wire[s]) \cup (IF s = t THEN {e} ELSE {})
      BY <1>7, <2>2, <2>3
    <2>5. Range(queue'[s]) \subseteq Range(queue[s])
      BY <2>1, <2>2 DEF TypeOK
    <2> QED  BY <1>2, <2>3, <2>4, <2>5
  <1>9. ASSUME NEW t \in Streams, ReportDrops(t) PROVE stage'[m.id] = "done"
    <2> DEFINE e == [event |-> "dropped", count |-> NewDrops(t)]
    <2>1. e \in Events /\ e.event = "dropped"
      BY <1>9 DEF ReportDrops, DropsSince, NewDrops, TypeOK, Events
    <2>2. WriteEvent(t, e) /\ queue' = queue
      BY <1>9 DEF ReportDrops, broker
    <2> HIDE DEF e
    <2>3. Range(wire'[s]) \subseteq Range(wire[s]) \cup {e}
      BY <1>7, <2>1, <2>2
    <2> QED  BY <1>2, <2>1, <2>2, <2>3
  <1>10. Range(<< >>) = {}
    BY DEF Range
  <1>11. ASSUME NEW t \in Streams, ReturnFrom(t) PROVE stage'[m.id] = "done"
    <2>1. wire' = wire /\ (queue'[s] = queue[s] \/ queue'[s] = << >>)
      BY <1>11 DEF ReturnFrom, network, TypeOK
    <2> QED  BY <1>2, <1>10, <2>1
  <1>12. ASSUME NEW v \in Viewers, BreakStream(v) PROVE stage'[m.id] = "done"
    <2>1. queue' = queue /\ (wire'[s] = wire[s] \/ wire'[s] = << >>)
      BY <1>12 DEF BreakStream, broker, TypeOK
    <2> QED  BY <1>2, <1>10, <2>1
  <1>13. ASSUME NEW v \in Viewers, ReadEvent(v) PROVE stage'[m.id] = "done"
    <2>1. queue' = queue /\ wire' = [wire EXCEPT ![Current(v)] = Tail(@)] /\ wire[Current(v)] # << >>
      BY <1>13 DEF ReadEvent, broker
    <2>2. wire'[s] = wire[s] \/ (wire'[s] = Tail(wire[s]) /\ wire[s] # << >>)
      BY <2>1 DEF TypeOK
    <2>3. Range(wire'[s]) \subseteq Range(wire[s])
      BY <1>1, <2>2, TailSequence
    <2> QED  BY <1>2, <2>1, <2>3
  <1> QED
    BY <1>3, <1>5, <1>6, <1>8, <1>9, <1>11, <1>12, <1>13
       DEF Next, CaptureStep, StreamStep, ViewerStep, InsertRow, RecordOutcome, Subscribe,
           OpenStream, ServeList, ListArrives, Refetch, broker, network

\* A member comes before what is not there.
LEMMA BeforeAbsent ==
    ASSUME NEW s, NEW a, NEW b, a \in Range(s), b \notin Range(s)
    PROVE  Before(s, a, b)
  BY DEF Before, Range

\* What a list reflects, its rows say.
LEMMA ReflectsSays ==
    /\ \A v, m : Reflects(v, m) <=> Says(list[v], m)
    /\ \A v, m : Reflects(v, m)' <=> Says(list'[v], m)
    /\ \A v \in Viewers : \A m : m.event = "capture" /\ Says(list[v], m) => m.id \in Ids(list[v])
  BY DEF Reflects, Says, Ids, Range

\* A step that changes nothing of what the promise to a viewer depends on.
Undisturbed(v) ==
    /\ owed'[v] = owed[v]
    /\ owed[v] # {} =>
          /\ opened'[v] = opened[v] /\ reading'[v] = reading[v]
          /\ loaded'[v] = loaded[v] /\ fetching'[v] = fetching[v] /\ list'[v] = list[v]
          /\ queue'[Current(v)] = queue[Current(v)] /\ wire'[Current(v)] = wire[Current(v)]

\* Such a step keeps the promise.
LEMMA OwedSame == ASSUME NEW v, OwedOK(v), Undisturbed(v) PROVE OwedOK(v)'
  <1>1. CASE owed[v] = {}
    BY <1>1 DEF Undisturbed, OwedOK
  <1>2. CASE owed[v] # {}
    <2>1. Current(v)' = Current(v)
      BY <1>2 DEF Undisturbed, Current
    <2> QED  BY <1>2, <2>1 DEF Undisturbed, OwedOK, Preceded, Reflects
  <1> QED  BY <1>1, <1>2

\* Nothing is promised to a viewer that is not owed anything.
LEMMA OwedNothing == ASSUME NEW v, owed'[v] = {} PROVE OwedOK(v)'
  BY DEF OwedOK

\* A published message is queued for whoever it is owed to.
LEMMA PublishOwed ==
    ASSUME TypeOK, StreamInv, ToldInv, OwedInv, NEW m \in Message, Publish(m),
           m.event = "delivery" => stage[m.id] # "done",
           UNCHANGED <<server, network, browser>>, NEW v \in Viewers
    PROVE  OwedOK(v)'
  <1> DEFINE c == Current(v)
             q == queue[c]
             w == wire[c]
  <1>1. /\ c = Current(v)' /\ opened' = opened /\ wire' = wire /\ list' = list
        /\ loaded' = loaded /\ fetching' = fetching /\ reading' = reading
    BY DEF Current, network, browser
  <1>2. OwedOK(v)
    BY DEF OwedInv
  <1>3. CASE owed'[v] = {}
    BY <1>3, OwedNothing
  <1>4. CASE owed'[v] # {}
    <2>1. owed'[v] = owed[v] \cup {x \in {m} : Follows(v, x)}
      BY DEF Publish
    <2>2. c \in Streams /\ loaded[v] /\ fetching[v] = "no" /\ reading[v]
      <3>1. CASE owed[v] # {}
        BY <1>2, <3>1, CurrentStream DEF OwedOK, StreamInv
      <3>2. CASE Follows(v, m)
        <4>1. c \in Streams /\ loaded[v] /\ fetching[v] = "no" /\ up[c]
          BY <3>2, CurrentStream DEF Follows
        <4> QED  BY <4>1, CurrentStream DEF StreamInv, StreamOK
      <3> QED  BY <1>4, <2>1, <3>1, <3>2
    <2>3. q \in Seq(Message)
      BY <2>2 DEF TypeOK
    <2>4. queue'[c] = q \/ queue'[c] = Append(q, m)
      BY <2>2 DEF Publish
    <2>5. Follows(v, m) => queue'[c] = Append(q, m)
      BY <2>2 DEF Publish, Follows
    <2> HIDE DEF q, c
    <2>6. /\ Range(q) \subseteq Range(queue'[c])
          /\ \A a, b : Before(q, a, b) => Before(queue'[c], a, b)
      <3> DEFINE qm == Append(q, m)
      <3>1. /\ Range(qm) = Range(q) \cup {m}
            /\ \A a, b : Before(q, a, b) => Before(qm, a, b)
        BY <2>3, AppendSequence
      <3> HIDE DEF qm
      <3>2. queue'[c] = q \/ queue'[c] = qm
        BY <2>4 DEF qm
      <3> QED  BY <3>1, <3>2
    <2>7. ASSUME NEW x \in owed[v]
          PROVE  /\ x \in Range(queue'[c]) \cup Range(w) \/ Reflects(v, x)
                 /\ x.event = "delivery" => Preceded(v, x.id)'
      BY <1>1, <1>2, <2>6 DEF OwedOK, Preceded, c, q
    <2>8. ASSUME Follows(v, m)
          PROVE  /\ m \in Range(queue'[c])
                 /\ m.event = "delivery" => Preceded(v, m.id)'
      <3>1. m \in Range(queue'[c])
        <4>1. Range(Append(q, m)) = Range(q) \cup {m}
          BY <2>3, AppendSequence
        <4> QED  BY <2>5, <2>8, <4>1
      <3>2. ASSUME m.event = "delivery" PROVE Preceded(v, m.id)'
        <4> DEFINE a == CaptureOf(m.id)
        <4>1. m = DeliveryOf(m.id) /\ a # m /\ a.event = "capture" /\ a.id = m.id
          BY <3>2, MessageForms
        <4>2. m.id \in Ids(list[v]) \/ a \in owed[v]
          BY <2>8, <3>2 DEF Follows, CaptureOf
        <4> HIDE DEF a
        <4>3. m.id \in Ids(list[v]) \/ a \in Range(q) \cup Range(w)
          BY <1>2, <4>1, <4>2, ReflectsSays DEF OwedOK, q, c
        <4>4. m \notin Range(q) \cup Range(w)
          BY <2>2, <3>2 DEF ToldInv, q, c
        <4>5. a \in Range(w) => Before(w, a, m)
          BY <4>4, BeforeAbsent
        <4>6. a \in Range(q) => Before(queue'[c], a, m)
          BY <2>6, <4>4, BeforeAbsent
        <4> QED  BY <1>1, <4>1, <4>3, <4>4, <4>5, <4>6 DEF Preceded, a, c
      <3> QED  BY <3>1, <3>2
    <2> QED  BY <1>1, <2>1, <2>2, <2>7, <2>8 DEF OwedOK, Reflects, c
  <1> QED  BY <1>3, <1>4

\* An event that goes from the queue of a viewer's stream to its wire stays owed.
LEMMA ForwardOwed ==
    ASSUME TypeOK, StreamInv, OwedInv, NEW v \in Viewers, owed[v] # {},
           ForwardEvent(Current(v))
    PROVE  OwedOK(v)'
  <1> DEFINE c == Current(v)
             q == queue[c]
             w == wire[c]
             e == Head(q)
             qn == Tail(q)
             wn == Append(w, e)
  <1>1. OwedOK(v) /\ reading[v] /\ c \in Streams
    BY CurrentStream DEF OwedInv, OwedOK, StreamInv
  <1>2. up[c] /\ q \in Seq(Message) /\ w \in Seq(Events) /\ q # << >>
    <2>1. c[1] = v /\ c[2] = opened[v]
      BY CurrentStream
    <2>2. up[c]
      BY <1>1, <2>1 DEF StreamInv, StreamOK
    <2>3. q \in Seq(Message) /\ w \in Seq(Events)
      BY <1>1 DEF TypeOK, Events
    <2> QED  BY <2>2, <2>3 DEF ForwardEvent
  <1>3. /\ queue'[c] = qn /\ wire'[c] = wn /\ Current(v)' = c
        /\ owed' = owed /\ loaded' = loaded /\ fetching' = fetching /\ reading' = reading
        /\ list' = list
    BY <1>1, <1>2 DEF ForwardEvent, WriteEvent, TypeOK, Current, browser, history
  <1>4. /\ e \in Message /\ Range(q) = Range(qn) \cup {e}
        /\ \A a, b : Before(q, a, b) /\ a # b => e # b /\ (e = a \/ Before(qn, a, b))
    BY <1>2, TailSequence
  <1>5. e \in Events
    BY <1>4 DEF Events
  <1> HIDE DEF e
  <1>6. /\ Range(wn) = Range(w) \cup {e}
        /\ \A a, b : Before(w, a, b) => Before(wn, a, b)
        /\ \A b : b # e /\ b \notin Range(w) => Before(wn, e, b)
    BY <1>2, <1>5, AppendSequence
  <1> HIDE DEF qn, wn
  <1>7. ASSUME NEW m \in owed[v]
        PROVE  /\ m \in Range(qn) \cup Range(wn) \/ Reflects(v, m)
               /\ m.event = "delivery" => Preceded(v, m.id)'
    <2>1. m \in Range(qn) \cup Range(wn) \/ Reflects(v, m)
      BY <1>1, <1>4, <1>6 DEF OwedOK
    <2>2. ASSUME m.event = "delivery" PROVE Preceded(v, m.id)'
      <3> DEFINE a == CaptureOf(m.id)
                 b == DeliveryOf(m.id)
      <3>1. a # b
        BY MessageForms
      <3>2. m.id \in Ids(list[v]) \/ Before(w, a, b) \/ (b \notin Range(w) /\ Before(q, a, b))
        BY <1>1, <2>2 DEF OwedOK, Preceded
      <3> HIDE DEF a, b
      <3>3. m.id \in Ids(list[v]) \/ Before(wn, a, b) \/ (b \notin Range(wn) /\ Before(qn, a, b))
        BY <1>4, <1>6, <3>1, <3>2
      <3> QED  BY <1>3, <3>3 DEF Preceded, a, b
    <2> QED  BY <2>1, <2>2
  <1> QED  BY <1>1, <1>3, <1>7 DEF OwedOK, Reflects

\* A report of drops does not disturb what is owed.
LEMMA ReportOwed ==
    ASSUME TypeOK, StreamInv, OwedInv, NEW v \in Viewers, owed[v] # {},
           ReportDrops(Current(v))
    PROVE  OwedOK(v)'
  <1> DEFINE c == Current(v)
             w == wire[c]
             e == [event |-> "dropped", count |-> NewDrops(c)]
             wn == Append(w, e)
  <1>1. OwedOK(v) /\ reading[v] /\ c \in Streams
    BY CurrentStream DEF OwedInv, OwedOK, StreamInv
  <1>2. up[c] /\ w \in Seq(Events)
    <2>1. c[1] = v /\ c[2] = opened[v]
      BY CurrentStream
    <2>2. up[c]
      BY <1>1, <2>1 DEF StreamInv, StreamOK
    <2>3. w \in Seq(Events)
      BY <1>1 DEF TypeOK, Events
    <2> QED  BY <2>2, <2>3
  <1>3. e \in Events /\ e.event = "dropped"
    BY <1>1 DEF ReportDrops, DropsSince, NewDrops, TypeOK, Events
  <1>4. /\ queue'[c] = queue[c] /\ wire'[c] = wn /\ Current(v)' = c
        /\ owed' = owed /\ loaded' = loaded /\ fetching' = fetching /\ reading' = reading
        /\ list' = list
    BY <1>1, <1>2 DEF ReportDrops, WriteEvent, TypeOK, Current, browser, history, broker
  <1> HIDE DEF e
  <1>5. /\ Range(wn) = Range(w) \cup {e}
        /\ \A a, b : Before(w, a, b) => Before(wn, a, b)
    BY <1>2, <1>3, AppendSequence
  <1> HIDE DEF wn
  <1>6. ASSUME NEW m \in owed[v], m.event = "delivery" PROVE Preceded(v, m.id)'
    <2>1. DeliveryOf(m.id) # e
      BY <1>3, MessageForms
    <2>2. Preceded(v, m.id)
      BY <1>1, <1>6 DEF OwedOK
    <2> QED  BY <1>4, <1>5, <2>1, <2>2 DEF Preceded
  <1> QED  BY <1>1, <1>4, <1>5, <1>6 DEF OwedOK, Reflects

\* What a viewer reads is on its list, or was not owed.
LEMMA ReadOwed ==
    ASSUME TypeOK, StreamInv, OwedInv, NEW v \in Viewers, owed[v] # {}, ReadEvent(v)
    PROVE  OwedOK(v)'
  <1> DEFINE c == Current(v)
             w == wire[c]
             e == Head(w)
             wn == Tail(w)
  <1>1. OwedOK(v) /\ reading[v] /\ loaded[v] /\ c \in Streams
    BY CurrentStream DEF OwedInv, OwedOK, StreamInv
  <1>2. w \in Seq(Events) /\ w # << >> /\ list[v] \in Seq(Row)
    BY <1>1 DEF TypeOK, Events, ReadEvent
  <1>3. /\ queue'[c] = queue[c] /\ wire'[c] = wn /\ Current(v)' = c
        /\ owed' = owed /\ loaded' = loaded /\ fetching' = fetching /\ reading' = reading
    BY <1>1, <1>2 DEF ReadEvent, TypeOK, Current, history, broker
  <1>4. /\ e \in Events /\ Range(w) = Range(wn) \cup {e}
        /\ \A a, b : Before(w, a, b) /\ a # b => e # b /\ (e = a \/ Before(wn, a, b))
    BY <1>2, TailSequence
  <1>5. \/ e.event = "dropped" /\ list'[v] = list[v]
        \/ e.event = "capture" /\ list'[v] = Prepended(list[v], e.id)
        \/ e.event = "delivery" /\ list'[v] = Patched(list[v], e.id)
    BY <1>1 DEF ReadEvent, TypeOK
  <1> HIDE DEF e, wn
  <1>6. e.event # "dropped" => e \in Message /\ e.id \in Captures
    BY <1>4, MessageForms
  \* Nothing shown goes, and a capture that is read is shown.
  <1>7. /\ \A m : Says(list[v], m) => Says(list'[v], m)
        /\ Ids(list[v]) \subseteq Ids(list'[v])
        /\ e.event = "capture" => e.id \in Ids(list'[v]) /\ Says(list'[v], e)
        /\ e.event = "delivery" /\ e.id \in Ids(list[v]) => Says(list'[v], e)
    <2>1. CASE e.event = "dropped" /\ list'[v] = list[v]
      BY <2>1
    <2>2. CASE e.event = "capture" /\ list'[v] = Prepended(list[v], e.id)
      BY <1>2, <1>6, <2>2, PrependedRows
    <2>3. CASE e.event = "delivery" /\ list'[v] = Patched(list[v], e.id)
      BY <1>2, <1>6, <2>3, PatchedRows
    <2> QED  BY <1>5, <2>1, <2>2, <2>3
  <1>8. ASSUME NEW m \in owed[v]
        PROVE  /\ m \in Range(queue[c]) \cup Range(wn) \/ Says(list'[v], m)
               /\ m.event = "delivery" => Preceded(v, m.id)'
    <2> DEFINE a == CaptureOf(m.id)
               b == DeliveryOf(m.id)
    <2>1. m \in Message /\ (m = a \/ m = b)
      BY MessageForms DEF TypeOK
    <2>2. a # b /\ a.event = "capture" /\ a.id = m.id /\ b.event = "delivery" /\ b.id = m.id
      BY MessageForms
    <2>3. m.event = "delivery" =>
             \/ m.id \in Ids(list[v]) \/ Before(w, a, b)
             \/ (b \notin Range(w) /\ Before(queue[c], a, b))
      BY <1>1 DEF OwedOK, Preceded
    <2>4. m \in Range(queue[c]) \cup Range(w) \/ Says(list[v], m)
      BY <1>1, ReflectsSays DEF OwedOK
    <2>5. m.event = "delivery" =>
             \/ m.id \in Ids(list'[v]) \/ Before(wn, a, b)
             \/ (b \notin Range(wn) /\ Before(queue[c], a, b))
      <3> HIDE DEF a, b
      <3> QED  BY <1>4, <1>7, <2>2, <2>3
    <2>6. m.event = "delivery" => Preceded(v, m.id)'
      BY <1>3, <2>5 DEF Preceded
    <2>7. m = e => Says(list'[v], m)
      <3> HIDE DEF a, b
      <3>1. CASE m = a
        BY <1>7, <2>2, <3>1
      <3>2. CASE m = b /\ m = e
        <4>1. e \in Range(w) /\ ~Before(w, a, b)
          BY <1>4, <2>2, <3>2
        <4>2. m.id \in Ids(list[v])
          BY <2>2, <2>3, <3>2, <4>1
        <4> QED  BY <1>7, <2>2, <3>2, <4>2
      <3> QED  BY <2>1, <3>1, <3>2
    <2> QED  BY <1>4, <1>7, <2>4, <2>6, <2>7
  <1> QED  BY <1>1, <1>3, <1>8, ReflectsSays DEF OwedOK

\* Every step keeps the promise.
LEMMA OwedStep == FeedInv /\ Next => OwedInv'
  <1> SUFFICES ASSUME FeedInv, Next, NEW v \in Viewers PROVE OwedOK(v)'
    BY DEF OwedInv
  <1> USE DEF FeedInv
  <1> DEFINE c == Current(v)
  <1>1. OwedOK(v) /\ (owed[v] # {} => c \in Streams /\ up[c] /\ reading[v])
    BY CurrentStream DEF OwedInv, OwedOK, StreamInv, StreamOK
  <1>2. Undisturbed(v) => OwedOK(v)'
    BY <1>1, OwedSame
  <1>3. owed'[v] = {} => OwedOK(v)'
    BY OwedNothing
  <1>4. UNCHANGED <<queue, network, browser, owed>> => Undisturbed(v)
    BY DEF Undisturbed, network, browser
  <1>5. ASSUME NEW x \in Captures, PublishCapture(x) PROVE OwedOK(v)'
    <2>1. CaptureOf(x) \in Message /\ CaptureOf(x).event # "delivery"
      BY MessageForms
    <2>2. Publish(CaptureOf(x)) /\ UNCHANGED <<server, network, browser>>
      BY <1>5 DEF PublishCapture, CaptureOf
    <2> QED  BY <2>1, <2>2, PublishOwed
  <1>6. ASSUME NEW x \in Captures, PublishDelivery(x) PROVE OwedOK(v)'
    <2>1. DeliveryOf(x) \in Message /\ DeliveryOf(x).id = x
      BY MessageForms
    <2>2. Publish(DeliveryOf(x)) /\ UNCHANGED <<server, network, browser>> /\ stage[x] # "done"
      BY <1>6 DEF PublishDelivery, DeliveryOf, Advance
    <2> QED  BY <2>1, <2>2, PublishOwed
  <1>7. ASSUME NEW s \in Streams, ForwardEvent(s) PROVE OwedOK(v)'
    <2>1. CASE owed[v] # {} /\ s = c
      BY <1>7, <2>1, ForwardOwed
    <2>2. CASE owed[v] = {} \/ s # c
      <3>1. Undisturbed(v)
        BY <1>1, <1>7, <2>2
           DEF Undisturbed, ForwardEvent, WriteEvent, TypeOK, browser, history
      <3> QED  BY <1>2, <3>1
    <2> QED  BY <2>1, <2>2
  <1>8. ASSUME NEW s \in Streams, ReportDrops(s) PROVE OwedOK(v)'
    <2>1. CASE owed[v] # {} /\ s = c
      BY <1>8, <2>1, ReportOwed
    <2>2. CASE owed[v] = {} \/ s # c
      <3>1. Undisturbed(v)
        BY <1>1, <1>8, <2>2
           DEF Undisturbed, ReportDrops, WriteEvent, TypeOK, broker, browser, history
      <3> QED  BY <1>2, <3>1
    <2> QED  BY <2>1, <2>2
  <1>9. ASSUME NEW s \in Streams, ReturnFrom(s) PROVE OwedOK(v)'
    <2>1. owed[v] # {} => s # c
      BY <1>1, <1>9 DEF ReturnFrom
    <2>2. Undisturbed(v)
      BY <1>1, <1>9, <2>1 DEF Undisturbed, ReturnFrom, TypeOK, network, browser, history
    <2> QED  BY <1>2, <2>2
  <1>10. ASSUME NEW w \in Viewers, OpenStream(w) PROVE OwedOK(v)'
    <2>1. owed[v] # {} => w # v
      BY <1>1, <1>10 DEF OpenStream
    <2>2. Undisturbed(v)
      BY <1>10, <2>1 DEF Undisturbed, OpenStream, TypeOK, broker, browser, history
    <2> QED  BY <1>2, <2>2
  <1>11. ASSUME NEW w \in Viewers, BreakStream(w) PROVE OwedOK(v)'
    <2>1. CASE w = v
      BY <1>3, <1>11, <2>1 DEF BreakStream, TypeOK
    <2>2. CASE w # v
      <3>1. Current(w) # c
        BY <2>2, CurrentStream
      <3>2. Undisturbed(v)
        BY <1>1, <1>11, <2>2, <3>1 DEF Undisturbed, BreakStream, TypeOK, broker, browser
      <3> QED  BY <1>2, <3>2
    <2> QED  BY <2>1, <2>2
  \* The list of this viewer is fetched: it is owed nothing. Another's is not its own.
  <1>12. ASSUME NEW w \in Viewers, ServeList(w) \/ ListArrives(w) \/ Refetch(w)
         PROVE  OwedOK(v)'
    <2>1. CASE w = v
      <3>1. owed'[v] = {}
        BY <1>1, <1>12, <2>1 DEF ServeList, ListArrives, Refetch, OwedOK, TypeOK, history
      <3> QED  BY <1>3, <3>1
    <2>2. CASE w # v
      <3>1. Undisturbed(v)
        BY <1>12, <2>2 DEF Undisturbed, ServeList, ListArrives, Refetch, TypeOK, broker, network,
                           history
      <3> QED  BY <1>2, <3>1
    <2> QED  BY <2>1, <2>2
  <1>13. ASSUME NEW w \in Viewers, ReadEvent(w) PROVE OwedOK(v)'
    <2>1. CASE owed[v] # {} /\ w = v
      BY <1>13, <2>1, ReadOwed
    <2>2. CASE owed[v] = {}
      BY <1>3, <1>13, <2>2 DEF ReadEvent, history
    <2>3. CASE owed[v] # {} /\ w # v
      <3>1. Current(w) # c
        BY <2>3, CurrentStream
      <3>2. wire'[c] = wire[c] /\ list'[v] = list[v]
        BY <1>1, <1>13, <2>3, <3>1 DEF ReadEvent, TypeOK
      <3>3. Undisturbed(v)
        BY <1>13, <3>2 DEF Undisturbed, ReadEvent, broker, history
      <3> QED  BY <1>2, <3>3
    <2> QED  BY <2>1, <2>2, <2>3
  <1> QED
    BY <1>2, <1>4, <1>5, <1>6, <1>7, <1>8, <1>9, <1>10, <1>11, <1>12, <1>13
       DEF Next, CaptureStep, StreamStep, ViewerStep, InsertRow, RecordOutcome, Subscribe,
           broker, history

-----------------------------------------------------------------------------
(* Theorems                                                                *)

\* The feed keeps its invariant, whatever captures, viewers and streams there are
\* and however small the buffer of the broker is.
THEOREM FeedIsSound == Spec => []FeedInv
  <1>1. Init => FeedInv
    BY InitFeed
  <1>2. FeedInv /\ [Next]_vars => FeedInv'
    <2>1. FeedInv /\ Next => FeedInv'
      BY TypeStep, StreamStepInv, RowsStep, DropsStep, ToldStep, OwedStep DEF FeedInv
    <2>2. FeedInv /\ UNCHANGED vars => FeedInv'
      <3> SUFFICES ASSUME FeedInv, UNCHANGED vars PROVE FeedInv'
        OBVIOUS
      <3> USE DEF FeedInv, vars, broker, server, network, browser, history
      <3>1. TypeOK'
        BY DEF TypeOK
      <3>2. StreamInv'
        BY DEF StreamInv, StreamOK
      <3>3. RowsInv'
        BY DEF RowsInv, Distinct
      <3>4. DropsInv'
        BY DEF DropsInv, DropsOK, Known, Current
      <3>5. ToldInv'
        BY DEF ToldInv
      <3>6. OwedInv'
        BY DEF OwedInv, OwedOK, Preceded, Reflects, Current
      <3> QED  BY <3>1, <3>2, <3>3, <3>4, <3>5, <3>6
    <2> QED  BY <2>1, <2>2
  <1> QED  BY <1>1, <1>2, PTL DEF Spec

\* Every variable of the feed keeps its type, and no subscriber's channel holds
\* more than the buffer (broker.go).
THEOREM TypesHold == Spec => []TypeOK
  <1>1. FeedInv => TypeOK
    BY DEF FeedInv
  <1> QED  BY <1>1, FeedIsSound, PTL

\* A capture that comes with the page, with its event and with a refetch, in any
\* order, is one row of a browser's list (useInbox.ts).
THEOREM NoCaptureIsTwoRows == Spec => []NoRowTwice
  <1>1. FeedInv => NoRowTwice
    BY DEF FeedInv, RowsInv, Distinct, NoRowTwice
  <1> QED  BY <1>1, FeedIsSound, PTL

\* A viewer is never told of a drop that did not happen, and on a stream that
\* never broke every drop has been shown, is on the wire, or awaits the next tick
\* of the handler (sse.go).
THEOREM DropReportsAreExact == Spec => []ReportsAreExact
  <1>1. FeedInv => ReportsAreExact
    BY DEF FeedInv, DropsInv, DropsOK, Known, ReportsAreExact
  <1> QED  BY <1>1, FeedIsSound, PTL

\* What the broker queued for a viewer that had its list is in the queue, on the
\* wire, or shown: an outcome is not lost between its capture's event and the row
\* (broker.go, sse.go, useInbox.ts).
THEOREM WhatIsQueuedIsShown == Spec => []WatchedIsShown
  <1>1. FeedInv => WatchedIsShown
    BY DEF FeedInv, OwedInv, OwedOK, WatchedIsShown
  <1> QED  BY <1>1, FeedIsSound, PTL

=============================================================================
