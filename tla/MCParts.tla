------------------------------- MODULE MCParts -------------------------------
(* What a request runs into - the round trip to the developer's app, the     *)
(* metrics, and the comparison of captures - beside the parts of MCUpkeep.   *)
(* They share no state; a behaviour exercises one of the eight, which the    *)
(* initial state picks.                                                      *)
EXTENDS MCUpkeep, RoundTrip, Metrics, CaptureDiff, TLC

\* Inputs of the comparison.
Num(n) == [kind |-> "num", text |-> n]
Str(n) == [kind |-> "str", text |-> n]
Null   == [kind |-> "null"]
Obj(f) == [kind |-> "obj", of |-> f]
Arr(s) == [kind |-> "arr", of |-> s]

\* Objects with an id, of three kinds, without one, with an empty one, and with
\* one in the second key; and a scalar.
Elements ==
    {Obj(("id" :> id)) : id \in {Num(1), Str(1), Num(2), Null, Str(0)}}
    \cup {Obj(("id" :> id @@ "x" :> Num(1))) : id \in {Num(1), Str(1)}}
    \cup {Obj(("name" :> Num(1))), Obj(("id" :> Null @@ "name" :> Num(2))), Num(1)}

Arrays == {Arr(<<>>)} \cup {Arr(<<x>>) : x \in Elements}
              \cup {Arr(<<x, y>>) : x \in Elements, y \in Elements}

Documents ==
    Arrays \cup Elements
    \cup {Obj(("x" :> Arr(<<y>>) @@ "name" :> Num(1))) : y \in Elements}

\* With what only occurs within them.
AllValues == Documents \cup {Num(2), Str(0), Str(1), Null}

Bodies == Documents \cup {[kind |-> "bytes", text |-> t] : t \in {1, 2}}

Fields == [name : {"a", "A", "date"}, value : {<<1>>, <<2>>, <<1, 2>>}]

HeaderLists == {<<>>} \cup {<<f>> : f \in Fields} \cup {<<f, g>> : f \in Fields, g \in Fields}

Request(body, headers, line) == [body |-> body, headers |-> headers, line |-> Str(line)]

ComparedPairs ==
    [left : {Request(b, <<>>, 1) : b \in Bodies},
     right : {Request(b, <<>>, 1) : b \in Bodies}, volatile : {TRUE}]
    \cup
    [left : {Request(Null, h, 1) : h \in HeaderLists},
     right : {Request(Null, h, n) : h \in HeaderLists, n \in {1, 2}}, volatile : BOOLEAN]

NamedKeys == <<"id", "name">>

LowerCase(name) == IF name = "A" THEN "a" ELSE name

requestVars == <<metricsVars, diffVars>>

\* What stands still starts in one state.
StillMetrics == MetricsInit /\ value = [o \in Observers |-> 1]

SomePair == CHOOSE p \in Inputs : TRUE

StillDiff == pair = SomePair /\ comparison = {}

RequestParts == {"trip", "metrics", "diff"}

AllInit ==
    /\ part \in UpkeepParts \cup RequestParts
    /\ PartsInit
    /\ TripInit
    /\ IF part = "metrics" THEN MetricsInit ELSE StillMetrics
    /\ IF part = "diff" THEN DiffInit ELSE StillDiff

\* Calls are interchangeable, and so are observers: they start in one order.
CallsInOrder ==
    \A f, g \in Calls : f < g /\ caller[f] = "idle" => caller'[g] = "idle"

ObserversInOrder ==
    \A o, p \in Observers : o < p /\ step[o] = "find" => step'[p] = "find"

AllNext ==
    \/ /\ part \in UpkeepParts
       /\ Next
       /\ UNCHANGED <<callerVars, cliVars, requestVars>>
    \/ /\ part \in RequestParts
       /\ UNCHANGED <<part, cacheOwn, limiterOwn, lastSeenOwn, retentionOwn, pagingVars>>
       /\ \/ part = "trip" /\ TripNext /\ CallsInOrder /\ UNCHANGED requestVars
          \/ part = "metrics" /\ MetricsNext /\ ObserversInOrder
             /\ UNCHANGED <<tripVars, diffVars>>
          \/ part = "diff" /\ DiffNext /\ UNCHANGED <<tripVars, metricsVars>>

AllSpec ==
    AllInit /\ [][AllNext]_<<vars, callerVars, cliVars, requestVars>> /\ Fairness

=============================================================================
