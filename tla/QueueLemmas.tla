---------------------------- MODULE QueueLemmas ----------------------------
(***************************************************************************)
(* Facts about families of queues: functions q from places to sequences,   *)
(* in which a value occurs at most once.  They are what the list and queue  *)
(* code of the emulator needs: removing a head, appending at a tail, and    *)
(* the bound on the length of a queue of distinct entries.                  *)
(***************************************************************************)
EXTENDS Queues, FiniteSets, FiniteSetTheorems, TLAPS

\* Membership in a sequence, by index.
LEMMA RangeIsIndexed ==
  ASSUME NEW E, NEW q \in Seq(E)
  PROVE  /\ \A e : e \in Range(q) <=> \E k \in 1 .. Len(q) : q[k] = e
         /\ Range(q) \subseteq E
  <1>1. DOMAIN q = 1 .. Len(q) /\ \A k \in 1 .. Len(q) : q[k] \in E
    OBVIOUS
  <1>2. \A e : e \in Range(q) <=> \E k \in DOMAIN q : q[k] = e
    BY Zenon DEF Range
  <1>. QED BY <1>1, <1>2, Zenon

\* Appending adds one member.
LEMMA RangeAppend ==
  ASSUME NEW E, NEW q \in Seq(E), NEW e \in E
  PROVE  /\ Append(q, e) \in Seq(E)
         /\ Len(Append(q, e)) = Len(q) + 1
         /\ Append(q, e)[Len(q) + 1] = e
         /\ \A k \in 1 .. Len(q) : Append(q, e)[k] = q[k]
         /\ Range(Append(q, e)) = Range(q) \cup {e}
  BY DEF Range

\* Removing the head of a sequence without repetition removes that member.
LEMMA RangeTail ==
  ASSUME NEW E, NEW q \in Seq(E), q # << >>,
         \A k, l \in 1 .. Len(q) : q[k] = q[l] => k = l
  PROVE  /\ Tail(q) \in Seq(E)
         /\ Len(Tail(q)) = Len(q) - 1
         /\ Head(q) = q[1] /\ Head(q) \in E /\ Head(q) \in Range(q)
         /\ \A k \in 1 .. Len(q) - 1 : Tail(q)[k] = q[k + 1]
         /\ Range(Tail(q)) = Range(q) \ {Head(q)}
  <1>1. /\ Tail(q) \in Seq(E) /\ Len(Tail(q)) = Len(q) - 1 /\ Len(q) \in Nat \ {0}
        /\ Head(q) = q[1] /\ Head(q) \in E
        /\ \A k \in 1 .. Len(q) - 1 : Tail(q)[k] = q[k + 1]
    OBVIOUS
  <1>2. Head(q) \in Range(q)
    BY <1>1 DEF Range
  <1>3. ASSUME NEW e \in Range(Tail(q)) PROVE e \in Range(q) \ {Head(q)}
    <2>1. PICK k \in 1 .. Len(q) - 1 : e = q[k + 1]
      BY <1>1, <1>3 DEF Range
    <2>2. k + 1 \in 1 .. Len(q) /\ 1 \in 1 .. Len(q) /\ k + 1 # 1
      BY <1>1
    <2>. QED BY <1>1, <2>1, <2>2 DEF Range
  <1>4. ASSUME NEW e \in Range(q), e # Head(q) PROVE e \in Range(Tail(q))
    <2>1. PICK k \in 1 .. Len(q) : e = q[k]
      BY <1>4 DEF Range
    <2>2. k # 1
      BY <1>1, <1>4, <2>1
    <2>3. k - 1 \in 1 .. Len(q) - 1 /\ Tail(q)[k - 1] = e
      BY <1>1, <2>1, <2>2
    <2>4. \E m \in 1 .. Len(Tail(q)) : Tail(q)[m] = e
      BY <1>1, <2>3
    <2>5. Tail(q) \in Seq(E)
      BY <1>1
    <2>. QED BY <2>4, <2>5, RangeIsIndexed, Zenon
  <1>. QED BY <1>1, <1>2, <1>3, <1>4

\* A family of queues of elements of E in which no value repeats.
Family(P, E, q) == q \in [P -> Seq(E)] /\ NoRepeat(q)

\* Removing the head h of queue s: the others keep their members, and h is
\* nowhere any more.
Dequeued(P, E, q, s, h, r) ==
  /\ Family(P, E, r)
  /\ h \in E /\ h \in Range(q[s]) /\ h \in Members(q)
  /\ Len(r[s]) = Len(q[s]) - 1
  /\ \A t \in P : t # s => r[t] = q[t]
  /\ Range(r[s]) = Range(q[s]) \ {h}
  /\ \A t \in P : h \notin Range(r[t])
  /\ Members(r) = Members(q) \ {h}

\* Appending to queue s a value that is nowhere yet.
Enqueued(P, E, q, s, e, r) ==
  /\ Family(P, E, r)
  /\ Len(r[s]) = Len(q[s]) + 1
  /\ \A t \in P : t # s => r[t] = q[t]
  /\ Range(r[s]) = Range(q[s]) \cup {e}
  /\ Members(r) = Members(q) \cup {e}

\* Moving the head h of queue s to the tail of queue t, which may be s.
Moved(P, E, q, s, t, h, r) ==
  /\ Family(P, E, r)
  /\ h \in E /\ h \in Range(q[s]) /\ h \in Members(q)
  /\ Len(r[s]) >= Len(q[s]) - 1
  /\ \A u \in P : Range(r[u]) \subseteq Range(q[u]) \cup {h}
  /\ \A u \in P : u # t => Range(r[u]) \subseteq Range(q[u]) \ {h}
  /\ Members(r) = Members(q)

\* Membership in a family.
LEMMA InMembers ==
  ASSUME NEW P, NEW E, NEW q \in [P -> Seq(E)]
  PROVE  \A x : x \in Members(q) <=> \E t \in P : x \in Range(q[t])
  BY DEF Members

LEMMA DequeueProps ==
  ASSUME NEW P, NEW E, NEW q, Family(P, E, q), NEW s \in P, q[s] # << >>
  PROVE  Dequeued(P, E, q, s, Head(q[s]), Dequeue(q, s))
  <1>0. q \in [P -> Seq(E)] /\ NoRepeat(q) /\ q[s] \in Seq(E)
    BY DEF Family
  <1> DEFINE h == Head(q[s])
             r == [q EXCEPT ![s] = Tail(@)]
  <1>1. \A k, l \in 1 .. Len(q[s]) : q[s][k] = q[s][l] => k = l
    BY <1>0 DEF NoRepeat
  <1>2. /\ Tail(q[s]) \in Seq(E) /\ Len(Tail(q[s])) = Len(q[s]) - 1
        /\ h = q[s][1] /\ h \in E /\ h \in Range(q[s])
        /\ \A k \in 1 .. Len(q[s]) - 1 : Tail(q[s])[k] = q[s][k + 1]
        /\ Range(Tail(q[s])) = Range(q[s]) \ {h}
    BY <1>0, <1>1, RangeTail
  <1>3. /\ r \in [P -> Seq(E)] /\ r[s] = Tail(q[s]) /\ DOMAIN r = P /\ DOMAIN q = P
        /\ \A t \in P : t # s => r[t] = q[t]
    BY <1>0, <1>2
  <1>4. ASSUME NEW t \in P PROVE h \notin Range(r[t])
    <2>1. CASE t = s
      BY <1>2, <1>3, <2>1
    <2>2. CASE t # s
      <3>1. SUFFICES ASSUME h \in Range(q[t]) PROVE FALSE
        BY <1>3, <2>2
      <3>2. PICK k \in 1 .. Len(q[t]) : q[t][k] = h
        <4>1. q[t] \in Seq(E)
          BY <1>0
        <4>. QED BY <3>1, <4>1, RangeIsIndexed, Zenon
      <3>3. 1 \in 1 .. Len(q[s])
        BY <1>0, <1>2
      <3>. QED BY <1>0, <1>2, <1>3, <2>2, <3>2, <3>3 DEF NoRepeat
    <2>. QED BY <2>1, <2>2
  <1>5. NoRepeat(r)
    <2>1. SUFFICES ASSUME NEW t \in P, NEW u \in P,
                          NEW k \in 1 .. Len(r[t]), NEW l \in 1 .. Len(r[u]),
                          r[t][k] = r[u][l]
                   PROVE  t = u /\ k = l
      BY <1>3 DEF NoRepeat
    <2>2. \A v \in P : \A m \in 1 .. Len(r[v]) :
            \E n \in 1 .. Len(q[v]) : q[v][n] = r[v][m] /\ n = (IF v = s THEN m + 1 ELSE m)
      BY <1>0, <1>2, <1>3
    <2>3. PICK n1 \in 1 .. Len(q[t]) : q[t][n1] = r[t][k] /\ n1 = (IF t = s THEN k + 1 ELSE k)
      BY <2>2
    <2>4. PICK n2 \in 1 .. Len(q[u]) : q[u][n2] = r[u][l] /\ n2 = (IF u = s THEN l + 1 ELSE l)
      BY <2>2
    <2>5. t = u /\ n1 = n2
      BY <1>0, <1>3, <2>1, <2>3, <2>4 DEF NoRepeat
    <2>6. Len(r[t]) \in Nat /\ Len(r[u]) \in Nat
      BY <1>3
    <2>. QED BY <2>3, <2>4, <2>5, <2>6
  <1> HIDE DEF h, r
  <1>6. \A t \in P : Range(r[t]) = Range(q[t]) \ {h}
    BY <1>2, <1>3, <1>4
  <1>7. h \in Members(q) /\ Members(r) = Members(q) \ {h}
    <2>1. \A x : x \in Members(q) <=> \E t \in P : x \in Range(q[t])
      BY <1>0, InMembers
    <2>2. \A x : x \in Members(r) <=> \E t \in P : x \in Range(r[t])
      BY <1>3, InMembers
    <2>3. h \in Members(q)
      BY <1>2, <2>1
    <2>4. ASSUME NEW x PROVE x \in Members(r) <=> x \in Members(q) \ {h}
      <3>1. \A t \in P : x \in Range(r[t]) <=> x \in Range(q[t]) /\ x # h
        BY <1>6, Zenon
      <3>2. x \in Members(r) <=> x \in Members(q) /\ x # h
        BY <2>1, <2>2, <3>1, Zenon
      <3>. QED BY <3>2, Zenon
    <2>. QED BY <2>3, <2>4
  <1>8. Dequeued(P, E, q, s, h, r)
    BY <1>2, <1>3, <1>4, <1>5, <1>6, <1>7 DEF Dequeued, Family
  <1>. QED BY <1>8 DEF Dequeue, h, r

LEMMA EnqueueProps ==
  ASSUME NEW P, NEW E, NEW q, Family(P, E, q), NEW s \in P, NEW e \in E,
         \A t \in P : e \notin Range(q[t])
  PROVE  Enqueued(P, E, q, s, e, Enqueue(q, s, e))
  <1>0. q \in [P -> Seq(E)] /\ NoRepeat(q) /\ q[s] \in Seq(E)
    BY DEF Family
  <1> DEFINE r == [q EXCEPT ![s] = Append(@, e)]
  <1>1. /\ Append(q[s], e) \in Seq(E) /\ Len(Append(q[s], e)) = Len(q[s]) + 1
        /\ Append(q[s], e)[Len(q[s]) + 1] = e
        /\ \A k \in 1 .. Len(q[s]) : Append(q[s], e)[k] = q[s][k]
        /\ Range(Append(q[s], e)) = Range(q[s]) \cup {e}
    BY <1>0, RangeAppend
  <1>2. /\ r \in [P -> Seq(E)] /\ r[s] = Append(q[s], e) /\ DOMAIN r = P /\ DOMAIN q = P
        /\ \A t \in P : t # s => r[t] = q[t]
    BY <1>0, <1>1
  <1>3. \A t \in P : \A k \in 1 .. Len(q[t]) : q[t][k] # e
    <2>1. ASSUME NEW t \in P PROVE \A k \in 1 .. Len(q[t]) : q[t][k] \in Range(q[t])
      <3>1. q[t] \in Seq(E)
        BY <1>0
      <3>. QED BY <3>1, RangeIsIndexed, Zenon
    <2>. QED BY <2>1
  <1>4. \A t \in P : Len(q[t]) \in Nat
    BY <1>0
  <1>5. NoRepeat(r)
    <2>1. SUFFICES ASSUME NEW t \in P, NEW u \in P,
                          NEW k \in 1 .. Len(r[t]), NEW l \in 1 .. Len(r[u]),
                          r[t][k] = r[u][l]
                   PROVE  t = u /\ k = l
      BY <1>2 DEF NoRepeat
    <2>2. \A v \in P : \A m \in 1 .. Len(r[v]) :
            \/ m \in 1 .. Len(q[v]) /\ r[v][m] = q[v][m]
            \/ v = s /\ m = Len(q[s]) + 1 /\ r[v][m] = e
      BY <1>1, <1>2, <1>4
    <2>. QED BY <1>0, <1>2, <1>3, <2>1, <2>2 DEF NoRepeat
  <1> HIDE DEF r
  <1>6. Range(r[s]) = Range(q[s]) \cup {e}
    BY <1>1, <1>2
  <1>7. Members(r) = Members(q) \cup {e}
    <2>1. \A x : x \in Members(q) <=> \E t \in P : x \in Range(q[t])
      BY <1>0, InMembers
    <2>2. \A x : x \in Members(r) <=> \E t \in P : x \in Range(r[t])
      BY <1>2, InMembers
    <2>. QED BY <1>2, <1>6, <2>1, <2>2
  <1>8. Enqueued(P, E, q, s, e, r)
    BY <1>1, <1>2, <1>5, <1>6, <1>7 DEF Enqueued, Family
  <1>. QED BY <1>8 DEF Enqueue, r

LEMMA MoveProps ==
  ASSUME NEW P, NEW E, NEW q, Family(P, E, q),
         NEW s \in P, NEW t \in P, q[s] # << >>
  PROVE  Moved(P, E, q, s, t, Head(q[s]), Enqueue(Dequeue(q, s), t, Head(q[s])))
  <1> DEFINE h == Head(q[s])
             m == Dequeue(q, s)
             r == Enqueue(m, t, h)
  <1>1. Dequeued(P, E, q, s, h, m)
    BY DequeueProps
  <1> HIDE DEF h, m
  <1>2. Enqueued(P, E, m, t, h, r)
    BY <1>1, EnqueueProps DEF Dequeued
  <1> HIDE DEF r
  <1>3. Len(r[s]) >= Len(q[s]) - 1
    <2>1. Len(q[s]) \in Nat
      BY DEF Family
    <2>. QED BY <1>1, <1>2, <2>1 DEF Dequeued, Enqueued
  <1>4. \A u \in P : Range(m[u]) \subseteq Range(q[u]) \ {h}
    BY <1>1 DEF Dequeued
  <1>5. /\ \A u \in P : Range(r[u]) \subseteq Range(q[u]) \cup {h}
        /\ \A u \in P : u # t => Range(r[u]) \subseteq Range(q[u]) \ {h}
    BY <1>2, <1>4 DEF Enqueued
  <1>6. Members(r) = Members(q)
    BY <1>1, <1>2 DEF Dequeued, Enqueued
  <1>7. Moved(P, E, q, s, t, h, r)
    BY <1>1, <1>2, <1>3, <1>5, <1>6 DEF Moved, Dequeued, Enqueued
  <1>. QED BY <1>7 DEF h, m, r

\* A queue of distinct elements of S that lacks one of them is shorter than S.
LEMMA DistinctIsShort ==
  ASSUME NEW S, IsFiniteSet(S), NEW q \in Seq(S), NEW e \in S, e \notin Range(q),
         \A k, l \in 1 .. Len(q) : q[k] = q[l] => k = l
  PROVE  Len(q) < Cardinality(S)
  <1>1. q \in [1 .. Len(q) -> S \ {e}] /\ Len(q) \in Nat
    <2>1. \A k \in 1 .. Len(q) : q[k] \in Range(q)
      BY RangeIsIndexed, Zenon
    <2>. QED BY <2>1
  <1>2. q \in Injection(1 .. Len(q), S \ {e})
    BY <1>1 DEF Injection, IsInjective
  <1>3. IsFiniteSet(1 .. Len(q)) /\ Cardinality(1 .. Len(q)) = Len(q)
    <2>1. 1 \in Int /\ Len(q) \in Int
      BY <1>1
    <2>2. IsFiniteSet(1 .. Len(q)) /\ Cardinality(1 .. Len(q)) = IF 1 > Len(q) THEN 0 ELSE Len(q) - 1 + 1
      BY <2>1, FS_Interval, Zenon
    <2>. QED BY <1>1, <2>2
  <1>4. IsFiniteSet(S \ {e}) /\ Cardinality(S \ {e}) = Cardinality(S) - 1
    BY FS_RemoveElement
  <1>5. Cardinality(1 .. Len(q)) <= Cardinality(S \ {e})
    BY <1>2, <1>3, <1>4, FS_Injection
  <1>6. Cardinality(S) \in Nat
    BY FS_CardinalityType
  <1>. QED BY <1>1, <1>3, <1>4, <1>5, <1>6

-----------------------------------------------------------------------------
(* Single sequences: what they contain, and the ones without repetition.    *)

Distinct(q) == \A j, k \in DOMAIN q : q[j] = q[k] => j = k

\* A sequence is its head and its tail.
LEMMA RangeSplit ==
  ASSUME NEW E, NEW q \in Seq(E), q # << >>
  PROVE  Range(q) \subseteq {Head(q)} \cup Range(Tail(q))
<1>1. /\ DOMAIN q = 1 .. Len(q) /\ DOMAIN Tail(q) = 1 .. Len(q) - 1
      /\ Len(q) \in Nat /\ Len(q) > 0 /\ Head(q) = q[1]
      /\ \A k \in 1 .. Len(q) - 1 : Tail(q)[k] = q[k + 1]
  OBVIOUS
<1>2. ASSUME NEW k \in 1 .. Len(q), k # 1 PROVE q[k] \in Range(Tail(q))
  <2> DEFINE l == k - 1
  <2>1. l \in DOMAIN Tail(q) /\ Tail(q)[l] = q[k]
    BY <1>1, <1>2
  <2> QED BY <2>1, Zenon DEF Range
<1> QED BY <1>1, <1>2 DEF Range

\* Joining two sequences loses nothing.
LEMMA RangeConcatHas ==
  ASSUME NEW E, NEW q \in Seq(E), NEW r \in Seq(E)
  PROVE  Range(q) \cup Range(r) \subseteq Range(q \o r)
<1>1. /\ DOMAIN q = 1 .. Len(q) /\ DOMAIN r = 1 .. Len(r) /\ DOMAIN (q \o r) = 1 .. Len(q) + Len(r)
      /\ Len(q) \in Nat /\ Len(r) \in Nat
      /\ \A k \in 1 .. Len(q) : (q \o r)[k] = q[k]
  OBVIOUS
<1>2. \A k \in 1 .. Len(r) : /\ Len(q) + k \in 1 .. Len(q) + Len(r)
                             /\ (q \o r)[Len(q) + k] = r[k]
  BY <1>1
<1>3. Range(q) \subseteq Range(q \o r)
  BY <1>1 DEF Range
<1>4. ASSUME NEW k \in 1 .. Len(r) PROVE r[k] \in Range(q \o r)
  <2> DEFINE l == Len(q) + k
  <2>1. l \in DOMAIN (q \o r) /\ (q \o r)[l] = r[k]
    BY <1>1, <1>2
  <2> QED BY <2>1 DEF Range
<1> QED BY <1>1, <1>3, <1>4 DEF Range

\* Appending a new value repeats none.
LEMMA DistinctAppend ==
  ASSUME NEW E, NEW q \in Seq(E), NEW e \in E
  PROVE  /\ Range(Append(q, e)) = Range(q) \cup {e}
         /\ Distinct(q) /\ e \notin Range(q) => Distinct(Append(q, e))
<1>1. /\ DOMAIN q = 1 .. Len(q) /\ DOMAIN Append(q, e) = 1 .. Len(q) + 1 /\ Len(q) \in Nat
      /\ \A k \in 1 .. Len(q) : Append(q, e)[k] = q[k]
      /\ Append(q, e)[Len(q) + 1] = e
  OBVIOUS
<1>2. \A k \in DOMAIN Append(q, e) : \/ k \in DOMAIN q /\ Append(q, e)[k] = q[k]
                                     \/ k = Len(q) + 1 /\ Append(q, e)[k] = e
  BY <1>1
<1>3. Range(Append(q, e)) \subseteq Range(q) \cup {e}
  BY <1>2, Zenon DEF Range
<1>4. ASSUME Distinct(q), e \notin Range(q) PROVE Distinct(Append(q, e))
  BY <1>2, <1>4, Zenon DEF Range, Distinct
<1> QED BY <1>3, <1>4, RangeAppend

\* Joining sequences that share no value repeats none.
LEMMA DistinctConcat ==
  ASSUME NEW E, NEW q \in Seq(E), NEW r \in Seq(E)
  PROVE  /\ Range(q \o r) = Range(q) \cup Range(r)
         /\ Distinct(q) /\ Distinct(r) /\ Range(q) \cap Range(r) = {} => Distinct(q \o r)
<1>1. /\ DOMAIN q = 1 .. Len(q) /\ DOMAIN r = 1 .. Len(r) /\ DOMAIN (q \o r) = 1 .. Len(q) + Len(r)
      /\ Len(q) \in Nat /\ Len(r) \in Nat
      /\ \A k \in 1 .. Len(q) + Len(r) : (q \o r)[k] = IF k <= Len(q) THEN q[k] ELSE r[k - Len(q)]
  OBVIOUS
<1>2. ASSUME NEW k \in DOMAIN (q \o r)
      PROVE  \/ k \in DOMAIN q /\ (q \o r)[k] = q[k]
             \/ k - Len(q) \in DOMAIN r /\ (q \o r)[k] = r[k - Len(q)]
  BY <1>1
<1>3. Range(q \o r) \subseteq Range(q) \cup Range(r)
  BY <1>2, Zenon DEF Range
<1>4. ASSUME Distinct(q), Distinct(r), Range(q) \cap Range(r) = {},
             NEW j \in DOMAIN (q \o r), NEW k \in DOMAIN (q \o r), (q \o r)[j] = (q \o r)[k]
      PROVE  j = k
  <2>1. CASE j \in DOMAIN q /\ k \in DOMAIN q
    BY <2>1, <1>1, <1>4 DEF Distinct
  <2>2. CASE j - Len(q) \in DOMAIN r /\ k - Len(q) \in DOMAIN r
    <3>1. j - Len(q) = k - Len(q)
      BY <2>2, <1>1, <1>4 DEF Distinct
    <3> QED BY <3>1, <1>1
  <2>3. \A a \in DOMAIN q, b \in DOMAIN r : q[a] # r[b]
    BY <1>4, Zenon DEF Range
  <2> QED BY <2>1, <2>2, <2>3, <1>2, <1>4, Zenon
<1> QED BY <1>3, <1>4, RangeConcatHas DEF Distinct

\* Without repetition the head is not in the tail.
LEMMA DistinctTail ==
  ASSUME NEW E, NEW q \in Seq(E), q # << >>, Distinct(q)
  PROVE  /\ Distinct(Tail(q)) /\ Head(q) \notin Range(Tail(q))
         /\ Range(q) = {Head(q)} \cup Range(Tail(q))
<1>1. /\ DOMAIN q = 1 .. Len(q) /\ DOMAIN Tail(q) = 1 .. Len(q) - 1
      /\ Len(q) \in Nat /\ Len(q) > 0 /\ Head(q) = q[1]
      /\ \A k \in 1 .. Len(q) - 1 : Tail(q)[k] = q[k + 1]
  OBVIOUS
<1>2. \A k \in DOMAIN Tail(q) : k + 1 \in DOMAIN q /\ k + 1 # 1 /\ Tail(q)[k] = q[k + 1]
  BY <1>1
<1>3. 1 \in DOMAIN q
  BY <1>1
<1>4. Range(Tail(q)) \subseteq Range(q) /\ Head(q) \in Range(q)
  BY <1>1, <1>2, <1>3, ZenonT(30) DEF Range
<1>5. Head(q) \notin Range(Tail(q))
  BY <1>1, <1>2, <1>3 DEF Range, Distinct
<1>6. ASSUME NEW j \in DOMAIN Tail(q), NEW k \in DOMAIN Tail(q), Tail(q)[j] = Tail(q)[k]
      PROVE  j = k
  <2>1. j + 1 = k + 1
    BY <1>2, <1>6 DEF Distinct
  <2> QED BY <2>1, <1>1
<1> QED BY <1>4, <1>5, <1>6, RangeSplit DEF Distinct

\* A sequence without repetitions has as many elements as places.
LEMMA DistinctSize ==
  ASSUME NEW E, NEW q \in Seq(E), Distinct(q)
  PROVE  IsFiniteSet(Range(q)) /\ Cardinality(Range(q)) = Len(q)
<1>1. DOMAIN q = 1 .. Len(q) /\ Len(q) \in Nat /\ q \in [1 .. Len(q) -> E]
  OBVIOUS
<1>2. q \in [1 .. Len(q) -> Range(q)]
  <2>1. \A k \in 1 .. Len(q) : q[k] \in Range(q)
    BY <1>1, Zenon DEF Range
  <2> QED BY <1>1, <2>1
<1>3. q \in Bijection(1 .. Len(q), Range(q))
  <2>1. q \in Injection(1 .. Len(q), Range(q))
    BY <1>1, <1>2, Zenon DEF Injection, IsInjective, Distinct
  <2>2. \A e \in Range(q) : \E k \in 1 .. Len(q) : q[k] = e
    BY <1>1, Zenon DEF Range
  <2> QED BY <1>2, <2>1, <2>2 DEF Bijection, Surjection
<1>4. IsFiniteSet(1 .. Len(q)) /\ Cardinality(1 .. Len(q)) = Len(q)
  BY <1>1, FS_Interval
<1> QED BY <1>3, <1>4, FS_Bijection DEF ExistsBijection
=============================================================================
