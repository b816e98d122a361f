------------------------- MODULE ChannelProxy_proofs -------------------------
(***************************************************************************)
(* Proofs about ChannelProxy, for every number of filters, messages and    *)
(* calls: types, what the listener hears, and what the filters are told.   *)
(***************************************************************************)
EXTENDS ChannelProxy, TLAPS, FiniteSetTheorems, SequenceTheorems

(***************************************************************************)
(* What Only selects.                                                      *)
(***************************************************************************)

\* Induction over the naturals, for a set.
LEMMA NatSet ==
  ASSUME NEW S, 0 \in S, \A n \in Nat : n \in S => n + 1 \in S
  PROVE  \A n \in Nat : n \in S
<1>1. SUFFICES ASSUME NEW m \in Nat, m \notin S PROVE FALSE
  OBVIOUS
<1> DEFINE D == {k \in 0..m : k \notin S}
           f == [k \in D |-> k - 1]
<1>2. IsFiniteSet(D)
  <2>1. IsFiniteSet(0..m)
    BY FS_Interval
  <2>2. QED
    BY <2>1, FS_Subset
<1>3. m \in D /\ \A k \in D : k \in Nat /\ k # 0 /\ k - 1 \in D \ {m}
  <2>1. m \in D
    <3>1. m \in 0..m
      BY <1>1
    <3>2. QED
      BY <1>1, <3>1
  <2>2. ASSUME NEW k \in D PROVE k \in Nat /\ k # 0 /\ k - 1 \in D \ {m}
    <3>1. k \in Nat /\ k <= m /\ k \notin S /\ k # 0
      OBVIOUS
    <3>2. k - 1 \in Nat /\ (k - 1) + 1 = k
      BY <3>1
    <3>3. k - 1 \notin S
      BY <3>1, <3>2
    <3>4. QED
      BY <3>1, <3>2, <3>3
  <2>3. QED
    BY <2>1, <2>2
<1>4. /\ IsFiniteSet(D \ {m}) /\ Cardinality(D) \in Nat
      /\ Cardinality(D \ {m}) = Cardinality(D) - 1
  BY <1>2, <1>3, FS_RemoveElement, FS_CardinalityType
<1>5. f \in [D -> D \ {m}]
  BY <1>3
<1>6. \A x, y \in D : x # y => f[x] # f[y]
  BY <1>3
<1> HIDE DEF f, D
<1>7. Cardinality(D \ {m}) < Cardinality(D)
  BY <1>4
<1>8. \E x, y \in D : x # y /\ f[x] = f[y]
  BY <1>2, <1>4, <1>5, <1>7, FS_PigeonHole
<1>9. QED
  BY <1>6, <1>8

\* first is what Only computes up to each of the first m places of q.
Selects(first, q, S, m) ==
  first = [k \in 0..m |->
             IF k = 0 THEN <<>>
             ELSE IF q[k] \in S THEN Append(first[k - 1], q[k]) ELSE first[k - 1]]

LEMMA SelectsExists ==
  ASSUME NEW q, NEW S
  PROVE  \A m \in Nat : \E first : Selects(first, q, S, m)
<1> DEFINE N == {m \in Nat : \E first : Selects(first, q, S, m)}
<1>1. 0 \in N
  <2>1. Selects([k \in 0..0 |-> <<>>], q, S, 0)
    BY DEF Selects
  <2>2. QED
    BY <2>1
<1>2. ASSUME NEW m \in Nat, m \in N PROVE m + 1 \in N
  <2>1. PICK first : Selects(first, q, S, m)
    BY <1>2
  <2> DEFINE longer == [k \in 0..(m + 1) |->
                IF k = m + 1
                THEN IF q[k] \in S THEN Append(first[m], q[k]) ELSE first[m]
                ELSE first[k]]
  <2>2. \A k \in 0..(m + 1) :
          longer[k] = IF k = 0 THEN <<>>
                      ELSE IF q[k] \in S THEN Append(longer[k - 1], q[k]) ELSE longer[k - 1]
    <3>1. SUFFICES ASSUME NEW k \in 0..(m + 1)
                   PROVE  longer[k] = IF k = 0 THEN <<>>
                            ELSE IF q[k] \in S THEN Append(longer[k - 1], q[k])
                            ELSE longer[k - 1]
      OBVIOUS
    <3>2. CASE k = m + 1
      <4>1. k - 1 = m /\ m \in 0..(m + 1) /\ m # m + 1 /\ k # 0
        BY <3>2
      <4>2. longer[k - 1] = first[m]
        BY <4>1
      <4>3. QED
        BY <3>2, <4>1, <4>2
    <3>3. CASE k # m + 1
      <4>1. k \in 0..m
        BY <3>3
      <4>2. longer[k] = first[k]
        BY <3>3
      <4>3. first[k] = IF k = 0 THEN <<>>
                       ELSE IF q[k] \in S THEN Append(first[k - 1], q[k]) ELSE first[k - 1]
        BY <2>1, <4>1 DEF Selects
      <4>4. k # 0 => longer[k - 1] = first[k - 1]
        BY <4>1
      <4>5. QED
        BY <4>2, <4>3, <4>4
    <3>4. QED
      BY <3>2, <3>3
  <2>3. longer = [k \in 0..(m + 1) |-> longer[k]]
    OBVIOUS
  <2> HIDE DEF longer
  <2>4. Selects(longer, q, S, m + 1)
    BY <2>2, <2>3 DEF Selects
  <2>5. QED
    BY <2>4
<1> HIDE DEF N
<1>3. \A m \in Nat : m \in N
  BY <1>1, <1>2, NatSet
<1>4. QED
  BY <1>3 DEF N

\* Sequences that begin alike select alike.
LEMMA SelectsAlike ==
  ASSUME NEW q, NEW r, NEW S, NEW m \in Nat, NEW n \in Nat, m <= n,
         \A k \in 1..m : q[k] = r[k],
         NEW f, Selects(f, q, S, m), NEW g, Selects(g, r, S, n)
  PROVE  f[m] = g[m]
<1> DEFINE N == {k \in Nat : k <= m => f[k] = g[k]}
<1>1. /\ \A k \in 0..m : f[k] = IF k = 0 THEN <<>>
            ELSE IF q[k] \in S THEN Append(f[k - 1], q[k]) ELSE f[k - 1]
      /\ \A k \in 0..n : g[k] = IF k = 0 THEN <<>>
            ELSE IF r[k] \in S THEN Append(g[k - 1], r[k]) ELSE g[k - 1]
  BY DEF Selects
<1>2. 0 \in N
  BY <1>1
<1>3. ASSUME NEW k \in Nat, k \in N PROVE k + 1 \in N
  <2>1. SUFFICES ASSUME k + 1 <= m PROVE f[k + 1] = g[k + 1]
    OBVIOUS
  <2>2. k + 1 \in 0..m /\ k + 1 \in 0..n /\ k + 1 \in 1..m /\ (k + 1) - 1 = k /\ k + 1 # 0
    BY <2>1
  <2>3. f[k] = g[k]
    BY <1>3, <2>1
  <2>4. /\ f[k + 1] = IF q[k + 1] \in S THEN Append(f[k], q[k + 1]) ELSE f[k]
        /\ g[k + 1] = IF r[k + 1] \in S THEN Append(g[k], r[k + 1]) ELSE g[k]
    BY <1>1, <2>2
  <2>5. QED
    BY <2>2, <2>3, <2>4
<1> HIDE DEF N
<1>4. \A k \in Nat : k \in N
  BY <1>2, <1>3, NatSet
<1>5. QED
  BY <1>4 DEF N

LEMMA OnlyIs ==
  ASSUME NEW T, NEW q \in Seq(T), NEW S
  PROVE  \E first : Selects(first, q, S, Len(q)) /\ Only(q, S) = first[Len(q)]
<1> DEFINE f == CHOOSE first : Selects(first, q, S, Len(q))
<1>1. Selects(f, q, S, Len(q))
  BY SelectsExists
<1>2. Only(q, S) = f[Len(q)]
  BY DEF Only, Selects
<1>3. QED
  BY <1>1, <1>2

LEMMA OnlyEmpty ==
  ASSUME NEW S
  PROVE  Only(<<>>, S) = <<>>
<1>1. PICK first : Selects(first, <<>>, S, Len(<<>>)) /\ Only(<<>>, S) = first[Len(<<>>)]
  <2>1. <<>> \in Seq({})
    OBVIOUS
  <2>2. QED
    BY <2>1, OnlyIs
<1>2. Len(<<>>) = 0
  OBVIOUS
<1>3. QED
  BY <1>1, <1>2 DEF Selects

LEMMA OnlyAppend ==
  ASSUME NEW T, NEW q \in Seq(T), NEW x \in T, NEW S
  PROVE  Only(Append(q, x), S) = IF x \in S THEN Append(Only(q, S), x) ELSE Only(q, S)
<1> DEFINE r == Append(q, x)
           n == Len(q)
<1>1. /\ r \in Seq(T) /\ Len(r) = n + 1 /\ n \in Nat
      /\ \A k \in 1..n : q[k] = r[k]
      /\ r[n + 1] = x
  OBVIOUS
<1>2. PICK f : Selects(f, q, S, n) /\ Only(q, S) = f[n]
  BY OnlyIs
<1>3. PICK g : Selects(g, r, S, n + 1) /\ Only(r, S) = g[n + 1]
  BY <1>1, OnlyIs
<1> HIDE DEF r, n
<1>4. f[n] = g[n]
  BY <1>1, <1>2, <1>3, SelectsAlike
<1>5. g[n + 1] = IF r[n + 1] \in S THEN Append(g[n], r[n + 1]) ELSE g[n]
  <2>1. n + 1 \in 0..(n + 1) /\ n + 1 # 0 /\ (n + 1) - 1 = n
    BY <1>1
  <2>2. QED
    BY <1>3, <2>1 DEF Selects
<1>6. QED
  BY <1>1, <1>2, <1>3, <1>4, <1>5 DEF r

LEMMA OnlyType ==
  ASSUME NEW T, NEW q \in Seq(T), NEW S
  PROVE  Only(q, S) \in Seq(T)
<1> DEFINE N == {n \in Nat : \A r \in Seq(T) : Len(r) = n => Only(r, S) \in Seq(T)}
<1>1. 0 \in N
  <2>1. \A r \in Seq(T) : Len(r) = 0 => r = <<>>
    OBVIOUS
  <2>2. QED
    BY <2>1, OnlyEmpty
<1>2. ASSUME NEW n \in Nat, n \in N PROVE n + 1 \in N
  <2>1. SUFFICES ASSUME NEW r \in Seq(T), Len(r) = n + 1 PROVE Only(r, S) \in Seq(T)
    OBVIOUS
  <2>2. PICK p \in Seq(T), x \in T : r = Append(p, x)
    <3>1. r # <<>>
      BY <2>1
    <3>2. QED
      BY <3>1, SequenceEmptyOrAppend
  <2>3. Len(p) = n
    BY <2>1, <2>2
  <2>4. Only(p, S) \in Seq(T)
    BY <1>2, <2>3
  <2>5. Only(Append(p, x), S) = IF x \in S THEN Append(Only(p, S), x) ELSE Only(p, S)
    BY <2>2, OnlyAppend
  <2>6. Append(Only(p, S), x) \in Seq(T)
    BY <2>4
  <2>7. QED
    BY <2>2, <2>4, <2>5, <2>6
<1> HIDE DEF N
<1>3. \A n \in Nat : n \in N
  BY <1>1, <1>2, NatSet
<1>4. QED
  BY <1>3 DEF N

Adds(r, q, x) == r = Append(q, x)
Joins(r, p, q) == r = p \o q

LEMMA AddsIs ==
  ASSUME NEW T, NEW q \in Seq(T), NEW x \in T, NEW r, Adds(r, q, x)
  PROVE  /\ r \in Seq(T) /\ Len(r) = Len(q) + 1
         /\ \A i \in 1..(Len(q) + 1) : r[i] = IF i <= Len(q) THEN q[i] ELSE x
  BY DEF Adds

LEMMA JoinsIs ==
  ASSUME NEW T, NEW p \in Seq(T), NEW q \in Seq(T), NEW r, Joins(r, p, q)
  PROVE  /\ r \in Seq(T) /\ Len(r) = Len(p) + Len(q)
         /\ \A i \in 1..(Len(p) + Len(q)) : r[i] = IF i <= Len(p) THEN p[i] ELSE q[i - Len(p)]
  BY ConcatProperties DEF Joins

\* p with q joined and x added is p joined with q that has x added.
LEMMA JoinsAdds ==
  ASSUME NEW T, NEW a \in Seq(T), NEW b \in Seq(T), NEW x \in T,
         NEW ab, Joins(ab, a, b), NEW bx, Adds(bx, b, x), NEW u, Adds(u, ab, x)
  PROVE  Joins(u, a, bx)
<1> DEFINE v == a \o bx
<1>1. /\ ab \in Seq(T) /\ Len(ab) = Len(a) + Len(b)
      /\ \A i \in 1..(Len(a) + Len(b)) : ab[i] = IF i <= Len(a) THEN a[i] ELSE b[i - Len(a)]
  BY JoinsIs
<1>2. /\ bx \in Seq(T) /\ Len(bx) = Len(b) + 1
      /\ \A i \in 1..(Len(b) + 1) : bx[i] = IF i <= Len(b) THEN b[i] ELSE x
  BY AddsIs
<1>3. /\ u \in Seq(T) /\ Len(u) = Len(ab) + 1
      /\ \A i \in 1..(Len(ab) + 1) : u[i] = IF i <= Len(ab) THEN ab[i] ELSE x
  BY <1>1, AddsIs
<1>4. Joins(v, a, bx)
  BY DEF Joins
<1> HIDE DEF v
<1>5. /\ v \in Seq(T) /\ Len(v) = Len(a) + Len(bx)
      /\ \A i \in 1..(Len(a) + Len(bx)) : v[i] = IF i <= Len(a) THEN a[i] ELSE bx[i - Len(a)]
  BY <1>2, <1>4, JoinsIs
<1>6. Len(a) \in Nat /\ Len(b) \in Nat
  OBVIOUS
<1>7. Len(u) = Len(v)
  BY <1>1, <1>2, <1>3, <1>5, <1>6
<1>8. ASSUME NEW i \in 1..Len(u) PROVE u[i] = v[i]
  <2>1. i \in Nat /\ i \in 1..(Len(ab) + 1) /\ i \in 1..(Len(a) + Len(bx))
    BY <1>1, <1>2, <1>3, <1>6
  <2>2. CASE i <= Len(a)
    BY <1>1, <1>3, <1>5, <1>6, <2>1, <2>2
  <2>3. CASE i > Len(a)
    <3>1. v[i] = bx[i - Len(a)] /\ i - Len(a) \in 1..(Len(b) + 1)
      BY <1>1, <1>2, <1>5, <1>6, <2>1, <2>3
    <3>2. v[i] = IF i - Len(a) <= Len(b) THEN b[i - Len(a)] ELSE x
      BY <1>2, <3>1
    <3>3. u[i] = IF i - Len(a) <= Len(b) THEN b[i - Len(a)] ELSE x
      BY <1>1, <1>3, <1>6, <2>1, <2>3
    <3>4. QED
      BY <3>2, <3>3
  <2>4. QED
    BY <1>6, <2>1, <2>2, <2>3
<1>9. u = v
  BY <1>3, <1>5, <1>7, <1>8, SeqEqual
<1>10. QED
  BY <1>9 DEF v, Joins

LEMMA OnlyConcat ==
  ASSUME NEW T, NEW q \in Seq(T), NEW r \in Seq(T), NEW S
  PROVE  Only(q \o r, S) = Only(q, S) \o Only(r, S)
<1> DEFINE N == {n \in Nat : \A s \in Seq(T) :
                    Len(s) = n => Only(q \o s, S) = Only(q, S) \o Only(s, S)}
<1>1. 0 \in N
  <2>1. \A s \in Seq(T) : Len(s) = 0 => s = <<>>
    OBVIOUS
  <2>2. q \o <<>> = q /\ Only(q, S) \o <<>> = Only(q, S)
    BY OnlyType
  <2>3. QED
    BY <2>1, <2>2, OnlyEmpty
<1>2. ASSUME NEW n \in Nat, n \in N PROVE n + 1 \in N
  <2>1. SUFFICES ASSUME NEW s \in Seq(T), Len(s) = n + 1
                 PROVE  Only(q \o s, S) = Only(q, S) \o Only(s, S)
    OBVIOUS
  <2>2. PICK p \in Seq(T), x \in T : s = Append(p, x)
    <3>1. s # <<>>
      BY <2>1
    <3>2. QED
      BY <3>1, SequenceEmptyOrAppend
  <2>3. Len(p) = n
    BY <2>1, <2>2
  <2>4. Only(q \o p, S) = Only(q, S) \o Only(p, S)
    BY <1>2, <2>3
  <2>5. q \o s = Append(q \o p, x) /\ q \o p \in Seq(T)
    BY <2>2
  <2>6. /\ Only(q \o s, S) = IF x \in S THEN Append(Only(q \o p, S), x) ELSE Only(q \o p, S)
        /\ Only(s, S) = IF x \in S THEN Append(Only(p, S), x) ELSE Only(p, S)
    <3>1. Only(Append(q \o p, x), S) =
            IF x \in S THEN Append(Only(q \o p, S), x) ELSE Only(q \o p, S)
      BY <2>5, OnlyAppend
    <3>2. Only(Append(p, x), S) = IF x \in S THEN Append(Only(p, S), x) ELSE Only(p, S)
      BY OnlyAppend
    <3>3. QED
      BY <2>2, <2>5, <3>1, <3>2
  <2>7. Only(q, S) \in Seq(T) /\ Only(p, S) \in Seq(T)
    BY OnlyType
  <2> DEFINE a == Only(q, S)
             b == Only(p, S)
             ab == Only(q \o p, S)
             bx == Only(s, S)
             abx == Only(q \o s, S)
  <2>8. a \in Seq(T) /\ b \in Seq(T) /\ Joins(ab, a, b)
    BY <2>4, <2>7 DEF Joins
  <2>9. IF x \in S THEN Adds(abx, ab, x) /\ Adds(bx, b, x) ELSE abx = ab /\ bx = b
    BY <2>6 DEF Adds
  <2>10. Joins(abx, a, bx)
    <3> HIDE DEF a, b, ab, bx, abx
    <3>1. CASE x \in S
      BY <2>8, <2>9, <3>1, JoinsAdds
    <3>2. CASE x \notin S
      BY <2>8, <2>9, <3>2
    <3>3. QED
      BY <3>1, <3>2
  <2>11. QED
    BY <2>10 DEF Joins
<1> HIDE DEF N
<1>3. \A n \in Nat : n \in N
  BY <1>1, <1>2, NatSet
<1>4. QED
  BY <1>3 DEF N

LEMMA OnlyTail ==
  ASSUME NEW T, NEW q \in Seq(T), q # <<>>, NEW S
  PROVE  Only(q, S) = (IF Head(q) \in S THEN <<Head(q)>> ELSE <<>>) \o Only(Tail(q), S)
<1>1. <<Head(q)>> \in Seq(T) /\ Tail(q) \in Seq(T) /\ q = <<Head(q)>> \o Tail(q)
  BY HeadTailProperties
<1> DEFINE h == Head(q)
           t == Tail(q)
<1> HIDE DEF h, t
<1>2. Only(<<h>> \o t, S) = Only(<<h>>, S) \o Only(t, S)
  <2>1. <<h>> \in Seq(T) /\ t \in Seq(T)
    BY <1>1 DEF h, t
  <2>2. \A a, b \in Seq(T) : Only(a \o b, S) = Only(a, S) \o Only(b, S)
    BY OnlyConcat
  <2>3. QED
    BY <2>1, <2>2
<1>3. Only(<<h>>, S) = IF h \in S THEN <<h>> ELSE <<>>
  <2>1. <<>> \in Seq(T) /\ h \in T
    BY DEF h
  <2>2. Only(Append(<<>>, h), S) = IF h \in S THEN Append(Only(<<>>, S), h) ELSE Only(<<>>, S)
    BY <2>1, OnlyAppend
  <2>3. Append(<<>>, h) = <<h>>
    OBVIOUS
  <2>4. QED
    BY <2>2, <2>3, OnlyEmpty
<1>4. QED
  BY <1>1, <1>2, <1>3 DEF h, t

(***************************************************************************)
(* The invariant.                                                          *)
(***************************************************************************)

\* The channel is created and opened by tasks that come before those that close it.
Opening ==
  /\ \A op \in {"create", "open"} : \A j, k \in At(tasks, op) : j = k
  /\ \A j \in At(tasks, "create") : \E k \in At(tasks, "open") : j < k
  /\ \A j \in At(tasks, "open"), k \in At(tasks, "close") : j < k
  /\ proxy.closes = 0 => At(tasks, "close") = {}
  /\ ~proxy.init => At(tasks, "open") = {} /\ ctx.channel = "none" /\ ctx.refs = 0
  /\ At(tasks, "open") # {} =>
       /\ proxy.init /\ ctx.refs = 0
       /\ ctx.channel = IF At(tasks, "create") = {} THEN "created" ELSE "none"
  /\ proxy.init /\ At(tasks, "open") = {} =>
       /\ ctx.channel \notin {"none", "created"}
       /\ ctx.refs = IF ctx.channel = "destroyed" THEN 0 ELSE 1

\* What the listener thread is given comes from a connection that was made.
Connecting ==
  /\ ctx.channel = "connected" => ctx.pid
  /\ ctx.pid => ctx.channel \in {"connected", "lost", "destroyed"}
  /\ \A k \in DOMAIN posted :
       /\ posted[k].op \in {"connected", "message", "error"}
       /\ IF posted[k].op = "error" THEN posted[k].n = 0 ELSE ctx.pid
       /\ posted[k].op = "message" => posted[k].n \notin Urgent
  /\ \A k \in DOMAIN urgent : urgent[k] \in Urgent /\ ctx.pid
  /\ At(arrived, "message") # {} => ctx.pid

\* A listener that has been told knows it.
Hearing ==
  /\ ConnectedFirst
  /\ At(heard, "connected") # {} => proxy.told
  /\ proxy.listener /\ proxy.told => At(heard, "connected") # {}

Sorted(q) == \A j, k \in DOMAIN q : j < k => q[j] < q[k]

\* Filters are kept in the order they were added.
Filters ==
  /\ Sorted(ctx.filters) /\ Sorted(ctx.pending)
  /\ \A j \in DOMAIN ctx.filters, k \in DOMAIN ctx.pending : ctx.filters[j] < ctx.pending[k]
  /\ \A f \in ToSet(ctx.filters) \cup ToSet(ctx.pending) : f <= proxy.added

\* What a filter has been told.
Log(f) ==
  /\ f \in ToSet(ctx.pending) \/ f > proxy.added => told[f] = <<>>
  /\ At(told[f], "removed") # {} => f \notin ToSet(ctx.filters)
  /\ At(told[f], "connected") # {} => ctx.pid
  /\ f \in ToSet(ctx.filters) /\ ctx.pid => At(told[f], "connected") # {}
  /\ At(told[f], "added") # {} /\ At(told[f], "removed") = {} =>
       f \in ToSet(ctx.filters) /\ ctx.channel # "destroyed"
  /\ \A k \in At(told[f], "removed") : k = Len(told[f])
  /\ \A j, k \in At(told[f], "connected") : j = k
  /\ \A k \in At(told[f], "message") : \E j \in At(told[f], "connected") : j < k

\* A task that removes a filter comes after the one that adds it, and before the close.
Removing ==
  /\ ~ctx.lost
  /\ \A k \in At(tasks, "remove") :
       /\ tasks[k].f \in proxy.removing
       /\ \/ tasks[k].f \in ToSet(ctx.filters)
          \/ tasks[k].f \in ToSet(ctx.pending) /\ \E j \in At(tasks, "add") : j < k
  /\ \A j, k \in At(tasks, "remove") : tasks[j].f = tasks[k].f => j = k
  /\ \A j \in At(tasks, "remove"), k \in At(tasks, "close") : j < k
  /\ proxy.closes = 0 =>
       1..proxy.added \ proxy.removing \subseteq ToSet(ctx.filters) \cup ToSet(ctx.pending)
  /\ ctx.pending # <<>> => At(tasks, "add") # {}

\* A filter that was there before the connection is there while messages come.
Staying ==
  /\ proxy.early \subseteq 1..proxy.added
  /\ \A f \in proxy.early \ proxy.removing :
       /\ ctx.channel # "destroyed" => f \in ToSet(ctx.filters) \cup ToSet(ctx.pending)
       /\ ctx.channel = "connected" => f \in ToSet(ctx.filters)

(***************************************************************************)
(* What happens where in a sequence that grows or loses its head.          *)
(***************************************************************************)
LEMMA AtIn ==
  ASSUME NEW T, NEW q \in Seq(T), NEW op
  PROVE  /\ At(q, op) \subseteq 1..Len(q) /\ IsFiniteSet(At(q, op))
         /\ \A k \in At(q, op) : k \in Nat /\ k # 0 /\ k <= Len(q) /\ q[k].op = op
         /\ \A k \in DOMAIN q : q[k].op = op => k \in At(q, op)
         /\ At(q, op) = {} <=> \A k \in DOMAIN q : q[k].op # op
<1>1. At(q, op) \subseteq 1..Len(q) /\ Len(q) \in Nat
  BY DEF At
<1>2. IsFiniteSet(At(q, op))
  <2>1. IsFiniteSet(1..Len(q))
    BY <1>1, FS_Interval
  <2>2. QED
    BY <1>1, <2>1, FS_Subset
<1>3. QED
  BY <1>1, <1>2 DEF At

LEMMA AtAdds ==
  ASSUME NEW T, NEW q \in Seq(T), NEW x \in T, NEW r, Adds(r, q, x)
  PROVE  /\ r \in Seq(T) /\ Len(r) = Len(q) + 1 /\ Len(q) \in Nat
         /\ DOMAIN q = 1..Len(q) /\ DOMAIN r = 1..(Len(q) + 1)
         /\ \A k \in DOMAIN q : r[k] = q[k]
         /\ r[Len(q) + 1] = x
         /\ \A op : At(r, op) = At(q, op) \cup (IF x.op = op THEN {Len(q) + 1} ELSE {})
<1>1. /\ r \in Seq(T) /\ Len(r) = Len(q) + 1 /\ Len(q) \in Nat
      /\ \A i \in 1..(Len(q) + 1) : r[i] = IF i <= Len(q) THEN q[i] ELSE x
  BY AddsIs
<1>2. DOMAIN q = 1..Len(q) /\ DOMAIN r = 1..Len(r)
  BY <1>1
<1>3. /\ \A k \in DOMAIN q : r[k] = q[k]
      /\ r[Len(q) + 1] = x
  BY <1>1, <1>2
<1>4. ASSUME NEW op
      PROVE  At(r, op) = At(q, op) \cup (IF x.op = op THEN {Len(q) + 1} ELSE {})
  <2>1. ASSUME NEW k PROVE k \in DOMAIN r <=> k \in DOMAIN q \/ k = Len(q) + 1
    BY <1>1, <1>2
  <2>2. QED
    BY <1>3, <2>1 DEF At
<1>5. QED
  BY <1>1, <1>2, <1>3, <1>4

LEMMA AddsEach ==
  ASSUME NEW T, NEW q \in Seq(T), NEW x \in T, NEW r, Adds(r, q, x)
  PROVE  \A k \in DOMAIN r : (k \in DOMAIN q /\ r[k] = q[k]) \/ r[k] = x
<1>1. /\ Len(q) \in Nat /\ DOMAIN q = 1..Len(q) /\ DOMAIN r = 1..(Len(q) + 1)
      /\ \A k \in DOMAIN q : r[k] = q[k]
      /\ r[Len(q) + 1] = x
  BY AtAdds
<1>2. QED
  BY <1>1

Drops(r, q) == q # <<>> /\ r = Tail(q)

LEMMA AtDrops ==
  ASSUME NEW T, NEW q \in Seq(T), NEW r, Drops(r, q)
  PROVE  /\ r \in Seq(T) /\ Len(r) = Len(q) - 1 /\ Len(q) \in Nat \ {0}
         /\ q[1] = Head(q) /\ q[1] \in T /\ 1 \in DOMAIN q
         /\ DOMAIN q = 1..Len(q) /\ DOMAIN r = 1..(Len(q) - 1)
         /\ \A k \in DOMAIN r : k + 1 \in DOMAIN q /\ r[k] = q[k + 1]
         /\ \A op : \A k : k \in At(r, op) <=> k \in Nat \ {0} /\ k + 1 \in At(q, op)
         /\ \A op : 1 \in At(q, op) <=> q[1].op = op
<1>1. /\ r \in Seq(T) /\ Len(r) = Len(q) - 1 /\ Len(q) \in Nat \ {0}
      /\ q[1] = Head(q) /\ q[1] \in T /\ 1 \in DOMAIN q
      /\ DOMAIN q = 1..Len(q) /\ DOMAIN r = 1..(Len(q) - 1)
      /\ \A k \in DOMAIN r : k + 1 \in DOMAIN q /\ r[k] = q[k + 1]
  BY DEF Drops
<1>2. ASSUME NEW op, NEW k PROVE k \in At(r, op) <=> k \in Nat \ {0} /\ k + 1 \in At(q, op)
  <2>1. CASE k \in Nat \ {0}
    <3>1. k \in DOMAIN r <=> k + 1 \in DOMAIN q
      BY <1>1, <2>1
    <3>2. QED
      BY <1>1, <2>1, <3>1 DEF At
  <2>2. CASE k \notin Nat \ {0}
    BY <1>1, <2>2 DEF At
  <2>3. QED
    BY <2>1, <2>2
<1>3. \A op : 1 \in At(q, op) <=> q[1].op = op
  BY <1>1 DEF At
<1>4. QED
  BY <1>1, <1>2, <1>3

LEMMA TaskPosted ==
  ASSUME TypeOK, NEW t \in Task, PostTask(t)
  PROVE  tasks' \in Seq(Task) /\ Adds(tasks', tasks, t)
  BY DEF TypeOK, PostTask, Adds

LEMMA TaskRun ==
  ASSUME TypeOK, NEW op, Runs(op)
  PROVE  tasks' \in Seq(Task) /\ Drops(tasks', tasks) /\ tasks[1] \in Task /\ tasks[1].op = op
  BY DEF TypeOK, Runs, Drops

LEMMA TheTasks ==
  /\ \A op \in {"create", "open", "close", "send", "add"} : Do(op) \in Task /\ Do(op).op = op
  /\ \A f \in Filter : [op |-> "remove", f |-> f] \in Task
  /\ \A t \in Task : t.f \in Filter \cup {NoFilter}
  BY DEF Do, Task

LEMMA TheCalls ==
  /\ \A op \in {"added", "connected", "error", "closing", "removed"} :
       Says(op) \in Call /\ Says(op).op = op /\ Says(op).n = 0
  /\ \A n \in 1..MaxReceived : Message(n) \in Call
  /\ \A n : Message(n).op = "message" /\ Message(n).n = n
  /\ ConnectedCall \in Call /\ ConnectedCall.op = "connected"
  BY ProxyAssumption DEF Says, Message, ConnectedCall, Call

(***************************************************************************)
(* Types, and the tasks that open and close the channel.                   *)
(***************************************************************************)
LEMMA OpeningPosts ==
  ASSUME TypeOK, Opening, NEW t \in Task, PostTask(t), t.op \notin {"create", "open"},
         t.op = "close" => proxy'.closes # 0,
         proxy'.init = proxy.init, proxy'.closes = 0 => proxy.closes = 0,
         ctx'.channel = ctx.channel, ctx'.refs = ctx.refs
  PROVE  Opening'
<1>1. tasks \in Seq(Task) /\ Adds(tasks', tasks, t)
  BY TaskPosted DEF TypeOK
<1>2. /\ \A op : At(tasks', op) = At(tasks, op) \cup (IF t.op = op THEN {Len(tasks) + 1} ELSE {})
      /\ Len(tasks) \in Nat
  BY <1>1, AtAdds
<1>3. \A op : \A k \in At(tasks, op) : k \in Nat /\ k <= Len(tasks)
  BY <1>1, AtIn
<1>4. At(tasks', "open") = At(tasks, "open") /\ At(tasks', "create") = At(tasks, "create")
  BY <1>2
<1>5. \A j \in At(tasks', "open"), k \in At(tasks', "close") : j < k
  BY <1>2, <1>3, <1>4 DEF Opening
<1>6. proxy'.closes = 0 => At(tasks', "close") = {}
  BY <1>2 DEF Opening
<1>7. QED
  BY <1>4, <1>5, <1>6 DEF Opening, At

LEMMA OpeningSame ==
  ASSUME Opening, UNCHANGED tasks, proxy'.init = proxy.init,
         proxy'.closes = 0 => proxy.closes = 0, ctx'.refs = ctx.refs,
         \/ ctx'.channel = ctx.channel
         \/ ctx.channel \in {"open", "connected"} /\ ctx'.channel \in {"connected", "lost"}
  PROVE  Opening'
<1>1. \A op : At(tasks', op) = At(tasks, op)
  OBVIOUS
<1>2. At(tasks, "open") # {} => ctx.channel \in {"none", "created"}
  BY DEF Opening
<1>3. proxy.init /\ At(tasks, "open") = {} =>
        /\ ctx'.channel \notin {"none", "created"}
        /\ ctx'.refs = IF ctx'.channel = "destroyed" THEN 0 ELSE 1
  BY DEF Opening
<1>4. QED
  BY <1>1, <1>2, <1>3 DEF Opening

LEMMA OpeningRuns ==
  ASSUME TypeOK, Opening, NEW op, Runs(op), op \notin {"create", "open"}, UNCHANGED proxy,
         \/ ctx'.channel = ctx.channel /\ ctx'.refs = ctx.refs
         \/ op = "close" /\ HasChannel(ctx) /\ ctx'.channel = "destroyed" /\ ctx'.refs = ctx.refs - 1
  PROVE  Opening'
<1>1. tasks \in Seq(Task) /\ Drops(tasks', tasks) /\ tasks[1].op = op
  BY TaskRun DEF TypeOK
<1>2. /\ \A o : \A k : k \in At(tasks', o) <=> k \in Nat \ {0} /\ k + 1 \in At(tasks, o)
      /\ \A o : 1 \in At(tasks, o) <=> op = o
  BY <1>1, AtDrops
<1>3. \A o : \A k \in At(tasks, o) : k \in Nat /\ k # 0
  BY <1>1, AtIn
<1>4. \A o \in {"create", "open"} : At(tasks, o) = {} <=> At(tasks', o) = {}
  <2>1. ASSUME NEW o \in {"create", "open"}, NEW k \in At(tasks, o)
        PROVE  k - 1 \in At(tasks', o)
    <3>1. k \in Nat /\ k # 0 /\ k # 1
      BY <1>2, <1>3
    <3>2. k - 1 \in Nat \ {0} /\ (k - 1) + 1 = k
      BY <3>1
    <3>3. QED
      BY <1>2, <3>2
  <2>2. QED
    BY <1>2, <2>1
<1>5. \A o \in {"create", "open"} : \A j, k \in At(tasks', o) : j = k
  BY <1>2 DEF Opening
<1>6. ASSUME NEW j \in At(tasks', "create") PROVE \E k \in At(tasks', "open") : j < k
  <2>1. j \in Nat \ {0} /\ j + 1 \in At(tasks, "create")
    BY <1>2
  <2>2. PICK k \in At(tasks, "open") : j + 1 < k
    BY <2>1 DEF Opening
  <2>3. k \in Nat /\ k # 0
    BY <1>3
  <2>4. k - 1 \in Nat \ {0} /\ (k - 1) + 1 = k /\ j < k - 1
    BY <2>1, <2>2, <2>3
  <2>5. k - 1 \in At(tasks', "open")
    BY <1>2, <2>4
  <2>6. QED
    BY <2>4, <2>5
<1>7. ASSUME NEW j \in At(tasks', "open"), NEW k \in At(tasks', "close") PROVE j < k
  <2>1. j \in Nat /\ k \in Nat /\ j + 1 < k + 1
    BY <1>2 DEF Opening
  <2>2. QED
    BY <2>1
<1>8. proxy.closes = 0 => At(tasks', "close") = {}
  BY <1>2 DEF Opening
<1>9. op = "close" => At(tasks, "open") = {}
  <2>1. ASSUME op = "close", NEW j \in At(tasks, "open") PROVE FALSE
    <3>1. 1 \in At(tasks, "close") /\ j \in Nat /\ j # 0
      BY <1>2, <1>3, <2>1
    <3>2. j < 1
      BY <3>1 DEF Opening
    <3>3. QED
      BY <3>1, <3>2
  <2>2. QED
    BY <2>1
<1>10. op = "close" /\ HasChannel(ctx) => proxy.init /\ ctx.refs = 1
  BY <1>9 DEF Opening, HasChannel
<1>11. ~proxy.init => At(tasks', "open") = {} /\ ctx'.channel = "none" /\ ctx'.refs = 0
  BY <1>4, <1>10 DEF Opening
<1>12. At(tasks', "open") # {} =>
         /\ proxy.init /\ ctx'.refs = 0
         /\ ctx'.channel = IF At(tasks', "create") = {} THEN "created" ELSE "none"
  BY <1>4, <1>9 DEF Opening
<1>13. proxy.init /\ At(tasks', "open") = {} =>
         /\ ctx'.channel \notin {"none", "created"}
         /\ ctx'.refs = IF ctx'.channel = "destroyed" THEN 0 ELSE 1
  BY <1>4, <1>10 DEF Opening
<1>14. QED
  BY <1>5, <1>6, <1>7, <1>8, <1>11, <1>12, <1>13 DEF Opening, At

LEMMA InitProxyOpening ==
  ASSUME TypeOK, Opening, NEW now \in CreateNow, InitProxy(now)
  PROVE  Opening' /\ tasks' \in Seq(Task)
<1>1. /\ ~proxy.init /\ proxy.closes = 0 /\ proxy'.init /\ proxy'.closes = 0
      /\ ctx.channel = "none" /\ ctx.refs = 0 /\ ctx'.refs = 0 /\ now \in BOOLEAN
      /\ ctx'.channel = IF now THEN "created" ELSE "none"
  BY ProxyAssumption DEF InitProxy, Opening, TypeOK
<1>2. /\ At(tasks, "open") = {} /\ At(tasks, "close") = {} /\ At(tasks, "create") = {}
  BY <1>1 DEF Opening
<1> DEFINE mid == IF now THEN tasks ELSE Append(tasks, Do("create"))
<1>3. /\ mid \in Seq(Task) /\ Adds(tasks', mid, Do("open"))
      /\ IF now THEN mid = tasks ELSE Adds(mid, tasks, Do("create"))
  BY TheTasks DEF InitProxy, TypeOK, Adds
<1> HIDE DEF mid
<1>4. /\ At(mid, "open") = {} /\ At(mid, "close") = {} /\ Len(mid) \in Nat
      /\ IF now THEN At(mid, "create") = {} ELSE At(mid, "create") = {Len(mid)}
  <2>1. CASE now
    BY <1>2, <1>3, <2>1
  <2>2. CASE ~now
    <3>1. /\ \A op : At(mid, op) = At(tasks, op) \cup
                      (IF Do("create").op = op THEN {Len(tasks) + 1} ELSE {})
          /\ Len(mid) = Len(tasks) + 1 /\ Len(tasks) \in Nat
      BY <1>3, <2>2, AtAdds, TheTasks DEF TypeOK
    <3>2. QED
      BY <1>2, <2>2, <3>1, TheTasks
  <2>3. QED
    BY <2>1, <2>2
<1>5. /\ \A op : At(tasks', op) = At(mid, op) \cup
                  (IF Do("open").op = op THEN {Len(mid) + 1} ELSE {})
      /\ tasks' \in Seq(Task)
  BY <1>3, AtAdds, TheTasks
<1>6. /\ At(tasks', "open") = {Len(mid) + 1} /\ At(tasks', "close") = {}
      /\ IF now THEN At(tasks', "create") = {} ELSE At(tasks', "create") = {Len(mid)}
  BY <1>4, <1>5, TheTasks
<1>7. /\ \A op \in {"create", "open"} : \A j, k \in At(tasks', op) : j = k
      /\ \A j \in At(tasks', "create") : \E k \in At(tasks', "open") : j < k
      /\ At(tasks', "open") # {}
  BY <1>4, <1>6
<1>8. Opening'
  BY <1>1, <1>6, <1>7 DEF Opening, At
<1>9. QED
  BY <1>5, <1>8

LEMMA CreateOpening ==
  ASSUME TypeOK, Opening, CreateChannel
  PROVE  Opening' /\ ctx.channel = "none"
<1>1. /\ tasks \in Seq(Task) /\ Drops(tasks', tasks) /\ tasks[1].op = "create"
      /\ ctx'.channel = "created" /\ ctx'.refs = ctx.refs /\ UNCHANGED proxy
  BY TaskRun DEF TypeOK, CreateChannel
<1>2. /\ \A o : \A k : k \in At(tasks', o) <=> k \in Nat \ {0} /\ k + 1 \in At(tasks, o)
      /\ \A o : 1 \in At(tasks, o) <=> o = "create"
  BY <1>1, AtDrops
<1>3. At(tasks', "create") = {}
  <2>1. \A k \in At(tasks', "create") : k \in Nat \ {0} /\ k + 1 = 1
    BY <1>2 DEF Opening
  <2>2. QED
    BY <2>1
<1>4. PICK k \in At(tasks, "open") : 1 < k
  BY <1>2 DEF Opening
<1>5. k \in Nat
  BY <1>1, AtIn
<1>6. k - 1 \in Nat \ {0} /\ (k - 1) + 1 = k
  BY <1>4, <1>5
<1>7. k - 1 \in At(tasks', "open")
  BY <1>2, <1>6
<1>8. \A i, j \in At(tasks', "open") : i = j
  <2>1. \A i, j \in At(tasks', "open") : i \in Nat /\ j \in Nat /\ i + 1 = j + 1
    BY <1>2 DEF Opening
  <2>2. QED
    BY <2>1
<1>9. \A i \in At(tasks', "open"), j \in At(tasks', "close") : i < j
  <2>1. \A i \in At(tasks', "open"), j \in At(tasks', "close") :
          i \in Nat /\ j \in Nat /\ i + 1 < j + 1
    BY <1>2 DEF Opening
  <2>2. QED
    BY <2>1
<1>10. At(tasks, "open") # {} /\ At(tasks, "create") # {}
  BY <1>2, <1>4
<1>11. proxy.init /\ ctx.refs = 0 /\ ctx.channel = "none"
  BY <1>10 DEF Opening
<1>12. proxy.closes = 0 => At(tasks', "close") = {}
  BY <1>2 DEF Opening
<1>13. Opening'
  BY <1>1, <1>3, <1>7, <1>8, <1>9, <1>11, <1>12 DEF Opening, At
<1>14. QED
  BY <1>11, <1>13

LEMMA OpenedOpening ==
  ASSUME TypeOK, Opening, NEW ok \in BOOLEAN, OnChannelOpened(ok)
  PROVE  Opening' /\ ctx.channel = "created" /\ ctx.refs = 0
<1>1. /\ tasks \in Seq(Task) /\ Drops(tasks', tasks) /\ tasks[1].op = "open"
      /\ ctx'.channel \in {"open", "failed"} /\ ctx'.refs = ctx.refs + 1 /\ UNCHANGED proxy
  BY TaskRun DEF TypeOK, OnChannelOpened
<1>2. /\ \A o : \A k : k \in At(tasks', o) <=> k \in Nat \ {0} /\ k + 1 \in At(tasks, o)
      /\ \A o : 1 \in At(tasks, o) <=> o = "open"
  BY <1>1, AtDrops
<1>3. At(tasks', "open") = {}
  <2>1. \A k \in At(tasks', "open") : k \in Nat \ {0} /\ k + 1 = 1
    BY <1>2 DEF Opening
  <2>2. QED
    BY <2>1
<1>4. At(tasks, "create") = {}
  <2>1. ASSUME NEW j \in At(tasks, "create") PROVE FALSE
    <3>1. j < 1
      BY <1>2, <2>1 DEF Opening
    <3>2. j \in Nat /\ j # 0
      BY <1>1, <2>1, AtIn
    <3>3. QED
      BY <3>1, <3>2
  <2>2. QED
    BY <2>1
<1>5. At(tasks', "create") = {}
  BY <1>2, <1>4
<1>6. proxy.init /\ ctx.refs = 0 /\ ctx.channel = "created"
  BY <1>2, <1>4 DEF Opening
<1>7. proxy.closes = 0 => At(tasks', "close") = {}
  BY <1>2 DEF Opening
<1>8. Opening'
  BY <1>1, <1>3, <1>5, <1>6, <1>7 DEF Opening, At
<1>9. QED
  BY <1>6, <1>8

(***************************************************************************)
(* The filters.                                                            *)
(***************************************************************************)
LEMMA RemoveFirstIs ==
  ASSUME NEW T, NEW q \in Seq(T), NEW e, e \in ToSet(q)
  PROVE  \E i \in DOMAIN q :
           /\ q[i] = e
           /\ RemoveFirst(q, e) \in Seq(T) /\ Len(RemoveFirst(q, e)) = Len(q) - 1
           /\ \A k \in 1..(Len(q) - 1) : RemoveFirst(q, e)[k] = IF k < i THEN q[k] ELSE q[k + 1]
<1> DEFINE I == {k \in 1..Len(q) : q[k] = e}
           i == SelectInSeq(q, LAMBDA v : v = e)
<1>1. Len(q) \in Nat /\ \E k \in 1..Len(q) : q[k] = e
  BY DEF ToSet
<1>2. i \in I
  <2>1. \E x \in I : \A y \in I : x <= y
    <3> DEFINE N == {n \in Nat : \A m \in I : m <= n => \E x \in I : \A y \in I : x <= y}
    <3>1. 0 \in N
      OBVIOUS
    <3>2. ASSUME NEW n \in Nat, n \in N PROVE n + 1 \in N
      <4>1. SUFFICES ASSUME NEW m \in I, m <= n + 1 PROVE \E x \in I : \A y \in I : x <= y
        OBVIOUS
      <4>2. CASE \E y \in I : y <= n
        BY <3>2, <4>2
      <4>3. CASE \A y \in I : ~(y <= n)
        <5>1. \A y \in I : m <= y
          BY <4>1, <4>3
        <5>2. QED
          BY <4>1, <5>1
      <4>4. QED
        BY <4>2, <4>3
    <3> HIDE DEF N
    <3>3. \A n \in Nat : n \in N
      BY <3>1, <3>2, NatSet
    <3>4. Len(q) \in N
      BY <1>1, <3>3
    <3>5. QED
      BY <1>1, <3>4 DEF N
  <2>2. i = CHOOSE x \in I : \A y \in I : x <= y
    BY <1>1 DEF SelectInSeq, Min
  <2>3. QED
    BY <2>1, <2>2
<1>3. RemoveFirst(q, e) = SubSeq(q, 1, i - 1) \o SubSeq(q, i + 1, Len(q))
  BY <1>1 DEF RemoveFirst, RemoveAt
<1> HIDE DEF i
<1>4. i \in 1..Len(q) /\ q[i] = e /\ i \in Nat
  BY <1>2
<1> DEFINE a == SubSeq(q, 1, i - 1)
           b == SubSeq(q, i + 1, Len(q))
<1>5. /\ a \in Seq(T) /\ Len(a) = i - 1
      /\ \A k \in 1..(i - 1) : a[k] = q[k]
  BY <1>1, <1>4
<1>6. /\ b \in Seq(T) /\ Len(b) = Len(q) - i
      /\ \A k \in 1..(Len(q) - i) : b[k] = q[i + k]
  BY <1>1, <1>4
<1> HIDE DEF a, b
<1>7. /\ a \o b \in Seq(T) /\ Len(a \o b) = Len(a) + Len(b)
      /\ \A k \in 1..(Len(a) + Len(b)) :
           (a \o b)[k] = IF k <= Len(a) THEN a[k] ELSE b[k - Len(a)]
  BY <1>5, <1>6, ConcatProperties
<1>8. Len(a) + Len(b) = Len(q) - 1
  BY <1>1, <1>4, <1>5, <1>6
<1>9. ASSUME NEW k \in 1..(Len(q) - 1)
      PROVE  (a \o b)[k] = IF k < i THEN q[k] ELSE q[k + 1]
  <2>1. CASE k < i
    BY <1>1, <1>4, <1>5, <1>7, <1>8, <2>1
  <2>2. CASE ~(k < i)
    <3>1. k - Len(a) \in 1..(Len(q) - i) /\ i + (k - Len(a)) = k + 1 /\ ~(k <= Len(a))
      BY <1>1, <1>4, <1>5, <2>2
    <3>2. QED
      BY <1>6, <1>7, <1>8, <2>2, <3>1
  <2>3. QED
    BY <2>1, <2>2
<1> DEFINE r == RemoveFirst(q, e)
<1>10. r = a \o b
  BY <1>3 DEF a, b
<1> HIDE DEF r
<1>11. /\ r \in Seq(T) /\ Len(r) = Len(q) - 1
       /\ \A k \in 1..(Len(q) - 1) : r[k] = IF k < i THEN q[k] ELSE q[k + 1]
  BY <1>7, <1>8, <1>9, <1>10
<1>12. i \in DOMAIN q /\ q[i] = e
  BY <1>4
<1>13. QED
  BY <1>11, <1>12 DEF r

LEMMA RemoveFirstKeeps ==
  ASSUME NEW q \in Seq(Filter), NEW e, e \in ToSet(q), Sorted(q)
  PROVE  LET r == RemoveFirst(q, e) IN
           r \in Seq(Filter) /\ Sorted(r) /\ ToSet(r) = ToSet(q) \ {e}
<1> DEFINE r == RemoveFirst(q, e)
<1>1. PICK i \in DOMAIN q :
           /\ q[i] = e
           /\ r \in Seq(Filter) /\ Len(r) = Len(q) - 1
           /\ \A k \in 1..(Len(q) - 1) : r[k] = IF k < i THEN q[k] ELSE q[k + 1]
  BY RemoveFirstIs
<1> HIDE DEF r
<1>2. /\ DOMAIN q = 1..Len(q) /\ Len(q) \in Nat /\ i \in Nat /\ i >= 1 /\ i <= Len(q)
      /\ DOMAIN r = 1..(Len(q) - 1)
  BY <1>1
<1>3. \A k \in DOMAIN q : q[k] \in Nat
  BY ProxyAssumption DEF Filter
<1>4. ASSUME NEW j \in DOMAIN r, NEW k \in DOMAIN r, j < k PROVE r[j] < r[k]
  <2>1. /\ j \in DOMAIN q /\ j + 1 \in DOMAIN q /\ k \in DOMAIN q /\ k + 1 \in DOMAIN q
        /\ j \in Nat /\ k \in Nat
    BY <1>2
  <2>2. r[j] = (IF j < i THEN q[j] ELSE q[j + 1]) /\ r[k] = (IF k < i THEN q[k] ELSE q[k + 1])
    BY <1>1, <1>2
  <2>3. q[j] < q[k] /\ q[j] < q[k + 1] /\ q[j + 1] < q[k + 1]
    BY <1>4, <2>1 DEF Sorted
  <2>4. QED
    BY <1>2, <1>4, <2>1, <2>2, <2>3
<1>5. \A k \in DOMAIN q : k # i => q[k] # e
  BY <1>1, <1>2, <1>3 DEF Sorted
<1>6. ASSUME NEW x \in ToSet(r) PROVE x \in ToSet(q) /\ x # e
  <2>1. PICK k \in DOMAIN r : r[k] = x
    BY DEF ToSet
  <2>2. /\ k \in DOMAIN q /\ k + 1 \in DOMAIN q /\ k \in Nat
        /\ r[k] = (IF k < i THEN q[k] ELSE q[k + 1])
    BY <1>1, <1>2
  <2>3. k + 1 = i => k < i
    BY <1>2, <2>2
  <2>4. QED
    BY <1>2, <1>5, <2>1, <2>2, <2>3 DEF ToSet
<1>7. ASSUME NEW x \in ToSet(q), x # e PROVE x \in ToSet(r)
  <2>1. PICK k \in DOMAIN q : q[k] = x
    BY DEF ToSet
  <2>2. k \in Nat /\ k # i /\ k >= 1 /\ k <= Len(q)
    BY <1>1, <1>2, <1>7, <2>1
  <2>3. CASE k < i
    <3>1. k \in DOMAIN r /\ r[k] = x
      BY <1>1, <1>2, <2>1, <2>2, <2>3
    <3>2. QED
      BY <3>1 DEF ToSet
  <2>4. CASE k > i
    <3>1. k - 1 \in DOMAIN r /\ ~(k - 1 < i) /\ (k - 1) + 1 = k
      BY <1>2, <2>2, <2>4
    <3>2. r[k - 1] = x
      BY <1>1, <1>2, <2>1, <3>1
    <3>3. QED
      BY <3>1, <3>2 DEF ToSet
  <2>5. QED
    BY <1>2, <2>2, <2>3, <2>4
<1>8. QED
  BY <1>1, <1>4, <1>6, <1>7 DEF r, Sorted

\* Filters that are added all come after those that are there.
LEMMA AdoptKeeps ==
  ASSUME NEW p \in Seq(Filter), NEW q \in Seq(Filter), Sorted(p), Sorted(q),
         \A j \in DOMAIN p, k \in DOMAIN q : p[j] < q[k]
  PROVE  p \o q \in Seq(Filter) /\ Sorted(p \o q) /\ ToSet(p \o q) = ToSet(p) \cup ToSet(q)
<1> DEFINE r == p \o q
<1>1. /\ r \in Seq(Filter) /\ Len(r) = Len(p) + Len(q)
      /\ \A i \in 1..(Len(p) + Len(q)) : r[i] = IF i <= Len(p) THEN p[i] ELSE q[i - Len(p)]
  BY ConcatProperties
<1> HIDE DEF r
<1>2. /\ DOMAIN p = 1..Len(p) /\ DOMAIN q = 1..Len(q) /\ Len(p) \in Nat /\ Len(q) \in Nat
      /\ DOMAIN r = 1..(Len(p) + Len(q))
  BY <1>1
<1>3. ASSUME NEW i \in DOMAIN r
      PROVE  \/ i \in DOMAIN p /\ r[i] = p[i]
             \/ i - Len(p) \in DOMAIN q /\ r[i] = q[i - Len(p)] /\ i > Len(p)
  BY <1>1, <1>2
<1>4. ASSUME NEW j \in DOMAIN r, NEW k \in DOMAIN r, j < k PROVE r[j] < r[k]
  <2>1. j \in Nat /\ k \in Nat
    BY <1>2
  <2>2. CASE k \in DOMAIN p /\ r[k] = p[k]
    <3>1. j \in DOMAIN p /\ r[j] = p[j]
      BY <1>1, <1>2, <1>4, <2>1, <2>2
    <3>2. QED
      BY <1>4, <2>2, <3>1 DEF Sorted
  <2>3. CASE k - Len(p) \in DOMAIN q /\ r[k] = q[k - Len(p)] /\ k > Len(p)
    <3>1. CASE j \in DOMAIN p /\ r[j] = p[j]
      BY <2>3, <3>1
    <3>2. CASE j - Len(p) \in DOMAIN q /\ r[j] = q[j - Len(p)] /\ j > Len(p)
      <4>1. j - Len(p) < k - Len(p)
        BY <1>2, <1>4, <2>1
      <4>2. QED
        BY <2>3, <3>2, <4>1 DEF Sorted
    <3>3. QED
      BY <1>3, <3>1, <3>2
  <2>4. QED
    BY <1>3, <2>2, <2>3
<1>5. ToSet(r) \subseteq ToSet(p) \cup ToSet(q)
  BY <1>3 DEF ToSet
<1>6. ASSUME NEW x \in ToSet(p) PROVE x \in ToSet(r)
  <2>1. PICK k \in DOMAIN p : p[k] = x
    BY DEF ToSet
  <2>2. k \in DOMAIN r /\ r[k] = x
    BY <1>1, <1>2, <2>1
  <2>3. QED
    BY <2>2 DEF ToSet
<1>7. ASSUME NEW x \in ToSet(q) PROVE x \in ToSet(r)
  <2>1. PICK k \in DOMAIN q : q[k] = x
    BY DEF ToSet
  <2>2. k + Len(p) \in DOMAIN r /\ (k + Len(p)) - Len(p) = k /\ ~(k + Len(p) <= Len(p))
    BY <1>2, <2>1
  <2>3. r[k + Len(p)] = x
    BY <1>1, <1>2, <2>1, <2>2
  <2>4. QED
    BY <2>2, <2>3 DEF ToSet
<1>8. QED
  BY <1>1, <1>4, <1>5, <1>6, <1>7 DEF r, Sorted

LEMMA TellIs ==
  ASSUME NEW log \in [Filter -> Seq(Call)], NEW fs, NEW call \in Call
  PROVE  /\ Tell(log, fs, call) \in [Filter -> Seq(Call)]
         /\ \A f \in Filter : IF f \in ToSet(fs) THEN Adds(Tell(log, fs, call)[f], log[f], call)
                              ELSE Tell(log, fs, call)[f] = log[f]
  BY DEF Tell, Adds

LEMMA AdoptCallsIs ==
  ASSUME TypeOK
  PROVE  AdoptCalls(ctx, told) \in [Filter -> Seq(Call)]
<1>1. told \in [Filter -> Seq(Call)]
  BY DEF TypeOK
<1>2. \A log \in [Filter -> Seq(Call)] : \A op \in {"added", "connected"} :
        Tell(log, ctx.pending, Says(op)) \in [Filter -> Seq(Call)]
  BY TellIs, TheCalls
<1>3. QED
  BY <1>1, <1>2 DEF AdoptCalls

LEMMA ReceivedIs ==
  ASSUME TypeOK
  PROVE  Received \in Nat
<1>1. IsFiniteSet(At(arrived, "message"))
  BY AtIn DEF TypeOK
<1>2. QED
  BY <1>1, FS_CardinalityType DEF Received

(***************************************************************************)
(* Types, action by action.                                                *)
(***************************************************************************)
ProxyType ==
  proxy \in [init : BOOLEAN, listener : BOOLEAN, told : BOOLEAN, runner : BOOLEAN,
             closes : 0..MaxCloses, sends : 0..MaxSends, added : 0..MaxFilters,
             early : SUBSET Filter, removing : SUBSET Filter]
CtxType ==
  ctx \in [channel : {"none", "created", "open", "failed", "connected", "lost", "destroyed"},
           filters : Seq(Filter), pending : Seq(Filter), pid : BOOLEAN, refs : 0..1,
           lost : BOOLEAN]
QueueTypes == /\ tasks \in Seq(Task) /\ posted \in Seq(Call) /\ urgent \in Seq(0..MaxReceived)
LogTypes   == /\ arrived \in Seq(Event) /\ heard \in Seq(Call) /\ told \in [Filter -> Seq(Call)]

LEMMA TypeParts == TypeOK <=> ProxyType /\ CtxType /\ QueueTypes /\ LogTypes
  BY DEF TypeOK, ProxyType, CtxType, QueueTypes, LogTypes

\* OnAddFilter and the hello put the pending filters behind the others.
LEMMA AdoptIs ==
  ASSUME CtxType
  PROVE  LET c == Adopt(ctx) IN
           /\ c.filters = ctx.filters \o ctx.pending /\ c.pending = <<>>
           /\ c.filters \in Seq(Filter)
           /\ c = [ctx EXCEPT !.filters = c.filters, !.pending = <<>>]
           /\ c.channel = ctx.channel /\ c.pid = ctx.pid /\ c.refs = ctx.refs /\ c.lost = ctx.lost
           /\ c \in [channel : {"none", "created", "open", "failed", "connected", "lost",
                                "destroyed"},
                     filters : Seq(Filter), pending : Seq(Filter), pid : BOOLEAN,
                     refs : 0..1, lost : BOOLEAN]
<1>1. ctx.filters \in Seq(Filter) /\ ctx.pending \in Seq(Filter)
  BY DEF CtxType
<1> DEFINE p == ctx.filters \o ctx.pending
           c == Adopt(ctx)
<1>2. c = [ctx EXCEPT !.filters = p, !.pending = <<>>] /\ p \in Seq(Filter) /\ <<>> \in Seq(Filter)
  BY <1>1 DEF Adopt
<1> HIDE DEF p, c
<1>3. /\ c.filters = p /\ c.pending = <<>>
      /\ c.channel = ctx.channel /\ c.pid = ctx.pid /\ c.refs = ctx.refs /\ c.lost = ctx.lost
  BY <1>2 DEF CtxType
<1>4. c \in [channel : {"none", "created", "open", "failed", "connected", "lost", "destroyed"},
             filters : Seq(Filter), pending : Seq(Filter), pid : BOOLEAN, refs : 0..1,
             lost : BOOLEAN]
  BY <1>2 DEF CtxType
<1>5. QED
  BY <1>2, <1>3, <1>4 DEF p, c

LEMMA OwnerTypes ==
  ASSUME TypeOK, Opening, Owner
  PROVE  TypeOK'
<1>1. ProxyType /\ CtxType /\ QueueTypes /\ LogTypes
  BY TypeParts
<1>2. ASSUME NEW now \in CreateNow, InitProxy(now) PROVE TypeOK'
  <2>1. ProxyType'
    BY <1>1, <1>2 DEF InitProxy, ProxyType
  <2>2. CtxType'
    BY <1>1, <1>2 DEF InitProxy, CtxType
  <2>3. QueueTypes' /\ LogTypes'
    BY <1>1, <1>2, InitProxyOpening DEF InitProxy, QueueTypes, LogTypes
  <2>4. QED
    BY <2>1, <2>2, <2>3, TypeParts, PTL
<1>3. ASSUME NEW f \in Filter, AddFilter(f) PROVE TypeOK'
  <2>1. ProxyType'
    <3> DEFINE early == IF ctx.pid THEN proxy.early ELSE proxy.early \cup {f}
    <3>1. proxy' = [proxy EXCEPT !.added = f, !.early = early]
      BY <1>3 DEF AddFilter
    <3>2. early \in SUBSET Filter /\ f \in 0..MaxFilters
      BY <1>1 DEF ProxyType, Filter
    <3> HIDE DEF early
    <3>3. QED
      BY <1>1, <3>1, <3>2 DEF ProxyType
  <2>2. CtxType'
    <3>1. Append(ctx.pending, f) \in Seq(Filter)
      BY <1>1 DEF CtxType
    <3> DEFINE p == Append(ctx.pending, f)
    <3>2. ctx' = [ctx EXCEPT !.pending = p]
      BY <1>3 DEF AddFilter
    <3> HIDE DEF p
    <3>3. QED
      BY <1>1, <3>1, <3>2 DEF CtxType, p
  <2>3. QueueTypes' /\ LogTypes'
    BY <1>1, <1>3, TaskPosted, TheTasks DEF AddFilter, QueueTypes, LogTypes
  <2>4. QED
    BY <2>1, <2>2, <2>3, TypeParts, PTL
<1>4. ASSUME NEW f \in Filter, RemoveFilter(f) PROVE TypeOK'
  <2>1. ProxyType'
    BY <1>1, <1>4 DEF RemoveFilter, ProxyType
  <2>2. CtxType' /\ LogTypes'
    BY <1>1, <1>4 DEF RemoveFilter, CtxType, LogTypes
  <2>3. QueueTypes'
    BY <1>1, <1>4, TaskPosted, TheTasks DEF RemoveFilter, QueueTypes
  <2>4. QED
    BY <2>1, <2>2, <2>3, TypeParts, PTL
<1>5. ASSUME Send PROVE TypeOK'
  <2>1. ProxyType'
    BY <1>1, <1>5, ProxyAssumption DEF Send, ProxyType
  <2>2. CtxType' /\ LogTypes'
    BY <1>1, <1>5 DEF Send, CtxType, LogTypes
  <2>3. QueueTypes'
    BY <1>1, <1>5, TaskPosted, TheTasks DEF Send, QueueTypes
  <2>4. QED
    BY <2>1, <2>2, <2>3, TypeParts, PTL
<1>6. ASSUME Close PROVE TypeOK'
  <2>1. ProxyType'
    <3>1. /\ proxy' = [proxy EXCEPT !.closes = @ + 1, !.listener = FALSE]
          /\ proxy.closes + 1 \in 0..MaxCloses
      BY <1>1, <1>6, ProxyAssumption DEF Close, ProxyType
    <3>2. QED
      BY <1>1, <3>1 DEF ProxyType
  <2>2. CtxType' /\ LogTypes'
    BY <1>1, <1>6 DEF Close, CtxType, LogTypes
  <2>3. QueueTypes'
    BY <1>1, <1>6, TaskPosted, TheTasks DEF Close, QueueTypes
  <2>4. QED
    BY <2>1, <2>2, <2>3, TypeParts, PTL
<1>7. ASSUME ClearIPCTaskRunner PROVE TypeOK'
  <2>1. ProxyType' /\ CtxType' /\ QueueTypes' /\ LogTypes'
    BY <1>1, <1>7 DEF ClearIPCTaskRunner, ProxyType, CtxType, QueueTypes, LogTypes
  <2>2. QED
    BY <2>1, TypeParts, PTL
<1>8. QED
  BY <1>2, <1>3, <1>4, <1>5, <1>6, <1>7 DEF Owner

LEMMA ErrorTypes ==
  ASSUME TypeOK, OnChannelError(ctx)
  PROVE  /\ told' \in [Filter -> Seq(Call)] /\ posted' \in Seq(Call) /\ arrived' \in Seq(Event)
         /\ Adds(posted', posted, Says("error"))
         /\ Adds(arrived', arrived, [op |-> "error", n |-> 0, by |-> NoFilter])
<1>1. [op |-> "error", n |-> 0, by |-> NoFilter] \in Event
  BY ProxyAssumption DEF Event
<1>2. told' \in [Filter -> Seq(Call)]
  BY TellIs, TheCalls DEF TypeOK, OnChannelError
<1>3. posted' = Append(posted, Says("error")) /\ posted \in Seq(Call) /\ Says("error") \in Call
  BY TheCalls DEF TypeOK, OnChannelError
<1>4. QED
  BY <1>1, <1>2, <1>3 DEF TypeOK, OnChannelError, Adds

LEMMA EventTypes ==
  ASSUME TypeOK, Opening, ChannelEvent
  PROVE  TypeOK'
<1>1. ProxyType /\ CtxType /\ QueueTypes /\ LogTypes
  BY TypeParts
<1>2. ASSUME OnChannelConnected PROVE TypeOK'
  <2>1. ProxyType'
    BY <1>1, <1>2 DEF OnChannelConnected, ProxyType
  <2>2. CtxType'
    <3>1. ctx' = [Adopt(ctx) EXCEPT !.channel = "connected", !.pid = TRUE]
      BY <1>2 DEF OnChannelConnected
    <3>2. QED
      BY <1>1, <3>1, AdoptIs DEF CtxType
  <2>3. told' \in [Filter -> Seq(Call)]
    BY <1>2, AdoptCallsIs, TellIs, TheCalls DEF OnChannelConnected
  <2>4. posted' \in Seq(Call)
    <3>1. posted' = Append(posted, Says("connected")) /\ Says("connected") \in Call
      BY <1>2, TheCalls DEF OnChannelConnected
    <3>2. QED
      BY <1>1, <3>1 DEF QueueTypes
  <2>5. QueueTypes' /\ LogTypes'
    BY <1>1, <1>2, <2>3, <2>4 DEF OnChannelConnected, QueueTypes, LogTypes
  <2>6. QED
    BY <2>1, <2>2, <2>5, TypeParts, PTL
<1>3. ASSUME ChannelLost PROVE TypeOK'
  <2>1. ProxyType' /\ CtxType'
    BY <1>1, <1>3 DEF ChannelLost, ProxyType, CtxType
  <2>2. QueueTypes' /\ LogTypes'
    BY <1>1, <1>3, ErrorTypes DEF ChannelLost, QueueTypes, LogTypes
  <2>3. QED
    BY <2>1, <2>2, TypeParts, PTL
<1>4. ASSUME NEW k \in 0..Len(ctx.filters), OnMessageReceived(k) PROVE TypeOK'
  <2> DEFINE n    == Received + 1
             asks == IF k = 0 THEN ctx.filters ELSE SubSeq(ctx.filters, 1, k)
             by   == IF k = 0 THEN NoFilter ELSE ctx.filters[k]
  <2>1. n \in 1..MaxReceived
    BY <1>4, ReceivedIs, ProxyAssumption DEF OnMessageReceived
  <2>2. [op |-> "message", n |-> n, by |-> by] \in Event
    <3>1. by \in Filter \cup {NoFilter}
      BY <1>1 DEF CtxType
    <3>2. QED
      BY <2>1, <3>1 DEF Event
  <2>3. arrived' = Append(arrived, [op |-> "message", n |-> n, by |-> by])
    BY <1>4 DEF OnMessageReceived
  <2>4. told' = Tell(told, asks, Message(n)) /\ Message(n) \in Call
    BY <1>4, <2>1, TheCalls DEF OnMessageReceived
  <2>5. Forward(n, k) /\ UNCHANGED <<proxy, ctx, tasks, heard>>
    BY <1>4 DEF OnMessageReceived
  <2> HIDE DEF n, asks, by
  <2>6. arrived' \in Seq(Event)
    BY <1>1, <2>2, <2>3 DEF LogTypes
  <2>7. told' \in [Filter -> Seq(Call)]
    BY <1>1, <2>4, TellIs DEF LogTypes
  <2>8. posted' \in Seq(Call) /\ urgent' \in Seq(0..MaxReceived)
    <3>1. /\ Append(posted, Message(n)) \in Seq(Call) /\ Append(urgent, n) \in Seq(0..MaxReceived)
          /\ posted \in Seq(Call) /\ urgent \in Seq(0..MaxReceived)
      <4>1. n \in 0..MaxReceived
        BY <2>1, ProxyAssumption
      <4>2. QED
        BY <1>1, <2>4, <4>1 DEF QueueTypes
    <3>2. /\ posted' = posted \/ posted' = Append(posted, Message(n))
          /\ urgent' = urgent \/ urgent' = Append(urgent, n)
      BY <2>5 DEF Forward
    <3>3. QED
      BY <3>1, <3>2
  <2>9. ProxyType' /\ CtxType'
    BY <1>1, <2>5 DEF ProxyType, CtxType
  <2>10. QueueTypes' /\ LogTypes'
    BY <1>1, <2>5, <2>6, <2>7, <2>8 DEF QueueTypes, LogTypes
  <2>11. QED
    BY <2>9, <2>10, TypeParts, PTL
<1>5. QED
  BY <1>2, <1>3, <1>4 DEF ChannelEvent

LEMMA TaskTypes ==
  ASSUME TypeOK, Opening, Removing, Filters, IpcTask
  PROVE  TypeOK'
<1>1. ProxyType /\ CtxType /\ QueueTypes /\ LogTypes
  BY TypeParts
<1>2. ASSUME CreateChannel PROVE TypeOK'
  <2>1. tasks' \in Seq(Task)
    BY <1>2, TaskRun DEF CreateChannel
  <2>2. ProxyType' /\ CtxType'
    BY <1>1, <1>2 DEF CreateChannel, ProxyType, CtxType
  <2>3. QueueTypes' /\ LogTypes'
    BY <1>1, <1>2, <2>1 DEF CreateChannel, QueueTypes, LogTypes
  <2>4. QED
    BY <2>2, <2>3, TypeParts, PTL
<1>3. ASSUME OnChannelClosed PROVE TypeOK'
  <2>1. tasks' \in Seq(Task)
    BY <1>3, TaskRun DEF OnChannelClosed
  <2>2. CtxType'
    <3>1. HasChannel(ctx) => ctx.refs = 1
      <4>1. tasks \in Seq(Task) /\ Drops(tasks', tasks) /\ tasks[1].op = "close"
        BY <1>3, TaskRun DEF TypeOK, OnChannelClosed
      <4>2. 1 \in At(tasks, "close")
        BY <4>1, AtDrops
      <4>3. At(tasks, "open") = {}
        <5>1. \A j \in At(tasks, "open") : j \in Nat /\ j # 0 /\ j < 1
          BY <4>1, <4>2, AtIn DEF Opening
        <5>2. QED
          BY <5>1
      <4>4. QED
        BY <4>3 DEF Opening, HasChannel
    <3>2. CASE HasChannel(ctx)
      <4>1. ctx' = [ctx EXCEPT !.filters = <<>>, !.channel = "destroyed", !.refs = ctx.refs - 1]
        BY <1>3, <3>2 DEF OnChannelClosed
      <4>2. ctx.refs - 1 \in 0..1 /\ <<>> \in Seq(Filter)
        BY <3>1, <3>2
      <4>3. QED
        BY <1>1, <4>1, <4>2 DEF CtxType
    <3>3. CASE ~HasChannel(ctx)
      BY <1>1, <1>3, <3>3 DEF OnChannelClosed, CtxType
    <3>4. QED
      BY <3>2, <3>3
  <2>3. told' \in [Filter -> Seq(Call)]
    <3>1. CASE HasChannel(ctx)
      <4>1. told' = Tell(Tell(told, ctx.filters, Says("closing")), ctx.filters, Says("removed"))
        BY <1>3, <3>1 DEF OnChannelClosed
      <4>2. \A log \in [Filter -> Seq(Call)] : \A op \in {"closing", "removed"} :
              Tell(log, ctx.filters, Says(op)) \in [Filter -> Seq(Call)]
        BY TellIs, TheCalls
      <4>3. QED
        BY <1>1, <4>1, <4>2 DEF LogTypes
    <3>2. CASE ~HasChannel(ctx)
      BY <1>1, <1>3, <3>2 DEF OnChannelClosed, LogTypes
    <3>3. QED
      BY <3>1, <3>2
  <2>4. ProxyType' /\ QueueTypes' /\ LogTypes'
    BY <1>1, <1>3, <2>1, <2>3 DEF OnChannelClosed, ProxyType, QueueTypes, LogTypes
  <2>5. QED
    BY <2>2, <2>4, TypeParts, PTL
<1>4. ASSUME OnAddFilter PROVE TypeOK'
  <2>1. tasks' \in Seq(Task)
    BY <1>4, TaskRun DEF OnAddFilter
  <2>2. ProxyType' /\ CtxType'
    BY <1>1, <1>4, AdoptIs DEF OnAddFilter, ProxyType, CtxType
  <2>3. QueueTypes' /\ LogTypes'
    BY <1>1, <1>4, <2>1, AdoptCallsIs DEF OnAddFilter, QueueTypes, LogTypes
  <2>4. QED
    BY <2>2, <2>3, TypeParts, PTL
<1>5. ASSUME RemoveTask PROVE TypeOK'
  <2>1. /\ tasks \in Seq(Task) /\ tasks' \in Seq(Task) /\ Drops(tasks', tasks)
        /\ tasks[1].op = "remove"
    BY <1>5, TaskRun DEF TypeOK, RemoveTask
  <2>2. 1 \in At(tasks, "remove") /\ tasks[1] = Head(tasks)
    BY <2>1, AtDrops
  <2> DEFINE f == tasks[1].f
  <2>3. OnRemoveFilter(f) /\ f \in Filter
    BY <1>1, <1>5, <2>2 DEF RemoveTask, Removing, ProxyType
  <2> HIDE DEF f
  <2>4. CASE f \in ToSet(ctx.filters)
    <3>1. RemoveFirst(ctx.filters, f) \in Seq(Filter)
      BY <1>1, <2>4, RemoveFirstKeeps DEF Filters, CtxType
    <3>2. CtxType'
      BY <1>1, <2>3, <2>4, <3>1 DEF OnRemoveFilter, CtxType
    <3>3. told' \in [Filter -> Seq(Call)]
      <4>1. told' = [told EXCEPT ![f] = Append(@, Says("removed"))] /\ Says("removed") \in Call
        BY <2>3, <2>4, TheCalls DEF OnRemoveFilter
      <4>2. QED
        BY <1>1, <2>3, <4>1 DEF LogTypes
    <3>4. ProxyType' /\ QueueTypes' /\ LogTypes'
      BY <1>1, <1>5, <2>1, <3>3 DEF RemoveTask, ProxyType, QueueTypes, LogTypes
    <3>5. QED
      BY <3>2, <3>4, TypeParts, PTL
  <2>5. CASE f \notin ToSet(ctx.filters)
    <3>1. ProxyType' /\ CtxType' /\ QueueTypes' /\ LogTypes'
      BY <1>1, <1>5, <2>1, <2>3, <2>5
         DEF OnRemoveFilter, RemoveTask, ProxyType, CtxType, QueueTypes, LogTypes
    <3>2. QED
      BY <3>1, TypeParts, PTL
  <2>6. QED
    BY <2>4, <2>5
<1>6. ASSUME NEW ok \in BOOLEAN, OnChannelOpened(ok) PROVE TypeOK'
  <2>1. tasks' \in Seq(Task) /\ ctx.refs = 0
    BY <1>6, TaskRun, OpenedOpening DEF OnChannelOpened
  <2>2. ProxyType' /\ CtxType'
    <3>1. /\ ctx' = [ctx EXCEPT !.refs = ctx.refs + 1, !.channel = IF ok THEN "open" ELSE "failed"]
          /\ ctx.refs + 1 \in 0..1 /\ UNCHANGED proxy
      BY <1>6, <2>1 DEF OnChannelOpened
    <3>2. QED
      BY <1>1, <3>1 DEF ProxyType, CtxType
  <2>3. /\ told' \in [Filter -> Seq(Call)] /\ posted' \in Seq(Call) /\ arrived' \in Seq(Event)
    <3>1. CASE ok
      <4>1. /\ told' = Tell(told, ctx.filters, Says("added")) /\ UNCHANGED <<posted, arrived>>
            /\ Says("added") \in Call
        BY <1>6, <3>1, TheCalls DEF OnChannelOpened
      <4>2. told' \in [Filter -> Seq(Call)]
        BY <1>1, <4>1, TellIs DEF LogTypes
      <4>3. QED
        BY <1>1, <4>1, <4>2 DEF QueueTypes, LogTypes
    <3>2. CASE ~ok
      BY <1>6, <3>2, ErrorTypes DEF OnChannelOpened
    <3>3. QED
      BY <3>1, <3>2
  <2>4. QueueTypes' /\ LogTypes'
    BY <1>1, <1>6, <2>1, <2>3 DEF OnChannelOpened, QueueTypes, LogTypes
  <2>5. QED
    BY <2>2, <2>4, TypeParts, PTL
<1>7. ASSUME NEW ok \in BOOLEAN, OnSendMessage(ok) PROVE TypeOK'
  <2>1. tasks' \in Seq(Task)
    BY <1>7, TaskRun DEF OnSendMessage
  <2>2. ProxyType' /\ CtxType'
    BY <1>1, <1>7 DEF OnSendMessage, ProxyType, CtxType
  <2>3. QueueTypes' /\ LogTypes'
    BY <1>1, <1>7, <2>1, ErrorTypes DEF OnSendMessage, QueueTypes, LogTypes
  <2>4. QED
    BY <2>2, <2>3, TypeParts, PTL
<1>8. QED
  BY <1>2, <1>3, <1>4, <1>5, <1>6, <1>7 DEF IpcTask

LEMMA ListenerTypes ==
  ASSUME TypeOK, Connecting, ListenerThread
  PROVE  TypeOK'
<1>1. ProxyType /\ CtxType /\ QueueTypes /\ LogTypes
  BY TypeParts
<1>2. ASSUME NEW n, Message(n) \in Call, OnDispatchMessage(n)
      PROVE  ProxyType' /\ heard' \in Seq(Call)
  <2>1. ProxyType'
    BY <1>1, <1>2 DEF OnDispatchMessage, ProxyType
  <2>2. heard' \in Seq(Call)
    <3>1. ConnectedCall \in Call
      BY TheCalls
    <3>2. \/ heard' = heard
          \/ heard' = heard \o (IF proxy.told THEN <<>> ELSE <<ConnectedCall>>) \o <<Message(n)>>
      BY <1>2 DEF OnDispatchMessage
    <3> DEFINE c == ConnectedCall
               m == Message(n)
    <3> HIDE DEF c, m
    <3>3. c \in Call /\ m \in Call
      BY <1>2, <3>1 DEF c, m
    <3>4. heard \o (IF proxy.told THEN <<>> ELSE <<c>>) \o <<m>> \in Seq(Call)
      BY <1>1, <3>3 DEF LogTypes
    <3>5. QED
      BY <1>1, <3>2, <3>4 DEF LogTypes, c, m
  <2>3. QED
    BY <2>1, <2>2
<1>3. ASSUME ListenerTask PROVE TypeOK'
  <2>1. Drops(posted', posted) /\ UNCHANGED <<ctx, tasks, urgent, arrived, told>>
    BY <1>3 DEF ListenerTask, Drops
  <2>2. posted' \in Seq(Call) /\ posted[1] = Head(posted) /\ posted[1] \in Call /\ 1 \in DOMAIN posted
    BY <1>1, <2>1, AtDrops DEF QueueTypes
  <2> DEFINE c == posted[1]
  <2>3. c.op \in {"connected", "message", "error"}
    BY <2>2 DEF Connecting
  <2>4. /\ c.op = "connected" => OnDispatchConnected
        /\ c.op = "message" => OnDispatchMessage(c.n)
        /\ c.op = "error" => OnDispatchError
    BY <1>3, <2>2, <2>3 DEF ListenerTask
  <2> HIDE DEF c
  <2>5. ProxyType' /\ heard' \in Seq(Call)
    <3>1. CASE c.op = "connected"
      <4>1. ConnectedCall \in Call
        BY TheCalls
      <4>2. QED
        <5>1. ProxyType'
          BY <1>1, <2>4, <3>1 DEF OnDispatchConnected, ProxyType
        <5>2. Append(heard, ConnectedCall) \in Seq(Call) /\ heard \in Seq(Call)
          BY <1>1, <4>1 DEF LogTypes
        <5>3. heard' = heard \/ heard' = Append(heard, ConnectedCall)
          BY <2>4, <3>1 DEF OnDispatchConnected
        <5>4. QED
          BY <5>1, <5>2, <5>3
    <3>2. CASE c.op = "message"
      <4>1. Message(c.n) \in Call
        BY <2>2 DEF c, Message, Call
      <4>2. QED
        BY <1>2, <2>4, <3>2, <4>1
    <3>3. CASE c.op = "error"
      <4>1. Says("error") \in Call
        BY TheCalls
      <4>2. QED
        <5>1. ProxyType'
          BY <1>1, <2>4, <3>3 DEF OnDispatchError, ProxyType
        <5>2. Append(heard, Says("error")) \in Seq(Call) /\ heard \in Seq(Call)
          BY <1>1, <4>1 DEF LogTypes
        <5>3. heard' = heard \/ heard' = Append(heard, Says("error"))
          BY <2>4, <3>3 DEF OnDispatchError
        <5>4. QED
          BY <5>1, <5>2, <5>3
    <3>4. QED
      BY <2>3, <3>1, <3>2, <3>3
  <2>6. CtxType' /\ QueueTypes' /\ LogTypes'
    BY <1>1, <2>1, <2>2, <2>5 DEF CtxType, QueueTypes, LogTypes
  <2>7. QED
    BY <2>5, <2>6, TypeParts, PTL
<1>4. ASSUME DispatchUrgent PROVE TypeOK'
  <2>1. /\ urgent # <<>> /\ urgent' = Tail(urgent) /\ UNCHANGED <<ctx, tasks, posted, arrived, told>>
        /\ OnDispatchMessage(Head(urgent))
    BY <1>4 DEF DispatchUrgent
  <2>2. Head(urgent) \in 0..MaxReceived /\ urgent' \in Seq(0..MaxReceived)
    <3>1. urgent \in Seq(0..MaxReceived) /\ urgent # <<>>
      BY <1>1, <2>1 DEF QueueTypes
    <3>2. QED
      BY <2>1, <3>1, HeadTailProperties
  <2>3. Message(Head(urgent)) \in Call
    BY <2>2, ProxyAssumption DEF Message, Call
  <2>4. ProxyType' /\ heard' \in Seq(Call)
    BY <1>2, <2>1, <2>3
  <2>5. CtxType' /\ QueueTypes' /\ LogTypes'
    BY <1>1, <2>1, <2>2, <2>4 DEF CtxType, QueueTypes, LogTypes
  <2>6. QED
    BY <2>4, <2>5, TypeParts, PTL
<1>5. QED
  BY <1>3, <1>4 DEF ListenerThread

(***************************************************************************)
(* What the listener's thread does: it handles call c, which was the first *)
(* of its tasks or of the messages kept for it.                            *)
(***************************************************************************)
Handles(c) ==
  \/ c.op = "connected" /\ OnDispatchConnected
  \/ c.op = "message" /\ OnDispatchMessage(c.n)
  \/ c.op = "error" /\ OnDispatchError

LEMMA ListenerHandles ==
  ASSUME TypeOK, Connecting, ListenerThread
  PROVE  /\ UNCHANGED <<ctx, tasks, arrived, told>>
         /\ proxy' = proxy \/ proxy' = [proxy EXCEPT !.told = TRUE]
         /\ \E c \in Call :
              /\ Handles(c)
              /\ c.op # "error" => ctx.pid
              /\ c = IF c.op = "error" THEN Says("error")
                     ELSE IF c.op = "message" THEN Message(c.n) ELSE c
              /\ \/ /\ Drops(posted', posted) /\ c = posted[1] /\ UNCHANGED urgent
                    /\ c.op = "message" => c.n \notin Urgent
                 \/ /\ Drops(urgent', urgent) /\ c = Message(urgent[1]) /\ UNCHANGED posted
                    /\ c.op = "message" /\ c.n \in Urgent
<1>1. \A c \in Call : /\ c.op = "error" /\ c.n = 0 => c = Says("error")
                      /\ c.op = "message" => c = Message(c.n)
  BY DEF Call, Says, Message
<1>2. \A c : Handles(c) => proxy' = proxy \/ proxy' = [proxy EXCEPT !.told = TRUE]
  BY DEF Handles, OnDispatchConnected, OnDispatchMessage, OnDispatchError
<1>3. ASSUME ListenerTask
      PROVE  /\ UNCHANGED <<ctx, tasks, arrived, told, urgent>> /\ Drops(posted', posted)
             /\ posted[1] \in Call /\ Handles(posted[1])
             /\ posted[1].op # "error" => ctx.pid
             /\ posted[1].op = "error" => posted[1].n = 0
             /\ posted[1].op = "message" => posted[1].n \notin Urgent
  <2>1. Drops(posted', posted) /\ UNCHANGED <<ctx, tasks, urgent, arrived, told>>
    BY <1>3 DEF ListenerTask, Drops
  <2>2. posted[1] = Head(posted) /\ posted[1] \in Call /\ 1 \in DOMAIN posted
    BY <2>1, AtDrops DEF TypeOK
  <2>3. /\ posted[1].op \in {"connected", "message", "error"}
        /\ posted[1].op # "error" => ctx.pid
        /\ posted[1].op = "error" => posted[1].n = 0
        /\ posted[1].op = "message" => posted[1].n \notin Urgent
    BY <2>2 DEF Connecting
  <2>4. Handles(posted[1])
    BY <1>3, <2>2, <2>3 DEF ListenerTask, Handles
  <2>5. QED
    BY <2>1, <2>2, <2>3, <2>4
<1>4. ASSUME DispatchUrgent
      PROVE  /\ UNCHANGED <<ctx, tasks, arrived, told, posted>> /\ Drops(urgent', urgent)
             /\ Message(urgent[1]) \in Call /\ Handles(Message(urgent[1]))
             /\ urgent[1] \in Urgent /\ ctx.pid
  <2>1. Drops(urgent', urgent) /\ UNCHANGED <<ctx, tasks, posted, arrived, told>>
    BY <1>4 DEF DispatchUrgent, Drops
  <2>2. urgent[1] = Head(urgent) /\ urgent[1] \in 0..MaxReceived /\ 1 \in DOMAIN urgent
    BY <2>1, AtDrops DEF TypeOK
  <2>3. urgent[1] \in Urgent /\ ctx.pid
    BY <2>2 DEF Connecting
  <2>4. Message(urgent[1]) \in Call
    BY <2>2, ProxyAssumption DEF Message, Call
  <2>5. OnDispatchMessage(urgent[1])
    BY <1>4, <2>2 DEF DispatchUrgent
  <2>6. Handles(Message(urgent[1]))
    BY <2>5, TheCalls DEF Handles
  <2>7. QED
    BY <2>1, <2>3, <2>4, <2>6
<1>5. CASE ListenerTask
  <2>1. QED
    BY <1>1, <1>2, <1>3, <1>5
<1>6. CASE DispatchUrgent
  BY <1>2, <1>4, <1>6, TheCalls
<1>7. QED
  BY <1>5, <1>6 DEF ListenerThread

(***************************************************************************)
(* Opening and closing, step by step.                                      *)
(***************************************************************************)
LEMMA NextOpening ==
  ASSUME TypeOK, Opening, Connecting, Next
  PROVE  Opening'
<1>1. proxy.closes \in Nat
  BY ProxyAssumption DEF TypeOK
<1>2. ASSUME NEW now \in CreateNow, InitProxy(now) PROVE Opening'
  BY <1>2, InitProxyOpening
<1>3. ASSUME NEW f \in Filter, AddFilter(f) PROVE Opening'
  <2>1. /\ PostTask(Do("add")) /\ proxy'.init = proxy.init /\ proxy'.closes = proxy.closes
        /\ ctx'.channel = ctx.channel /\ ctx'.refs = ctx.refs
    BY <1>3 DEF AddFilter, TypeOK
  <2>2. QED
    BY <2>1, OpeningPosts, TheTasks
<1>4. ASSUME NEW f \in Filter, RemoveFilter(f) PROVE Opening'
  <2>1. /\ PostTask([op |-> "remove", f |-> f]) /\ proxy'.init = proxy.init
        /\ proxy'.closes = proxy.closes /\ ctx' = ctx
    BY <1>4 DEF RemoveFilter, TypeOK
  <2>2. QED
    BY <2>1, OpeningPosts, TheTasks
<1>5. ASSUME Send PROVE Opening'
  <2>1. /\ PostTask(Do("send")) /\ proxy'.init = proxy.init /\ proxy'.closes = proxy.closes
        /\ ctx' = ctx
    BY <1>5 DEF Send, TypeOK
  <2>2. QED
    BY <2>1, OpeningPosts, TheTasks
<1>6. ASSUME Close PROVE Opening'
  <2>1. /\ PostTask(Do("close")) \/ UNCHANGED tasks
        /\ proxy'.init = proxy.init /\ proxy'.closes = proxy.closes + 1 /\ ctx' = ctx
    BY <1>6 DEF Close, TypeOK
  <2>2. proxy'.closes # 0
    BY <1>1, <2>1
  <2>3. CASE PostTask(Do("close"))
    BY <2>1, <2>2, <2>3, OpeningPosts, TheTasks
  <2>4. CASE UNCHANGED tasks
    BY <2>1, <2>2, <2>4, OpeningSame
  <2>5. QED
    BY <2>1, <2>3, <2>4
<1>7. ASSUME ClearIPCTaskRunner PROVE Opening'
  <2>1. /\ UNCHANGED tasks /\ proxy'.init = proxy.init /\ proxy'.closes = proxy.closes
        /\ ctx' = ctx
    BY <1>7 DEF ClearIPCTaskRunner, TypeOK
  <2>2. QED
    BY <2>1, OpeningSame
<1>8. ASSUME ChannelEvent PROVE Opening'
  <2>1. /\ UNCHANGED <<tasks, proxy>> /\ ctx'.refs = ctx.refs
        /\ \/ ctx'.channel = ctx.channel
           \/ ctx.channel \in {"open", "connected"} /\ ctx'.channel \in {"connected", "lost"}
    <3>1. CASE OnChannelConnected
      <4>1. ctx' = [Adopt(ctx) EXCEPT !.channel = "connected", !.pid = TRUE] /\ CtxType
        BY <3>1 DEF OnChannelConnected, TypeOK, CtxType
      <4>2. ctx'.refs = ctx.refs /\ ctx'.channel = "connected"
        BY <4>1, AdoptIs
      <4>3. QED
        BY <3>1, <4>2 DEF OnChannelConnected
    <3>2. CASE ChannelLost
      BY <3>2 DEF ChannelLost, TypeOK
    <3>3. CASE \E k \in 0..Len(ctx.filters) : OnMessageReceived(k)
      BY <3>3 DEF OnMessageReceived
    <3>4. QED
      BY <1>8, <3>1, <3>2, <3>3 DEF ChannelEvent
  <2>2. QED
    BY <2>1, OpeningSame
<1>9. ASSUME CreateChannel PROVE Opening'
  BY <1>9, CreateOpening
<1>10. ASSUME OnChannelClosed PROVE Opening'
  <2>1. /\ Runs("close") /\ UNCHANGED proxy
        /\ \/ ctx' = ctx
           \/ /\ HasChannel(ctx) /\ ctx'.channel = "destroyed" /\ ctx'.refs = ctx.refs - 1
    BY <1>10 DEF OnChannelClosed, TypeOK
  <2>2. QED
    BY <2>1, OpeningRuns
<1>11. ASSUME OnAddFilter PROVE Opening'
  <2>1. /\ Runs("add") /\ UNCHANGED proxy
        /\ ctx'.channel = ctx.channel /\ ctx'.refs = ctx.refs
    BY <1>11, AdoptIs, TypeParts DEF OnAddFilter
  <2>2. QED
    BY <2>1, OpeningRuns
<1>12. ASSUME RemoveTask PROVE Opening'
  <2>1. /\ Runs("remove") /\ UNCHANGED proxy
        /\ ctx'.channel = ctx.channel /\ ctx'.refs = ctx.refs
    BY <1>12 DEF RemoveTask, OnRemoveFilter, TypeOK
  <2>2. QED
    BY <2>1, OpeningRuns
<1>13. ASSUME NEW ok \in BOOLEAN, OnChannelOpened(ok) PROVE Opening'
  BY <1>13, OpenedOpening
<1>14. ASSUME NEW ok \in BOOLEAN, OnSendMessage(ok) PROVE Opening'
  <2>1. Runs("send") /\ UNCHANGED <<proxy, ctx>>
    BY <1>14 DEF OnSendMessage
  <2>2. QED
    BY <2>1, OpeningRuns
<1>15. ASSUME ListenerThread PROVE Opening'
  <2>1. /\ UNCHANGED <<tasks, ctx>> /\ proxy'.init = proxy.init /\ proxy'.closes = proxy.closes
    BY <1>15, ListenerHandles DEF TypeOK
  <2>2. QED
    BY <2>1, OpeningSame
<1>16. QED
  BY <1>2, <1>3, <1>4, <1>5, <1>6, <1>7, <1>8, <1>9, <1>10, <1>11, <1>12, <1>13, <1>14, <1>15
     DEF Next, Owner, IpcTask

(***************************************************************************)
(* What the listener's thread is given.                                    *)
(***************************************************************************)
Given(c, pid) ==
  /\ c.op \in {"connected", "message", "error"}
  /\ IF c.op = "error" THEN c.n = 0 ELSE pid
  /\ c.op = "message" => c.n \notin Urgent

LEMMA ConnectingKept ==
  ASSUME TypeOK, Connecting,
         ctx.pid => ctx'.pid, ctx'.channel = "connected" => ctx'.pid,
         ctx'.pid => ctx'.channel \in {"connected", "lost", "destroyed"},
         \/ UNCHANGED posted
         \/ Drops(posted', posted)
         \/ \E c \in Call : Adds(posted', posted, c) /\ Given(c, ctx'.pid),
         \/ UNCHANGED urgent
         \/ Drops(urgent', urgent)
         \/ \E n \in 0..MaxReceived : Adds(urgent', urgent, n) /\ n \in Urgent /\ ctx'.pid,
         \/ UNCHANGED arrived
         \/ \E a \in Event : Adds(arrived', arrived, a) /\ (a.op = "message" => ctx'.pid)
  PROVE  Connecting'
<1>1. posted \in Seq(Call) /\ urgent \in Seq(0..MaxReceived) /\ arrived \in Seq(Event)
  BY DEF TypeOK
<1>2. \A k \in DOMAIN posted : Given(posted[k], ctx'.pid)
  BY DEF Connecting, Given
<1>3. \A k \in DOMAIN posted' : Given(posted'[k], ctx'.pid)
  <2>1. CASE UNCHANGED posted
    BY <1>2, <2>1
  <2>2. CASE Drops(posted', posted)
    <3>1. \A k \in DOMAIN posted' : k + 1 \in DOMAIN posted /\ posted'[k] = posted[k + 1]
      BY <1>1, <2>2, AtDrops
    <3>2. QED
      BY <1>2, <3>1
  <2>3. CASE \E c \in Call : Adds(posted', posted, c) /\ Given(c, ctx'.pid)
    <3>1. PICK c \in Call : Adds(posted', posted, c) /\ Given(c, ctx'.pid)
      BY <2>3
    <3>2. \A k \in DOMAIN posted' : (k \in DOMAIN posted /\ posted'[k] = posted[k]) \/ posted'[k] = c
      BY <1>1, <3>1, AddsEach
    <3>3. QED
      BY <1>2, <3>1, <3>2
  <2>4. QED
    BY <2>1, <2>2, <2>3
<1>4. \A k \in DOMAIN urgent' : urgent'[k] \in Urgent /\ ctx'.pid
  <2>1. \A k \in DOMAIN urgent : urgent[k] \in Urgent /\ ctx'.pid
    BY DEF Connecting
  <2>2. CASE Drops(urgent', urgent)
    <3>1. \A k \in DOMAIN urgent' : k + 1 \in DOMAIN urgent /\ urgent'[k] = urgent[k + 1]
      BY <1>1, <2>2, AtDrops
    <3>2. QED
      BY <2>1, <3>1
  <2>3. CASE \E n \in 0..MaxReceived : Adds(urgent', urgent, n) /\ n \in Urgent /\ ctx'.pid
    <3>1. PICK n \in 0..MaxReceived : Adds(urgent', urgent, n) /\ n \in Urgent /\ ctx'.pid
      BY <2>3
    <3>2. \A k \in DOMAIN urgent' : (k \in DOMAIN urgent /\ urgent'[k] = urgent[k]) \/ urgent'[k] = n
      <4> DEFINE R == 0..MaxReceived
      <4>1. urgent \in Seq(R) /\ n \in R /\ Adds(urgent', urgent, n)
        BY <1>1, <3>1
      <4> HIDE DEF R
      <4>2. QED
        BY <4>1, AddsEach
    <3>3. QED
      BY <2>1, <3>1, <3>2
  <2>4. QED
    BY <2>1, <2>2, <2>3
<1>5. At(arrived', "message") # {} => ctx'.pid
  <2>1. CASE UNCHANGED arrived
    BY <2>1 DEF Connecting
  <2>2. CASE \E a \in Event : Adds(arrived', arrived, a) /\ (a.op = "message" => ctx'.pid)
    <3>1. PICK a \in Event : Adds(arrived', arrived, a) /\ (a.op = "message" => ctx'.pid)
      BY <2>2
    <3>2. At(arrived', "message") =
            At(arrived, "message") \cup (IF a.op = "message" THEN {Len(arrived) + 1} ELSE {})
      BY <1>1, <3>1, AtAdds
    <3>3. QED
      BY <3>1, <3>2 DEF Connecting
  <2>3. QED
    BY <2>1, <2>2
<1>6. QED
  BY <1>3, <1>4, <1>5 DEF Connecting, Given, At

LEMMA ErrorGiven ==
  ASSUME TypeOK, OnChannelError(ctx)
  PROVE  /\ \E c \in Call : Adds(posted', posted, c) /\ Given(c, ctx'.pid)
         /\ \E a \in Event : Adds(arrived', arrived, a) /\ (a.op = "message" => ctx'.pid)
<1>1. Given(Says("error"), ctx'.pid) /\ Says("error") \in Call
  BY TheCalls DEF Given
<1>2. [op |-> "error", n |-> 0, by |-> NoFilter] \in Event
  BY ProxyAssumption DEF Event
<1>3. QED
  BY <1>1, <1>2, ErrorTypes

\* OnMessageReceived for message n and the filters it asks.
LEMMA ReceivedSteps ==
  ASSUME TypeOK, NEW k \in 0..Len(ctx.filters), OnMessageReceived(k)
  PROVE  /\ UNCHANGED <<proxy, ctx, tasks, heard>> /\ ctx.channel = "connected"
         /\ \E n \in 1..MaxReceived : \E by \in Filter \cup {NoFilter} :
              /\ by = IF k = 0 THEN NoFilter ELSE ctx.filters[k]
              /\ [op |-> "message", n |-> n, by |-> by] \in Event
              /\ Adds(arrived', arrived, [op |-> "message", n |-> n, by |-> by])
              /\ told' = Tell(told, IF k = 0 THEN ctx.filters ELSE SubSeq(ctx.filters, 1, k),
                              Message(n))
              /\ Message(n) \in Call
              /\ IF by # NoFilter THEN UNCHANGED <<posted, urgent>>
                 ELSE IF n \in Urgent THEN Adds(urgent', urgent, n) /\ UNCHANGED posted
                 ELSE Adds(posted', posted, Message(n)) /\ UNCHANGED urgent
<1> DEFINE n  == Received + 1
           by == IF k = 0 THEN NoFilter ELSE ctx.filters[k]
<1>1. n \in 1..MaxReceived
  BY ReceivedIs, ProxyAssumption DEF OnMessageReceived
<1>2. by \in Filter \cup {NoFilter} /\ (by = NoFilter <=> k = 0) /\ (k > 0 <=> k # 0)
  <2>1. \A f \in Filter : f # NoFilter
    BY ProxyAssumption DEF Filter, NoFilter
  <2>2. k # 0 => ctx.filters[k] \in Filter
    BY DEF TypeOK
  <2>3. k \in Nat
    BY DEF TypeOK
  <2>4. QED
    BY <2>1, <2>2, <2>3
<1>3. /\ arrived' = Append(arrived, [op |-> "message", n |-> n, by |-> by])
      /\ told' = Tell(told, IF k = 0 THEN ctx.filters ELSE SubSeq(ctx.filters, 1, k), Message(n))
      /\ Forward(n, k)
      /\ UNCHANGED <<proxy, ctx, tasks, heard>> /\ ctx.channel = "connected"
  BY DEF OnMessageReceived
<1> HIDE DEF n, by
<1>4. [op |-> "message", n |-> n, by |-> by] \in Event /\ Message(n) \in Call
  <2>1. n \in 0..MaxReceived
    BY <1>1, ProxyAssumption
  <2>2. QED
    BY <1>1, <1>2, <2>1, TheCalls DEF Event
<1>5. IF by # NoFilter THEN UNCHANGED <<posted, urgent>>
      ELSE IF n \in Urgent THEN Adds(urgent', urgent, n) /\ UNCHANGED posted
      ELSE Adds(posted', posted, Message(n)) /\ UNCHANGED urgent
  BY <1>2, <1>3 DEF Forward, Adds
<1>6. QED
  BY <1>1, <1>2, <1>3, <1>4, <1>5 DEF by, Adds

LEMMA NextConnecting ==
  ASSUME TypeOK, Opening, Connecting, Next
  PROVE  Connecting'
<1>0. CtxType
  BY TypeParts
<1>1. ASSUME Owner PROVE Connecting'
  <2>1. UNCHANGED <<posted, urgent, arrived>>
    BY <1>1 DEF Owner, InitProxy, AddFilter, RemoveFilter, Send, Close, ClearIPCTaskRunner
  <2>2. ASSUME NEW now \in CreateNow, InitProxy(now)
        PROVE  ctx'.pid = ctx.pid /\ ~ctx.pid /\ ctx'.channel \in {"none", "created"}
    BY <2>2, ProxyAssumption DEF InitProxy, Opening, Connecting, TypeOK
  <2>3. ASSUME NEW f \in Filter, AddFilter(f)
        PROVE  ctx'.pid = ctx.pid /\ ctx'.channel = ctx.channel
    BY <2>3 DEF AddFilter, TypeOK
  <2>4. \/ ctx'.pid = ctx.pid /\ ctx'.channel = ctx.channel
        \/ ctx'.pid = ctx.pid /\ ~ctx.pid /\ ctx'.channel \in {"none", "created"}
    BY <1>1, <2>2, <2>3 DEF Owner, RemoveFilter, Send, Close, ClearIPCTaskRunner
  <2>5. /\ ctx.pid => ctx'.pid
        /\ ctx'.channel = "connected" => ctx'.pid
        /\ ctx'.pid => ctx'.channel \in {"connected", "lost", "destroyed"}
    BY <2>4 DEF Connecting
  <2>6. QED
    BY <2>1, <2>5, ConnectingKept
<1>2. ASSUME OnChannelConnected PROVE Connecting'
  <2>1. /\ ctx' = [Adopt(ctx) EXCEPT !.channel = "connected", !.pid = TRUE]
        /\ posted' = Append(posted, Says("connected")) /\ UNCHANGED <<urgent, arrived>>
    BY <1>2 DEF OnChannelConnected
  <2>2. ctx'.pid /\ ctx'.channel = "connected"
    BY <1>0, <2>1, AdoptIs
  <2>3. /\ Adds(posted', posted, Says("connected")) /\ Given(Says("connected"), ctx'.pid)
        /\ Says("connected") \in Call
    BY <2>1, <2>2, TheCalls DEF Adds, Given
  <2>4. QED
    BY <2>1, <2>2, <2>3, ConnectingKept
<1>3. ASSUME ChannelLost PROVE Connecting'
  <2>1. OnChannelError(ctx) /\ UNCHANGED urgent /\ ctx'.pid = ctx.pid /\ ctx'.channel = "lost"
    BY <1>0, <1>3 DEF ChannelLost, CtxType
  <2>2. QED
    BY <2>1, ErrorGiven, ConnectingKept
<1>4. ASSUME NEW k \in 0..Len(ctx.filters), OnMessageReceived(k) PROVE Connecting'
  <2>1. UNCHANGED ctx /\ ctx.channel = "connected"
    BY <1>4, ReceivedSteps
  <2>2. ctx.pid
    BY <2>1 DEF Connecting
  <2>3. PICK n \in 1..MaxReceived, by \in Filter \cup {NoFilter} :
              /\ [op |-> "message", n |-> n, by |-> by] \in Event
              /\ Adds(arrived', arrived, [op |-> "message", n |-> n, by |-> by])
              /\ Message(n) \in Call
              /\ IF by # NoFilter THEN UNCHANGED <<posted, urgent>>
                 ELSE IF n \in Urgent THEN Adds(urgent', urgent, n) /\ UNCHANGED posted
                 ELSE Adds(posted', posted, Message(n)) /\ UNCHANGED urgent
    BY <1>4, ReceivedSteps
  <2>4. n \notin Urgent => Given(Message(n), ctx'.pid)
    BY <2>1, <2>2, TheCalls DEF Given
  <2>5. n \in 0..MaxReceived
    BY ProxyAssumption
  <2>6. /\ \/ UNCHANGED posted
           \/ \E c \in Call : Adds(posted', posted, c) /\ Given(c, ctx'.pid)
        /\ \/ UNCHANGED urgent
           \/ \E m \in 0..MaxReceived : Adds(urgent', urgent, m) /\ m \in Urgent /\ ctx'.pid
    BY <2>1, <2>2, <2>3, <2>4, <2>5
  <2>7. \E a \in Event : Adds(arrived', arrived, a) /\ (a.op = "message" => ctx'.pid)
    BY <2>1, <2>2, <2>3
  <2>8. /\ ctx'.channel = "connected" => ctx'.pid
        /\ ctx'.pid => ctx'.channel \in {"connected", "lost", "destroyed"}
        /\ ctx.pid => ctx'.pid
    BY <2>1, <2>2
  <2>9. QED
    BY <2>6, <2>7, <2>8, ConnectingKept
<1>5. ASSUME IpcTask PROVE Connecting'
  <2>1. /\ UNCHANGED urgent
        /\ OnChannelError(ctx) \/ UNCHANGED <<posted, arrived>>
    BY <1>5 DEF IpcTask, CreateChannel, OnChannelClosed, OnAddFilter, RemoveTask,
                OnChannelOpened, OnSendMessage
  <2>2. /\ ctx.pid => ctx'.pid
        /\ ctx'.channel = "connected" => ctx'.pid
        /\ ctx'.pid => ctx'.channel \in {"connected", "lost", "destroyed"}
    <3>1. CASE CreateChannel
      <4>1. ~ctx.pid
        BY <3>1, CreateOpening DEF Connecting
      <4>2. QED
        BY <1>0, <3>1, <4>1 DEF CreateChannel, CtxType
    <3>2. CASE OnChannelClosed
      BY <1>0, <3>2 DEF OnChannelClosed, CtxType, Connecting
    <3>3. CASE OnAddFilter
      <4>1. ctx'.pid = ctx.pid /\ ctx'.channel = ctx.channel
        BY <1>0, <3>3, AdoptIs DEF OnAddFilter
      <4>2. QED
        BY <4>1 DEF Connecting
    <3>4. CASE RemoveTask
      <4>1. ctx'.pid = ctx.pid /\ ctx'.channel = ctx.channel
        BY <1>0, <3>4 DEF RemoveTask, OnRemoveFilter, CtxType
      <4>2. QED
        BY <4>1 DEF Connecting
    <3>5. ASSUME NEW ok \in BOOLEAN, OnChannelOpened(ok)
          PROVE  ctx'.pid = ctx.pid /\ ~ctx.pid /\ ctx'.channel \in {"open", "failed"}
      <4>1. ~ctx.pid
        BY <3>5, OpenedOpening DEF Connecting
      <4>2. QED
        BY <1>0, <3>5, <4>1 DEF OnChannelOpened, CtxType
    <3>6. ASSUME NEW ok \in BOOLEAN, OnSendMessage(ok) PROVE UNCHANGED ctx
      BY <3>6 DEF OnSendMessage
    <3>7. QED
      BY <1>5, <3>1, <3>2, <3>3, <3>4, <3>5, <3>6 DEF IpcTask, Connecting
  <2>3. QED
    BY <2>1, <2>2, ErrorGiven, ConnectingKept
<1>6. ASSUME ListenerThread PROVE Connecting'
  <2>1. /\ UNCHANGED <<ctx, arrived>>
        /\ UNCHANGED posted \/ Drops(posted', posted)
        /\ UNCHANGED urgent \/ Drops(urgent', urgent)
    BY <1>6, ListenerHandles
  <2>2. /\ ctx.pid => ctx'.pid
        /\ ctx'.channel = "connected" => ctx'.pid
        /\ ctx'.pid => ctx'.channel \in {"connected", "lost", "destroyed"}
    BY <2>1 DEF Connecting
  <2>3. QED
    BY <2>1, <2>2, ConnectingKept
<1>7. QED
  BY <1>1, <1>2, <1>3, <1>4, <1>5, <1>6 DEF Next, ChannelEvent

(***************************************************************************)
(* What the listener hears.                                                *)
(***************************************************************************)

\* The connection is heard once, with the pid, and first.
Told(q) == /\ \A j, k \in At(q, "connected") : j = k
           /\ \A k \in At(q, "connected") : q[k].n = 1
           /\ \A k \in At(q, "message") : \E j \in At(q, "connected") : j < k

LEMMA ToldGrows ==
  ASSUME NEW q \in Seq(Call), NEW c \in Call, NEW r, Adds(r, q, c), Told(q),
         c.op = "connected" => c.n = 1 /\ At(q, "connected") = {},
         c.op = "message" => At(q, "connected") # {}
  PROVE  /\ Told(r) /\ r \in Seq(Call)
         /\ At(r, "connected") # {} <=> At(q, "connected") # {} \/ c.op = "connected"
<1>1. /\ r \in Seq(Call) /\ Len(q) \in Nat
      /\ \A k \in DOMAIN q : r[k] = q[k]
      /\ r[Len(q) + 1] = c
      /\ \A op : At(r, op) = At(q, op) \cup (IF c.op = op THEN {Len(q) + 1} ELSE {})
  BY AtAdds
<1>2. \A op : \A k \in At(q, op) : k \in Nat /\ k <= Len(q) /\ k \in DOMAIN q
  BY AtIn DEF At
<1>3. \A j, k \in At(r, "connected") : j = k
  BY <1>1 DEF Told
<1>4. \A k \in At(r, "connected") : r[k].n = 1
  BY <1>1, <1>2 DEF Told
<1>5. \A k \in At(r, "message") : \E j \in At(r, "connected") : j < k
  BY <1>1, <1>2 DEF Told
<1>6. QED
  BY <1>1, <1>3, <1>4, <1>5 DEF Told

\* OnDispatchMessage adds one call or two.
LEMMA MessageHeard ==
  ASSUME TypeOK, NEW n, OnDispatchMessage(n), proxy.listener
  PROVE  /\ proxy' = [proxy EXCEPT !.told = TRUE]
         /\ IF proxy.told THEN Adds(heard', heard, Message(n))
            ELSE \E h \in Seq(Call) : Adds(h, heard, ConnectedCall) /\ Adds(heard', h, Message(n))
<1>1. ConnectedCall \in Call /\ heard \in Seq(Call)
  BY TheCalls DEF TypeOK
<1> DEFINE c == ConnectedCall
           m == Message(n)
           h == Append(heard, c)
<1>2. heard' = heard \o (IF proxy.told THEN <<>> ELSE <<c>>) \o <<m>> /\ proxy' = [proxy EXCEPT !.told = TRUE]
  BY DEF OnDispatchMessage
<1> HIDE DEF c, m
<1>3. proxy.told => heard' = Append(heard, m)
  BY <1>1, <1>2
<1>4. ~proxy.told => h \in Seq(Call) /\ heard' = Append(h, m)
  <2>1. h \in Seq(Call)
    BY <1>1 DEF c
  <2>2. (heard \o <<c>>) \o <<m>> = Append(heard \o <<c>>, m)
    BY <1>1, <2>1
  <2>3. heard \o <<c>> = h
    BY <1>1, <2>1
  <2>4. QED
    BY <1>2, <2>1, <2>2, <2>3
<1>5. Adds(h, heard, c)
  BY DEF Adds
<1>6. QED
  BY <1>2, <1>3, <1>4, <1>5 DEF Adds, c, m

LEMMA NextHearing ==
  ASSUME TypeOK, Connecting, Hearing, Next
  PROVE  Hearing'
<1>1. Told(heard) /\ heard \in Seq(Call)
  BY DEF Hearing, ConnectedFirst, Told, TypeOK
<1>2. ASSUME Told(heard'), UNCHANGED ctx, proxy'.listener = proxy.listener,
             At(heard', "connected") # {} => proxy'.told,
             proxy.listener /\ proxy'.told => At(heard', "connected") # {}
      PROVE  Hearing'
  BY <1>2 DEF Hearing, ConnectedFirst, Told, At
<1>3. ASSUME ListenerThread PROVE Hearing'
  <2>1. PICK c \in Call :
          /\ Handles(c) /\ (c.op # "error" => ctx.pid)
          /\ c = IF c.op = "error" THEN Says("error")
                 ELSE IF c.op = "message" THEN Message(c.n) ELSE c
    BY <1>3, ListenerHandles
  <2>2. UNCHANGED ctx /\ proxy'.listener = proxy.listener
    BY <1>3, ListenerHandles DEF TypeOK
  <2>3. /\ ctx.pid => ConnectedCall.n = 1
        /\ ConnectedCall \in Call /\ ConnectedCall.op = "connected"
    BY TheCalls DEF ConnectedCall
  <2>4. /\ At(heard, "connected") # {} => proxy.told
        /\ proxy.listener /\ proxy.told => At(heard, "connected") # {}
    BY DEF Hearing
  <2>5. CASE c.op = "connected" /\ OnDispatchConnected
    <3>1. proxy'.told
      BY <2>5 DEF OnDispatchConnected, TypeOK
    <3>2. CASE proxy.listener /\ ~proxy.told
      <4>1. Adds(heard', heard, ConnectedCall) /\ At(heard, "connected") = {}
        BY <2>4, <2>5, <3>2 DEF OnDispatchConnected, Adds
      <4>2. Told(heard') /\ At(heard', "connected") # {}
        BY <1>1, <2>1, <2>3, <2>5, <4>1, ToldGrows
      <4>3. QED
        BY <1>2, <2>2, <3>1, <4>2
    <3>3. CASE ~(proxy.listener /\ ~proxy.told)
      <4>1. heard' = heard
        BY <2>5, <3>3 DEF OnDispatchConnected
      <4>2. QED
        BY <1>1, <1>2, <2>2, <2>4, <3>1, <3>3, <4>1
    <3>4. QED
      BY <3>2, <3>3
  <2>6. CASE c.op = "message" /\ OnDispatchMessage(c.n)
    <3>1. CASE proxy.listener
      <4>1. c = Message(c.n) /\ proxy'.told
        BY <2>1, <2>6, <3>1, MessageHeard DEF TypeOK
      <4>2. CASE proxy.told
        <5>1. Adds(heard', heard, c)
          BY <2>6, <3>1, <4>1, <4>2, MessageHeard
        <5>2. Told(heard') /\ At(heard', "connected") # {}
          BY <1>1, <2>1, <2>4, <2>6, <3>1, <4>2, <5>1, ToldGrows
        <5>3. QED
          BY <1>2, <2>2, <4>1, <5>2
      <4>3. CASE ~proxy.told
        <5>1. PICK h \in Seq(Call) : Adds(h, heard, ConnectedCall) /\ Adds(heard', h, c)
          BY <2>6, <3>1, <4>1, <4>3, MessageHeard
        <5>2. Told(h) /\ At(h, "connected") # {}
          BY <1>1, <2>1, <2>3, <2>4, <2>6, <4>3, <5>1, ToldGrows
        <5>3. Told(heard') /\ At(heard', "connected") # {}
          BY <2>1, <2>6, <5>1, <5>2, ToldGrows
        <5>4. QED
          BY <1>2, <2>2, <4>1, <5>3
      <4>4. QED
        BY <4>2, <4>3 DEF TypeOK
    <3>2. CASE ~proxy.listener
      <4>1. UNCHANGED <<proxy, heard>>
        BY <2>6, <3>2 DEF OnDispatchMessage
      <4>2. QED
        BY <1>1, <1>2, <2>2, <2>4, <4>1
    <3>3. QED
      BY <3>1, <3>2
  <2>7. CASE c.op = "error" /\ OnDispatchError
    <3>1. UNCHANGED proxy
      BY <2>7 DEF OnDispatchError
    <3>2. CASE proxy.listener
      <4>1. Adds(heard', heard, c)
        BY <2>1, <2>7, <3>2 DEF OnDispatchError, Adds
      <4>2. Told(heard') /\ (At(heard', "connected") # {} <=> At(heard, "connected") # {})
        BY <1>1, <2>1, <2>7, <4>1, ToldGrows
      <4>3. QED
        BY <1>2, <2>2, <2>4, <3>1, <4>2
    <3>3. CASE ~proxy.listener
      <4>1. heard' = heard
        BY <2>7, <3>3 DEF OnDispatchError
      <4>2. QED
        BY <1>1, <1>2, <2>2, <2>4, <3>1, <4>1
    <3>4. QED
      BY <3>2, <3>3
  <2>8. QED
    BY <2>1, <2>5, <2>6, <2>7 DEF Handles
<1>4. ASSUME Owner \/ ChannelEvent \/ IpcTask PROVE Hearing'
  <2>1. UNCHANGED heard
    BY <1>4 DEF Owner, InitProxy, AddFilter, RemoveFilter, Send, Close, ClearIPCTaskRunner,
                ChannelEvent, OnChannelConnected, ChannelLost, OnMessageReceived,
                IpcTask, CreateChannel, OnChannelClosed, OnAddFilter, RemoveTask,
                OnChannelOpened, OnSendMessage
  <2>2. proxy'.told = proxy.told /\ (proxy'.listener => proxy.listener)
    <3>1. CASE Owner
      BY <3>1 DEF Owner, InitProxy, AddFilter, RemoveFilter, Send, Close, ClearIPCTaskRunner,
                  TypeOK
    <3>2. CASE ChannelEvent \/ IpcTask
      BY <3>2 DEF ChannelEvent, OnChannelConnected, ChannelLost, OnMessageReceived,
                  IpcTask, CreateChannel, OnChannelClosed, OnAddFilter, RemoveTask,
                  OnChannelOpened, OnSendMessage
    <3>3. QED
      BY <1>4, <3>1, <3>2
  <2>3. QED
    BY <2>1, <2>2 DEF Hearing, ConnectedFirst, At
<1>5. QED
  BY <1>3, <1>4 DEF Next

(***************************************************************************)
(* What the listener has heard and what is on its way are together what    *)
(* ought to be heard.                                                      *)
(***************************************************************************)
OrdinaryCalls == {c \in Call : Ordinary(c)}
EarlyCalls    == {c \in Call : Early(c)}
Messages(u)   == [k \in DOMAIN u |-> Message(u[k])]

\* heard and the tasks are the ordinary calls of due, heard and u the early ones.
Hears(h, p, u, due) ==
  /\ Joins(Only(due, OrdinaryCalls), Only(h, OrdinaryCalls), Only(p, OrdinaryCalls))
  /\ Joins(Only(due, EarlyCalls), Only(h, EarlyCalls), Messages(u))

LEMMA DeliveredIs ==
  DeliveredOnceInOrder <=> (proxy.listener => Hears(heard, posted, urgent, Due))
<1>1. UrgentCalls = Messages(urgent)
  BY DEF UrgentCalls, Messages
<1>2. /\ InOrder(heard) \o InOrder(posted) = InOrder(Due) <=>
           Joins(Only(Due, OrdinaryCalls), Only(heard, OrdinaryCalls), Only(posted, OrdinaryCalls))
      /\ Overtaking(heard) \o UrgentCalls = Overtaking(Due) <=>
           Joins(Only(Due, EarlyCalls), Only(heard, EarlyCalls), Messages(urgent))
  BY <1>1 DEF InOrder, Overtaking, Joins, OrdinaryCalls, EarlyCalls
<1>3. QED
  BY <1>2 DEF DeliveredOnceInOrder, Hears

LEMMA Kinds ==
  ASSUME NEW c \in Call
  PROVE  /\ ~(c \in OrdinaryCalls /\ c \in EarlyCalls)
         /\ c.op \notin {"message", "error"} => c \notin OrdinaryCalls /\ c \notin EarlyCalls
         /\ c.op = "error" => c \in OrdinaryCalls
         /\ c.op = "message" => (c \in OrdinaryCalls <=> c.n \notin Urgent)
                                /\ (c \in EarlyCalls <=> c.n \in Urgent)
  BY DEF OrdinaryCalls, EarlyCalls, Ordinary, Early

LEMMA OnlyAdds ==
  ASSUME NEW T, NEW q \in Seq(T), NEW x \in T, NEW r, Adds(r, q, x), NEW S
  PROVE  /\ IF x \in S THEN Adds(Only(r, S), Only(q, S), x) ELSE Only(r, S) = Only(q, S)
         /\ Only(q, S) \in Seq(T) /\ r \in Seq(T)
<1>1. Only(Append(q, x), S) = IF x \in S THEN Append(Only(q, S), x) ELSE Only(q, S)
  BY OnlyAppend
<1>2. Only(q, S) \in Seq(T)
  BY OnlyType
<1>3. r \in Seq(T)
  BY AddsIs
<1>4. QED
  BY <1>1, <1>2, <1>3 DEF Adds

Leads(q, x, r) == q = <<x>> \o r

LEMMA OnlyDrops ==
  ASSUME NEW T, NEW q \in Seq(T), NEW r, Drops(r, q), NEW S
  PROVE  /\ IF q[1] \in S THEN Leads(Only(q, S), q[1], Only(r, S)) ELSE Only(q, S) = Only(r, S)
         /\ Only(q, S) \in Seq(T) /\ Only(r, S) \in Seq(T) /\ r \in Seq(T)
<1>1. q # <<>> /\ r = Tail(q) /\ r \in Seq(T) /\ q[1] = Head(q)
  BY DEF Drops
<1>2. Only(q, S) = (IF Head(q) \in S THEN <<Head(q)>> ELSE <<>>) \o Only(Tail(q), S)
  BY <1>1, OnlyTail
<1>3. Only(q, S) \in Seq(T) /\ Only(r, S) \in Seq(T)
  BY <1>1, OnlyType
<1> DEFINE h == Head(q)
           o == Only(r, S)
<1>4. Only(q, S) = (IF h \in S THEN <<h>> ELSE <<>>) \o o
  BY <1>1, <1>2
<1>5. o \in Seq(T) /\ q[1] = h
  BY <1>1, <1>3
<1> HIDE DEF h, o
<1>6. <<>> \o o = o
  BY <1>5
<1>7. IF h \in S THEN Leads(Only(q, S), h, o) ELSE Only(q, S) = o
  BY <1>4, <1>6 DEF Leads
<1>8. QED
  BY <1>1, <1>3, <1>5, <1>7 DEF o

\* The head of the second part becomes the end of the first.
LEMMA MoveOver ==
  ASSUME NEW T, NEW a \in Seq(T), NEW b \in Seq(T), NEW x \in T, NEW p \in Seq(T),
         NEW a2, Adds(a2, a, x), Leads(p, x, b), NEW d, Joins(d, a, p)
  PROVE  Joins(d, a2, b)
<1>1. /\ a2 \in Seq(T) /\ Len(a2) = Len(a) + 1
      /\ \A i \in 1..(Len(a) + 1) : a2[i] = IF i <= Len(a) THEN a[i] ELSE x
  BY AddsIs
<1> DEFINE y == <<x>>
<1>2. y \in Seq(T) /\ Len(y) = 1 /\ y[1] = x /\ Joins(p, y, b)
  BY DEF Leads, Joins
<1> HIDE DEF y
<1>3. /\ Len(p) = Len(y) + Len(b)
      /\ \A i \in 1..(Len(y) + Len(b)) : p[i] = IF i <= Len(y) THEN y[i] ELSE b[i - Len(y)]
  <2>1. y \in Seq(T) /\ Joins(p, y, b)
    BY <1>2
  <2>2. QED
    BY <2>1, JoinsIs
<1>4. /\ d \in Seq(T) /\ Len(d) = Len(a) + Len(p)
      /\ \A i \in 1..(Len(a) + Len(p)) : d[i] = IF i <= Len(a) THEN a[i] ELSE p[i - Len(a)]
  BY JoinsIs
<1> DEFINE v == a2 \o b
<1>5. Joins(v, a2, b)
  BY DEF Joins
<1> HIDE DEF v
<1>6. /\ v \in Seq(T) /\ Len(v) = Len(a2) + Len(b)
      /\ \A i \in 1..(Len(a2) + Len(b)) : v[i] = IF i <= Len(a2) THEN a2[i] ELSE b[i - Len(a2)]
  <2>1. a2 \in Seq(T) /\ b \in Seq(T) /\ Joins(v, a2, b)
    BY <1>1, <1>5
  <2>2. QED
    BY <2>1, JoinsIs
<1>7. Len(a) \in Nat /\ Len(b) \in Nat
  OBVIOUS
<1>8. Len(d) = Len(v)
  BY <1>1, <1>2, <1>3, <1>4, <1>6, <1>7
<1>9. ASSUME NEW i \in 1..Len(d) PROVE d[i] = v[i]
  <2>1. i \in Nat /\ i \in 1..(Len(a) + Len(p)) /\ i \in 1..(Len(a2) + Len(b))
    BY <1>1, <1>2, <1>3, <1>4, <1>7
  <2>2. CASE i <= Len(a)
    <3>1. d[i] = a[i]
      BY <1>4, <2>1, <2>2
    <3>2. i <= Len(a2) /\ i \in 1..(Len(a) + 1)
      BY <1>1, <1>7, <2>1, <2>2
    <3>3. v[i] = a2[i] /\ a2[i] = a[i]
      BY <1>1, <1>6, <2>1, <2>2, <3>2
    <3>4. QED
      BY <3>1, <3>3
  <2>3. CASE i = Len(a) + 1
    <3>1. i - Len(a) = 1 /\ 1 \in 1..(Len(y) + Len(b))
      BY <1>2, <1>7, <2>3
    <3>2. d[i] = p[1] /\ p[1] = x
      <4>1. d[i] = p[i - Len(a)]
        BY <1>4, <1>7, <2>1, <2>3
      <4>2. p[1] = y[1]
        BY <1>2, <1>3, <3>1
      <4>3. QED
        BY <1>2, <3>1, <4>1, <4>2
    <3>3. v[i] = x
      BY <1>1, <1>6, <1>7, <2>1, <2>3
    <3>4. QED
      BY <3>2, <3>3
  <2>4. CASE i > Len(a) + 1
    <3>1. /\ i - Len(a) \in 1..(Len(y) + Len(b)) /\ ~(i - Len(a) <= Len(y))
          /\ (i - Len(a)) - Len(y) = i - Len(a2)
      BY <1>1, <1>2, <1>3, <1>7, <2>1, <2>4
    <3>2. d[i] = p[i - Len(a)] /\ p[i - Len(a)] = b[i - Len(a2)]
      <4>1. d[i] = p[i - Len(a)]
        BY <1>4, <1>7, <2>1, <2>4
      <4>2. p[i - Len(a)] = b[(i - Len(a)) - Len(y)]
        BY <1>3, <3>1
      <4>3. QED
        BY <3>1, <4>1, <4>2
    <3>3. v[i] = b[i - Len(a2)]
      BY <1>1, <1>6, <1>7, <2>1, <2>4
    <3>4. QED
      BY <3>2, <3>3
  <2>5. QED
    BY <1>7, <2>1, <2>2, <2>3, <2>4
<1>10. d = v
  BY <1>4, <1>6, <1>8, <1>9, SeqEqual
<1>11. QED
  BY <1>10 DEF v, Joins

LEMMA MessagesIs ==
  ASSUME NEW u \in Seq(0..MaxReceived)
  PROVE  /\ Messages(u) \in Seq(Call)
         /\ \A n \in 0..MaxReceived : \A v :
              Adds(v, u, n) => Adds(Messages(v), Messages(u), Message(n)) /\ v \in Seq(0..MaxReceived)
         /\ \A v : Drops(v, u) => /\ Leads(Messages(u), Message(u[1]), Messages(v))
                                  /\ Message(u[1]) \in Call /\ v \in Seq(0..MaxReceived)
<1> DEFINE R == 0..MaxReceived
<1>1. \A n \in R : Message(n) \in Call
  BY ProxyAssumption DEF Message, Call
<1>2. u \in Seq(R)
  OBVIOUS
<1> HIDE DEF R
<1>3. \A v \in Seq(R) : Messages(v) \in Seq(Call) /\ Len(Messages(v)) = Len(v)
                        /\ \A k \in 1..Len(v) : Messages(v)[k] = Message(v[k])
  <2>1. SUFFICES ASSUME NEW v \in Seq(R)
                 PROVE  Messages(v) \in Seq(Call) /\ Len(Messages(v)) = Len(v)
                        /\ \A k \in 1..Len(v) : Messages(v)[k] = Message(v[k])
    OBVIOUS
  <2>2. DOMAIN v = 1..Len(v) /\ Len(v) \in Nat /\ \A k \in 1..Len(v) : v[k] \in R
    OBVIOUS
  <2>3. Messages(v) = [k \in 1..Len(v) |-> Message(v[k])]
    BY <2>2 DEF Messages
  <2>4. Messages(v) \in Seq(Call)
    BY <1>1, <2>2, <2>3
  <2>5. QED
    BY <2>2, <2>3, <2>4
<1>4. ASSUME NEW n \in R, NEW v, Adds(v, u, n)
      PROVE  Adds(Messages(v), Messages(u), Message(n)) /\ v \in Seq(R)
  <2>1. /\ v \in Seq(R) /\ Len(v) = Len(u) + 1 /\ Len(u) \in Nat
        /\ \A i \in 1..(Len(u) + 1) : v[i] = IF i <= Len(u) THEN u[i] ELSE n
    BY <1>2, <1>4, AddsIs
  <2> DEFINE m == Message(n)
             a == Messages(u)
             b == Messages(v)
             w == Append(a, m)
  <2>2. /\ a \in Seq(Call) /\ Len(a) = Len(u) /\ \A k \in 1..Len(u) : a[k] = Message(u[k])
        /\ b \in Seq(Call) /\ Len(b) = Len(v) /\ \A k \in 1..Len(v) : b[k] = Message(v[k])
        /\ m \in Call
    BY <1>1, <1>2, <1>3, <2>1
  <2>3. Adds(w, a, m)
    BY DEF Adds
  <2> HIDE DEF a, b, w, m
  <2>4. /\ w \in Seq(Call) /\ Len(w) = Len(a) + 1
        /\ \A i \in 1..(Len(a) + 1) : w[i] = IF i <= Len(a) THEN a[i] ELSE m
    <3>1. a \in Seq(Call) /\ m \in Call /\ Adds(w, a, m)
      BY <2>2, <2>3
    <3>2. QED
      BY <3>1, AddsIs
  <2>5. ASSUME NEW i \in 1..Len(w) PROVE w[i] = b[i]
    <3>1. i \in 1..(Len(u) + 1) /\ b[i] = Message(v[i])
      BY <2>1, <2>2, <2>4
    <3>2. CASE i <= Len(u)
      BY <2>1, <2>2, <2>4, <3>1, <3>2
    <3>3. CASE ~(i <= Len(u))
      BY <2>1, <2>2, <2>4, <3>1, <3>3 DEF m
    <3>4. QED
      BY <3>2, <3>3
  <2>6. Len(w) = Len(b)
    BY <2>1, <2>2, <2>4
  <2>7. w = b
    BY <2>2, <2>4, <2>5, <2>6, SeqEqual
  <2>8. QED
    BY <2>1, <2>3, <2>7 DEF a, b, m
<1>5. ASSUME NEW v, Drops(v, u)
      PROVE  /\ Leads(Messages(u), Message(u[1]), Messages(v))
             /\ Message(u[1]) \in Call /\ v \in Seq(R)
  <2>1. /\ v \in Seq(R) /\ Len(v) = Len(u) - 1 /\ Len(u) \in Nat \ {0}
        /\ u[1] \in R
        /\ \A k \in 1..(Len(u) - 1) : v[k] = u[k + 1]
    BY <1>2, <1>5, AtDrops
  <2> DEFINE m == Message(u[1])
             a == Messages(v)
             b == Messages(u)
             y == <<m>>
             w == y \o a
  <2>2. /\ a \in Seq(Call) /\ Len(a) = Len(v) /\ \A k \in 1..Len(v) : a[k] = Message(v[k])
        /\ b \in Seq(Call) /\ Len(b) = Len(u) /\ \A k \in 1..Len(u) : b[k] = Message(u[k])
        /\ m \in Call
    BY <1>1, <1>2, <1>3, <2>1
  <2>3. y \in Seq(Call) /\ Len(y) = 1 /\ y[1] = m /\ Joins(w, y, a)
    BY <2>2 DEF Joins
  <2> HIDE DEF a, b, m, y, w
  <2>4. /\ w \in Seq(Call) /\ Len(w) = Len(y) + Len(a)
        /\ \A i \in 1..(Len(y) + Len(a)) : w[i] = IF i <= Len(y) THEN y[i] ELSE a[i - Len(y)]
    <3>1. y \in Seq(Call) /\ a \in Seq(Call) /\ Joins(w, y, a)
      BY <2>2, <2>3
    <3>2. QED
      BY <3>1, JoinsIs
  <2>5. ASSUME NEW i \in 1..Len(w) PROVE w[i] = b[i]
    <3>1. i \in 1..Len(u) /\ i \in 1..(Len(y) + Len(a)) /\ b[i] = Message(u[i])
      BY <2>1, <2>2, <2>3, <2>4
    <3>2. CASE i = 1
      BY <2>1, <2>2, <2>3, <2>4, <3>1, <3>2 DEF m
    <3>3. CASE i # 1
      <4>1. i - 1 \in 1..Len(v) /\ (i - 1) + 1 = i /\ ~(i <= Len(y)) /\ i - Len(y) = i - 1
        BY <2>1, <2>2, <2>3, <3>1, <3>3
      <4>2. w[i] = a[i - 1] /\ a[i - 1] = Message(v[i - 1]) /\ v[i - 1] = u[i]
        BY <2>1, <2>2, <2>4, <3>1, <4>1
      <4>3. QED
        BY <3>1, <4>2
    <3>4. QED
      BY <3>2, <3>3
  <2>6. Len(w) = Len(b)
    BY <2>1, <2>2, <2>3, <2>4
  <2>7. w = b
    BY <2>2, <2>4, <2>5, <2>6, SeqEqual
  <2>8. Leads(b, m, a)
    BY <2>7 DEF Leads, w, y
  <2>9. QED
    BY <2>1, <2>2, <2>8 DEF a, b, m
<1>6. QED
  BY <1>2, <1>3, <1>4, <1>5 DEF R

\* A call that is due is put behind the tasks.
LEMMA HearsPosted ==
  ASSUME NEW h \in Seq(Call), NEW p \in Seq(Call), NEW u, NEW due \in Seq(Call),
         Hears(h, p, u, due), NEW c \in Call, NEW p2, Adds(p2, p, c)
  PROVE  /\ c \in OrdinaryCalls => \A due2 : Adds(due2, due, c) => Hears(h, p2, u, due2)
         /\ c \notin OrdinaryCalls => Hears(h, p2, u, due)
<1>1. ASSUME c \in OrdinaryCalls, NEW due2, Adds(due2, due, c) PROVE Hears(h, p2, u, due2)
  <2>1. /\ Adds(Only(p2, OrdinaryCalls), Only(p, OrdinaryCalls), c)
        /\ Adds(Only(due2, OrdinaryCalls), Only(due, OrdinaryCalls), c)
        /\ Only(due2, EarlyCalls) = Only(due, EarlyCalls)
        /\ Only(h, OrdinaryCalls) \in Seq(Call) /\ Only(p, OrdinaryCalls) \in Seq(Call)
    <3>1. c \notin EarlyCalls
      BY <1>1, Kinds
    <3>2. Adds(Only(p2, OrdinaryCalls), Only(p, OrdinaryCalls), c)
      BY <1>1, OnlyAdds
    <3>3. /\ Adds(Only(due2, OrdinaryCalls), Only(due, OrdinaryCalls), c)
          /\ Only(due2, EarlyCalls) = Only(due, EarlyCalls)
      BY <1>1, <3>1, OnlyAdds
    <3>4. QED
      BY <3>2, <3>3, OnlyType
  <2>2. Joins(Only(due2, OrdinaryCalls), Only(h, OrdinaryCalls), Only(p2, OrdinaryCalls))
    BY <2>1, JoinsAdds DEF Hears
  <2>3. QED
    BY <2>1, <2>2 DEF Hears
<1>2. ASSUME c \notin OrdinaryCalls PROVE Hears(h, p2, u, due)
  <2>1. Only(p2, OrdinaryCalls) = Only(p, OrdinaryCalls)
    BY <1>2, OnlyAdds
  <2>2. QED
    BY <2>1 DEF Hears
<1>3. QED
  BY <1>1, <1>2

\* An urgent message is kept.
LEMMA HearsUrgent ==
  ASSUME NEW h \in Seq(Call), NEW p, NEW u \in Seq(0..MaxReceived), NEW due \in Seq(Call),
         Hears(h, p, u, due), NEW n \in 0..MaxReceived, Message(n) \in EarlyCalls,
         NEW u2, Adds(u2, u, n), NEW due2, Adds(due2, due, Message(n))
  PROVE  Hears(h, p, u2, due2)
<1> DEFINE m == Message(n)
<1>1. Adds(Messages(u2), Messages(u), m) /\ Messages(u) \in Seq(Call)
  BY MessagesIs
<1>2. m \in Call /\ m \in EarlyCalls /\ m \notin OrdinaryCalls
  BY Kinds DEF EarlyCalls
<1>3. Adds(due2, due, m)
  OBVIOUS
<1> HIDE DEF m
<1>4. /\ Adds(Only(due2, EarlyCalls), Only(due, EarlyCalls), m)
      /\ Only(due2, OrdinaryCalls) = Only(due, OrdinaryCalls)
      /\ Only(h, EarlyCalls) \in Seq(Call)
  <2>1. /\ Adds(Only(due2, EarlyCalls), Only(due, EarlyCalls), m)
        /\ Only(due2, OrdinaryCalls) = Only(due, OrdinaryCalls)
    BY <1>2, <1>3, OnlyAdds
  <2>2. QED
    BY <2>1, OnlyType
<1>5. Joins(Only(due2, EarlyCalls), Only(h, EarlyCalls), Messages(u2))
  BY <1>1, <1>2, <1>4, JoinsAdds DEF Hears
<1>6. QED
  BY <1>4, <1>5 DEF Hears

\* OnChannelConnected counts for neither.
LEMMA HearsOther ==
  ASSUME NEW h \in Seq(Call), NEW p, NEW u, NEW due, Hears(h, p, u, due),
         NEW c \in Call, c \notin OrdinaryCalls, c \notin EarlyCalls, NEW h2, Adds(h2, h, c)
  PROVE  Hears(h2, p, u, due)
<1>1. Only(h2, OrdinaryCalls) = Only(h, OrdinaryCalls) /\ Only(h2, EarlyCalls) = Only(h, EarlyCalls)
  BY OnlyAdds
<1>2. QED
  BY <1>1 DEF Hears

\* A task runs.
LEMMA HearsTask ==
  ASSUME NEW h \in Seq(Call), NEW p \in Seq(Call), NEW u, NEW due, Hears(h, p, u, due),
         NEW c \in Call, NEW p2, Drops(p2, p), c = p[1]
  PROVE  /\ c \in OrdinaryCalls => \A h2 : Adds(h2, h, c) => Hears(h2, p2, u, due)
         /\ c \notin OrdinaryCalls => Hears(h, p2, u, due)
<1>1. /\ IF c \in OrdinaryCalls THEN Leads(Only(p, OrdinaryCalls), c, Only(p2, OrdinaryCalls))
                                ELSE Only(p, OrdinaryCalls) = Only(p2, OrdinaryCalls)
      /\ Only(p, OrdinaryCalls) \in Seq(Call) /\ Only(p2, OrdinaryCalls) \in Seq(Call)
  BY OnlyDrops
<1>2. ASSUME c \in OrdinaryCalls, NEW h2, Adds(h2, h, c) PROVE Hears(h2, p2, u, due)
  <2>1. c \notin EarlyCalls
    BY <1>2, Kinds
  <2>2. /\ Adds(Only(h2, OrdinaryCalls), Only(h, OrdinaryCalls), c)
        /\ Only(h2, EarlyCalls) = Only(h, EarlyCalls)
        /\ Only(h, OrdinaryCalls) \in Seq(Call)
    BY <1>2, <2>1, OnlyAdds
  <2>3. Joins(Only(due, OrdinaryCalls), Only(h2, OrdinaryCalls), Only(p2, OrdinaryCalls))
    BY <1>1, <1>2, <2>2, MoveOver DEF Hears
  <2>4. QED
    BY <2>2, <2>3 DEF Hears
<1>3. QED
  BY <1>1, <1>2 DEF Hears

\* A message that was kept is dispatched.
LEMMA HearsEarly ==
  ASSUME NEW h \in Seq(Call), NEW p, NEW u \in Seq(0..MaxReceived), NEW due,
         Hears(h, p, u, due), NEW c \in EarlyCalls, NEW u2, Drops(u2, u), c = Message(u[1]),
         NEW h2, Adds(h2, h, c)
  PROVE  Hears(h2, p, u2, due)
<1>1. /\ Leads(Messages(u), c, Messages(u2)) /\ u2 \in Seq(0..MaxReceived)
      /\ Messages(u) \in Seq(Call)
  BY MessagesIs
<1>2. Messages(u2) \in Seq(Call)
  BY <1>1, MessagesIs
<1>3. c \in Call /\ c \notin OrdinaryCalls
  BY Kinds DEF EarlyCalls
<1>4. /\ Adds(Only(h2, EarlyCalls), Only(h, EarlyCalls), c)
      /\ Only(h2, OrdinaryCalls) = Only(h, OrdinaryCalls)
      /\ Only(h, EarlyCalls) \in Seq(Call)
  BY <1>3, OnlyAdds
<1>5. Joins(Only(due, EarlyCalls), Only(h2, EarlyCalls), Messages(u2))
  BY <1>1, <1>2, <1>3, <1>4, MoveOver DEF Hears
<1>6. QED
  BY <1>4, <1>5 DEF Hears

(***************************************************************************)
(* What the listener ought to hear.                                        *)
(***************************************************************************)
CallOf(a)  == [op |-> a.op, n |-> a.n]
CallsOf(q) == [k \in DOMAIN q |-> CallOf(q[k])]
NotHandled == {a \in Event : a.by = NoFilter}

LEMMA CallsOfIs ==
  ASSUME NEW q \in Seq(Event)
  PROVE  /\ CallsOf(q) \in Seq(Call)
         /\ \A a \in Event : \A v :
              Adds(v, q, a) => Adds(CallsOf(v), CallsOf(q), CallOf(a)) /\ v \in Seq(Event)
<1>1. \A a \in Event : CallOf(a) \in Call
  BY ProxyAssumption DEF CallOf, Call, Event
<1>2. \A v \in Seq(Event) : CallsOf(v) \in Seq(Call) /\ Len(CallsOf(v)) = Len(v)
                        /\ \A k \in 1..Len(v) : CallsOf(v)[k] = CallOf(v[k])
  <2>1. SUFFICES ASSUME NEW v \in Seq(Event)
                 PROVE  CallsOf(v) \in Seq(Call) /\ Len(CallsOf(v)) = Len(v)
                        /\ \A k \in 1..Len(v) : CallsOf(v)[k] = CallOf(v[k])
    OBVIOUS
  <2>2. DOMAIN v = 1..Len(v) /\ Len(v) \in Nat /\ \A k \in 1..Len(v) : v[k] \in Event
    OBVIOUS
  <2>3. CallsOf(v) = [k \in 1..Len(v) |-> CallOf(v[k])]
    BY <2>2 DEF CallsOf
  <2>4. CallsOf(v) \in Seq(Call)
    BY <1>1, <2>2, <2>3
  <2>5. QED
    BY <2>2, <2>3, <2>4
<1>3. ASSUME NEW a \in Event, NEW v, Adds(v, q, a)
      PROVE  Adds(CallsOf(v), CallsOf(q), CallOf(a)) /\ v \in Seq(Event)
  <2>1. /\ v \in Seq(Event) /\ Len(v) = Len(q) + 1 /\ Len(q) \in Nat
        /\ \A i \in 1..(Len(q) + 1) : v[i] = IF i <= Len(q) THEN q[i] ELSE a
    BY <1>3, AddsIs
  <2> DEFINE m == CallOf(a)
             s == CallsOf(q)
             t == CallsOf(v)
             w == Append(s, m)
  <2>2. /\ s \in Seq(Call) /\ Len(s) = Len(q) /\ \A k \in 1..Len(q) : s[k] = CallOf(q[k])
        /\ t \in Seq(Call) /\ Len(t) = Len(v) /\ \A k \in 1..Len(v) : t[k] = CallOf(v[k])
        /\ m \in Call
    BY <1>1, <1>2, <2>1
  <2>3. Adds(w, s, m)
    BY DEF Adds
  <2> HIDE DEF s, t, w, m
  <2>4. /\ w \in Seq(Call) /\ Len(w) = Len(s) + 1
        /\ \A i \in 1..(Len(s) + 1) : w[i] = IF i <= Len(s) THEN s[i] ELSE m
    <3>1. s \in Seq(Call) /\ m \in Call /\ Adds(w, s, m)
      BY <2>2, <2>3
    <3>2. QED
      BY <3>1, AddsIs
  <2>5. ASSUME NEW i \in 1..Len(w) PROVE w[i] = t[i]
    <3>1. i \in 1..(Len(q) + 1) /\ t[i] = CallOf(v[i])
      BY <2>1, <2>2, <2>4
    <3>2. CASE i <= Len(q)
      BY <2>1, <2>2, <2>4, <3>1, <3>2
    <3>3. CASE ~(i <= Len(q))
      BY <2>1, <2>2, <2>4, <3>1, <3>3 DEF m
    <3>4. QED
      BY <3>2, <3>3
  <2>6. Len(w) = Len(t)
    BY <2>1, <2>2, <2>4
  <2>7. w = t
    BY <2>2, <2>4, <2>5, <2>6, SeqEqual
  <2>8. QED
    BY <2>1, <2>3, <2>7 DEF s, t, m
<1>4. QED
  BY <1>2, <1>3

LEMMA DueIs ==
  ASSUME TypeOK
  PROVE  /\ Due \in Seq(Call)
         /\ UNCHANGED arrived => Due' = Due
         /\ \A a \in Event : Adds(arrived', arrived, a) =>
              IF a.by = NoFilter THEN Adds(Due', Due, CallOf(a)) ELSE Due' = Due
<1>1. /\ Due = CallsOf(Only(arrived, NotHandled)) /\ Due' = CallsOf(Only(arrived', NotHandled))
      /\ arrived \in Seq(Event)
  BY DEF Due, Unhandled, NotHandled, CallsOf, CallOf, TypeOK
<1>2. Only(arrived, NotHandled) \in Seq(Event)
  BY <1>1, OnlyType
<1>3. ASSUME NEW a \in Event, Adds(arrived', arrived, a)
      PROVE  IF a.by = NoFilter THEN Adds(Due', Due, CallOf(a)) ELSE Due' = Due
  <2>1. a \in NotHandled <=> a.by = NoFilter
    BY DEF NotHandled
  <2>2. IF a \in NotHandled
        THEN Adds(Only(arrived', NotHandled), Only(arrived, NotHandled), a)
        ELSE Only(arrived', NotHandled) = Only(arrived, NotHandled)
    BY <1>1, <1>3, OnlyAdds
  <2>3. QED
    BY <1>1, <1>2, <2>1, <2>2, CallsOfIs
<1>4. QED
  BY <1>1, <1>2, <1>3, CallsOfIs

LEMMA DeliveredNext ==
  DeliveredOnceInOrder' <=> (proxy'.listener => Hears(heard', posted', urgent', Due'))
<1>1. DeliveredOnceInOrder' <=> (proxy.listener => Hears(heard, posted, urgent, Due))'
  BY DeliveredIs, PTL
<1>2. QED
  BY <1>1

\* The listener is told of an error that arrives.
LEMMA ErrorDelivered ==
  ASSUME TypeOK, DeliveredOnceInOrder, OnChannelError(ctx), UNCHANGED <<proxy, urgent, heard>>
  PROVE  DeliveredOnceInOrder'
<1> DEFINE a == [op |-> "error", n |-> 0, by |-> NoFilter]
<1>1. a \in Event /\ a.by = NoFilter
  BY ProxyAssumption DEF Event
<1>2. CallOf(a) = Says("error")
  BY DEF CallOf, Says
<1>3. Adds(posted', posted, Says("error")) /\ Adds(arrived', arrived, a)
  BY ErrorTypes
<1> HIDE DEF a
<1>4. Adds(Due', Due, Says("error")) /\ Due \in Seq(Call)
  BY <1>1, <1>2, <1>3, DueIs
<1>5. Says("error") \in OrdinaryCalls /\ Says("error") \in Call
  BY TheCalls, Kinds
<1>6. proxy.listener => Hears(heard, posted, urgent, Due)
  BY DeliveredIs
<1>7. proxy.listener => Hears(heard, posted', urgent, Due')
  BY <1>3, <1>4, <1>5, <1>6, HearsPosted DEF TypeOK
<1>8. QED
  BY <1>7, DeliveredNext

LEMMA ReceivedDelivered ==
  ASSUME TypeOK, DeliveredOnceInOrder, NEW k \in 0..Len(ctx.filters), OnMessageReceived(k)
  PROVE  DeliveredOnceInOrder'
<1>1. PICK n \in 1..MaxReceived, by \in Filter \cup {NoFilter} :
        /\ [op |-> "message", n |-> n, by |-> by] \in Event
        /\ Adds(arrived', arrived, [op |-> "message", n |-> n, by |-> by])
        /\ Message(n) \in Call
        /\ IF by # NoFilter THEN UNCHANGED <<posted, urgent>>
           ELSE IF n \in Urgent THEN Adds(urgent', urgent, n) /\ UNCHANGED posted
           ELSE Adds(posted', posted, Message(n)) /\ UNCHANGED urgent
  BY ReceivedSteps
<1>2. UNCHANGED <<proxy, heard>>
  BY ReceivedSteps
<1> DEFINE a == [op |-> "message", n |-> n, by |-> by]
<1>3. a \in Event /\ Adds(arrived', arrived, a) /\ a.by = by
  BY <1>1
<1>4. CallOf(a) = Message(n)
  BY DEF CallOf, Message
<1> HIDE DEF a
<1>5. IF by = NoFilter THEN Adds(Due', Due, Message(n)) ELSE Due' = Due
  BY <1>3, <1>4, DueIs
<1>6. /\ Due \in Seq(Call) /\ heard \in Seq(Call) /\ posted \in Seq(Call)
      /\ urgent \in Seq(0..MaxReceived) /\ n \in 0..MaxReceived
  BY DueIs, ProxyAssumption DEF TypeOK
<1>7. /\ n \in Urgent => Message(n) \in EarlyCalls
      /\ n \notin Urgent => Message(n) \in OrdinaryCalls
  BY <1>1, TheCalls, Kinds
<1>8. ASSUME proxy.listener PROVE Hears(heard, posted', urgent', Due')
  <2>1. Hears(heard, posted, urgent, Due)
    BY <1>8, DeliveredIs
  <2>2. CASE by # NoFilter
    BY <1>1, <1>5, <2>1, <2>2
  <2>3. CASE by = NoFilter /\ n \in Urgent
    BY <1>1, <1>5, <1>6, <1>7, <2>1, <2>3, HearsUrgent
  <2>4. CASE by = NoFilter /\ n \notin Urgent
    BY <1>1, <1>5, <1>6, <1>7, <2>1, <2>4, HearsPosted
  <2>5. QED
    BY <2>2, <2>3, <2>4
<1>9. QED
  BY <1>2, <1>8, DeliveredNext

LEMMA ListenerDelivered ==
  ASSUME TypeOK, Connecting, DeliveredOnceInOrder, ListenerThread
  PROVE  DeliveredOnceInOrder'
<1>1. UNCHANGED arrived /\ proxy'.listener = proxy.listener
  BY ListenerHandles DEF TypeOK
<1>2. PICK c \in Call :
        /\ Handles(c)
        /\ c = IF c.op = "error" THEN Says("error")
               ELSE IF c.op = "message" THEN Message(c.n) ELSE c
        /\ \/ /\ Drops(posted', posted) /\ c = posted[1] /\ UNCHANGED urgent
              /\ c.op = "message" => c.n \notin Urgent
           \/ /\ Drops(urgent', urgent) /\ c = Message(urgent[1]) /\ UNCHANGED posted
              /\ c.op = "message" /\ c.n \in Urgent
  BY ListenerHandles
<1>3. SUFFICES ASSUME proxy.listener PROVE Hears(heard', posted', urgent', Due)
  BY <1>1, DueIs, DeliveredNext
<1>4. Hears(heard, posted, urgent, Due)
  BY <1>3, DeliveredIs
<1>5. /\ heard \in Seq(Call) /\ posted \in Seq(Call) /\ urgent \in Seq(0..MaxReceived)
      /\ ConnectedCall \in Call /\ ConnectedCall \notin OrdinaryCalls
      /\ ConnectedCall \notin EarlyCalls
  BY TheCalls, Kinds DEF TypeOK
\* h is what was heard, OnChannelConnected included, before c.
<1>6. ASSUME NEW h \in Seq(Call), Hears(h, posted, urgent, Due), Adds(heard', h, c),
             c.op \in {"message", "error"}
      PROVE  Hears(heard', posted', urgent', Due)
  <2>1. CASE Drops(posted', posted) /\ c = posted[1] /\ UNCHANGED urgent
             /\ (c.op = "message" => c.n \notin Urgent)
    <3>1. c \in OrdinaryCalls
      BY <1>6, <2>1, Kinds
    <3>2. QED
      BY <1>5, <1>6, <2>1, <3>1, HearsTask
  <2>2. CASE Drops(urgent', urgent) /\ c = Message(urgent[1]) /\ UNCHANGED posted
             /\ c.op = "message" /\ c.n \in Urgent
    <3>1. c \in EarlyCalls
      BY <2>2, Kinds
    <3>2. QED
      BY <1>5, <1>6, <2>2, <3>1, HearsEarly
  <2>3. QED
    BY <1>2, <2>1, <2>2
<1>7. CASE c.op = "connected" /\ OnDispatchConnected
  <2>1. c \notin OrdinaryCalls /\ Drops(posted', posted) /\ c = posted[1] /\ UNCHANGED urgent
    BY <1>2, <1>7, Kinds
  <2>2. Hears(heard, posted', urgent', Due)
    BY <1>4, <1>5, <2>1, HearsTask
  <2>3. heard' = heard \/ Adds(heard', heard, ConnectedCall)
    BY <1>7 DEF OnDispatchConnected, Adds
  <2>4. QED
    BY <1>5, <2>2, <2>3, HearsOther
<1>8. CASE c.op = "message" /\ OnDispatchMessage(c.n)
  <2>1. c = Message(c.n)
    BY <1>2, <1>8
  <2>2. CASE proxy.told
    <3>1. Adds(heard', heard, c)
      BY <1>3, <1>8, <2>1, <2>2, MessageHeard
    <3>2. QED
      BY <1>4, <1>5, <1>6, <1>8, <3>1
  <2>3. CASE ~proxy.told
    <3>1. PICK h \in Seq(Call) : Adds(h, heard, ConnectedCall) /\ Adds(heard', h, c)
      BY <1>3, <1>8, <2>1, <2>3, MessageHeard
    <3>2. Hears(h, posted, urgent, Due)
      BY <1>4, <1>5, <3>1, HearsOther
    <3>3. QED
      BY <1>6, <1>8, <3>1, <3>2
  <2>4. QED
    BY <2>2, <2>3
<1>9. CASE c.op = "error" /\ OnDispatchError
  <2>1. Adds(heard', heard, c)
    BY <1>2, <1>3, <1>9 DEF OnDispatchError, Adds
  <2>2. QED
    BY <1>4, <1>5, <1>6, <1>9, <2>1
<1>10. QED
  BY <1>2, <1>7, <1>8, <1>9 DEF Handles

LEMMA NextDelivered ==
  ASSUME TypeOK, Connecting, DeliveredOnceInOrder, Next
  PROVE  DeliveredOnceInOrder'
<1>1. ASSUME UNCHANGED <<posted, urgent, arrived, heard>>, proxy'.listener => proxy.listener
      PROVE  DeliveredOnceInOrder'
  <2>1. Due' = Due
    BY <1>1, DueIs
  <2>2. QED
    BY <1>1, <2>1, DeliveredIs, DeliveredNext
<1>2. CASE Owner
  <2>1. UNCHANGED <<posted, urgent, arrived, heard>>
    BY <1>2 DEF Owner, InitProxy, AddFilter, RemoveFilter, Send, Close, ClearIPCTaskRunner
  <2>2. proxy'.listener => proxy.listener
    BY <1>2 DEF Owner, InitProxy, AddFilter, RemoveFilter, Send, Close, ClearIPCTaskRunner, TypeOK
  <2>3. QED
    BY <1>1, <2>1, <2>2
<1>3. CASE OnChannelConnected
  <2>1. Adds(posted', posted, Says("connected")) /\ UNCHANGED <<proxy, urgent, arrived, heard>>
    BY <1>3 DEF OnChannelConnected, Adds
  <2>2. Says("connected") \in Call /\ Says("connected") \notin OrdinaryCalls
    BY TheCalls, Kinds
  <2>3. Due \in Seq(Call) /\ Due' = Due /\ heard \in Seq(Call) /\ posted \in Seq(Call)
    BY <2>1, DueIs DEF TypeOK
  <2>4. proxy.listener => Hears(heard, posted', urgent, Due)
    BY <2>1, <2>2, <2>3, DeliveredIs, HearsPosted
  <2>5. QED
    BY <2>1, <2>3, <2>4, DeliveredNext
<1>4. CASE ChannelLost
  BY <1>4, ErrorDelivered DEF ChannelLost
<1>5. CASE \E k \in 0..Len(ctx.filters) : OnMessageReceived(k)
  BY <1>5, ReceivedDelivered
<1>6. CASE IpcTask
  <2>1. /\ UNCHANGED <<proxy, urgent, heard>>
        /\ OnChannelError(ctx) \/ UNCHANGED <<posted, arrived>>
    BY <1>6 DEF IpcTask, CreateChannel, OnChannelClosed, OnAddFilter, RemoveTask,
                OnChannelOpened, OnSendMessage
  <2>2. QED
    BY <1>1, <2>1, ErrorDelivered
<1>7. CASE ListenerThread
  BY <1>7, ListenerDelivered
<1>8. QED
  BY <1>2, <1>3, <1>4, <1>5, <1>6, <1>7 DEF Next, ChannelEvent

(***************************************************************************)
(* The filters there are, and those that are pending.                      *)
(***************************************************************************)
Present == ToSet(ctx.filters)
Pending == ToSet(ctx.pending)

Kept(fs, ps, n) ==
  /\ fs \in Seq(Filter) /\ ps \in Seq(Filter)
  /\ Sorted(fs) /\ Sorted(ps)
  /\ \A j \in DOMAIN fs, k \in DOMAIN ps : fs[j] < ps[k]
  /\ \A f \in ToSet(fs) \cup ToSet(ps) : f <= n

LEMMA FiltersAre ==
  ASSUME TypeOK
  PROVE  Filters <=> Kept(ctx.filters, ctx.pending, proxy.added)
  BY DEF TypeOK, Filters, Kept

LEMMA FiltersNext ==
  Kept(ctx'.filters, ctx'.pending, proxy'.added) => Filters'
  BY DEF Filters, Kept, Sorted

LEMMA KeptApart ==
  ASSUME NEW fs, NEW ps, NEW n \in Nat, Kept(fs, ps, n)
  PROVE  /\ ToSet(fs) \cap ToSet(ps) = {}
         /\ ToSet(fs) \cup ToSet(ps) \subseteq 1..n
         /\ ToSet(fs) \cup ToSet(ps) \subseteq Filter
<1>1. ToSet(fs) \cup ToSet(ps) \subseteq Filter
  BY DEF Kept, ToSet
<1>2. \A f \in Filter : f \in Nat /\ f >= 1
  BY ProxyAssumption DEF Filter
<1>3. ToSet(fs) \cap ToSet(ps) = {}
  <2>1. \A f \in ToSet(fs) \cap ToSet(ps) : f < f
    BY DEF Kept, ToSet
  <2>2. QED
    BY <1>1, <1>2, <2>1
<1>4. QED
  BY <1>1, <1>2, <1>3 DEF Kept

Empty(q) == q = <<>>

LEMMA EmptyIs ==
  ASSUME NEW z, Empty(z)
  PROVE  z \in Seq(Filter) /\ ToSet(z) = {} /\ DOMAIN z = {} /\ Sorted(z)
<1>1. z \in Seq(Filter)
  BY DEF Empty
<1>2. DOMAIN z = {}
  BY DEF Empty
<1>3. QED
  BY <1>1, <1>2 DEF ToSet, Sorted

LEMMA KeptAdds ==
  ASSUME NEW fs, NEW ps, NEW n \in Nat, Kept(fs, ps, n), n + 1 \in Filter,
         NEW p2, Adds(p2, ps, n + 1)
  PROVE  Kept(fs, p2, n + 1) /\ ToSet(p2) = ToSet(ps) \cup {n + 1}
<1> DEFINE f == n + 1
<1>1. f \in Filter /\ Adds(p2, ps, f) /\ ps \in Seq(Filter)
  BY DEF Kept
<1>2. /\ \A x \in ToSet(fs) \cup ToSet(ps) : x \in Nat /\ x < f
      /\ \A x \in ToSet(fs) \cup ToSet(ps) : x <= f
  BY KeptApart
<1> HIDE DEF f
<1>3. /\ p2 \in Seq(Filter) /\ Len(p2) = Len(ps) + 1 /\ Len(ps) \in Nat
      /\ DOMAIN ps = 1..Len(ps) /\ DOMAIN p2 = 1..(Len(ps) + 1)
      /\ \A k \in DOMAIN ps : p2[k] = ps[k]
      /\ p2[Len(ps) + 1] = f
  BY <1>1, AtAdds
<1>4. ToSet(p2) = ToSet(ps) \cup {f}
  <2>1. ToSet(p2) \subseteq ToSet(ps) \cup {f}
    BY <1>3 DEF ToSet
  <2>2. ToSet(ps) \subseteq ToSet(p2)
    BY <1>3 DEF ToSet
  <2>3. Len(ps) + 1 \in DOMAIN p2
    BY <1>3
  <2>4. f \in ToSet(p2)
    BY <1>3, <2>3 DEF ToSet
  <2>5. QED
    BY <2>1, <2>2, <2>4
<1>5. Sorted(p2)
  <2>1. SUFFICES ASSUME NEW j \in DOMAIN p2, NEW k \in DOMAIN p2, j < k PROVE p2[j] < p2[k]
    BY DEF Sorted
  <2>2. j \in DOMAIN ps /\ p2[j] = ps[j]
    BY <1>3, <2>1
  <2>3. CASE k \in DOMAIN ps
    BY <1>3, <2>1, <2>2, <2>3 DEF Kept, Sorted
  <2>4. CASE k = Len(ps) + 1
    BY <1>2, <1>3, <2>2, <2>4 DEF ToSet
  <2>5. QED
    BY <1>3, <2>3, <2>4
<1>6. \A j \in DOMAIN fs, k \in DOMAIN p2 : fs[j] < p2[k]
  <2>1. SUFFICES ASSUME NEW j \in DOMAIN fs, NEW k \in DOMAIN p2 PROVE fs[j] < p2[k]
    OBVIOUS
  <2>2. CASE k \in DOMAIN ps
    BY <1>3, <2>2 DEF Kept
  <2>3. CASE k = Len(ps) + 1
    BY <1>2, <1>3, <2>3 DEF ToSet
  <2>4. QED
    BY <1>3, <2>2, <2>3
<1>7. f \in Nat
  BY ProxyAssumption, <1>1 DEF Filter
<1>8. Kept(fs, p2, f)
  <2>1. \A x \in ToSet(fs) \cup ToSet(p2) : x <= f
    BY <1>2, <1>4, <1>7
  <2>2. QED
    BY <1>3, <1>5, <1>6, <2>1 DEF Kept
<1>9. QED
  BY <1>4, <1>8 DEF f

LEMMA KeptAdopts ==
  ASSUME NEW fs, NEW ps, NEW n \in Nat, Kept(fs, ps, n), NEW z, Empty(z)
  PROVE  Kept(fs \o ps, z, n) /\ ToSet(fs \o ps) = ToSet(fs) \cup ToSet(ps)
<1> DEFINE r == fs \o ps
<1>1. r \in Seq(Filter) /\ Sorted(r) /\ ToSet(r) = ToSet(fs) \cup ToSet(ps)
  BY AdoptKeeps DEF Kept
<1> HIDE DEF r
<1>2. z \in Seq(Filter) /\ ToSet(z) = {} /\ DOMAIN z = {} /\ Sorted(z)
  BY EmptyIs
<1>3. Kept(r, z, n)
  BY <1>1, <1>2 DEF Kept
<1>4. QED
  BY <1>1, <1>3 DEF r

LEMMA KeptRemoves ==
  ASSUME NEW fs, NEW ps, NEW n \in Nat, Kept(fs, ps, n), NEW e \in ToSet(fs)
  PROVE  Kept(RemoveFirst(fs, e), ps, n) /\ ToSet(RemoveFirst(fs, e)) = ToSet(fs) \ {e}
<1> DEFINE r == RemoveFirst(fs, e)
<1>1. r \in Seq(Filter) /\ Sorted(r) /\ ToSet(r) = ToSet(fs) \ {e}
  BY RemoveFirstKeeps DEF Kept
<1> HIDE DEF r
<1>2. \A j \in DOMAIN r : \E i \in DOMAIN fs : fs[i] = r[j]
  BY <1>1 DEF ToSet
<1>3. Kept(r, ps, n)
  BY <1>1, <1>2 DEF Kept
<1>4. QED
  BY <1>1, <1>3 DEF r

LEMMA KeptNone ==
  ASSUME NEW fs, NEW ps, NEW n \in Nat, Kept(fs, ps, n), NEW z, Empty(z)
  PROVE  Kept(z, ps, n) /\ ToSet(z) = {}
<1>1. z \in Seq(Filter) /\ ToSet(z) = {} /\ DOMAIN z = {} /\ Sorted(z)
  BY EmptyIs
<1>2. QED
  BY <1>1 DEF Kept

(***************************************************************************)
(* The steps, as far as the filters can tell.                              *)
(***************************************************************************)
SameFilters ==
  /\ ctx'.filters = ctx.filters /\ ctx'.pending = ctx.pending /\ ctx'.pid = ctx.pid
  /\ proxy'.added = proxy.added /\ proxy'.early = proxy.early
  /\ proxy.removing \subseteq proxy'.removing
  /\ ctx'.channel = "connected" => ctx.channel = "connected"
  /\ ctx'.channel = "destroyed" <=> ctx.channel = "destroyed"

NoMessage == \/ UNCHANGED arrived
             \/ \E a \in Event : Adds(arrived', arrived, a) /\ a.op # "message"

\* Each filter that is there gets the call c, or none does.
Quiet  == SameFilters /\ UNCHANGED told /\ NoMessage
All(c) == /\ SameFilters /\ ctx.channel # "destroyed" /\ NoMessage
          /\ told' = Tell(told, ctx.filters, c)

Closed ==
  /\ ctx'.filters = <<>> /\ ctx'.pending = ctx.pending /\ ctx'.pid = ctx.pid
  /\ ctx'.channel = "destroyed"
  /\ UNCHANGED <<proxy, arrived>>
  /\ told' = Tell(Tell(told, ctx.filters, Says("closing")), ctx.filters, Says("removed"))

Removed(f) ==
  /\ f \in ToSet(ctx.filters) /\ f \in proxy.removing
  /\ ctx'.filters = RemoveFirst(ctx.filters, f) /\ ctx'.pending = ctx.pending
  /\ ctx'.pid = ctx.pid /\ ctx'.channel = ctx.channel
  /\ UNCHANGED <<proxy, arrived>>
  /\ told' = [told EXCEPT ![f] = Append(@, Says("removed"))]

\* The filter to be removed was added before.
LEMMA RemoveFinds ==
  ASSUME TypeOK, Removing, RemoveTask
  PROVE  /\ tasks[1] = Head(tasks) /\ tasks[1].f \in Filter
         /\ tasks[1].f \in ToSet(ctx.filters) /\ tasks[1].f \in proxy.removing
<1>1. tasks \in Seq(Task) /\ Drops(tasks', tasks) /\ tasks[1].op = "remove"
  BY TaskRun DEF TypeOK, RemoveTask
<1>2. 1 \in At(tasks, "remove") /\ tasks[1] = Head(tasks)
  BY <1>1, AtDrops
<1>3. \A j \in At(tasks, "add") : j \in Nat /\ j # 0
  BY <1>1, AtIn
<1>4. ~(\E j \in At(tasks, "add") : j < 1)
  BY <1>3
<1>5. tasks[1].f \in ToSet(ctx.filters) /\ tasks[1].f \in proxy.removing
  BY <1>2, <1>4 DEF Removing
<1>6. QED
  BY <1>2, <1>5 DEF TypeOK

LEMMA ErrorAll ==
  ASSUME TypeOK, OnChannelError(ctx)
  PROVE  told' = Tell(told, ctx.filters, Says("error")) /\ NoMessage
<1> DEFINE a == [op |-> "error", n |-> 0, by |-> NoFilter]
<1>1. a \in Event /\ a.op # "message"
  BY ProxyAssumption DEF Event
<1>2. Adds(arrived', arrived, a)
  BY ErrorTypes
<1> HIDE DEF a
<1>3. QED
  BY <1>1, <1>2 DEF OnChannelError, NoMessage

LEMMA FilterSteps ==
  ASSUME TypeOK, Opening, Connecting, Removing, Next
  PROVE  \/ Quiet \/ All(Says("error")) \/ All(Says("added"))
         \/ \E f \in Filter : AddFilter(f)
         \/ OnChannelConnected \/ OnAddFilter \/ Closed
         \/ \E k \in 0..Len(ctx.filters) : OnMessageReceived(k)
         \/ \E f \in Filter : Removed(f)
<1>0. CtxType /\ ProxyType
  BY TypeParts
<1>1. CASE Owner
  <2>1. UNCHANGED <<told, arrived>>
    BY <1>1 DEF Owner, InitProxy, AddFilter, RemoveFilter, Send, Close, ClearIPCTaskRunner
  <2>2. ASSUME NEW now \in CreateNow, InitProxy(now) PROVE SameFilters
    BY <1>0, <2>2 DEF InitProxy, SameFilters, Opening, CtxType, ProxyType
  <2>3. ASSUME NEW f \in Filter, RemoveFilter(f) PROVE SameFilters
    BY <1>0, <2>3 DEF RemoveFilter, SameFilters, CtxType, ProxyType
  <2>4. CASE Send \/ Close \/ ClearIPCTaskRunner
    <3>1. SameFilters
      BY <1>0, <2>4 DEF Send, Close, ClearIPCTaskRunner, SameFilters, CtxType, ProxyType
    <3>2. QED
      BY <2>1, <3>1 DEF Quiet, NoMessage
  <2>5. QED
    BY <1>1, <2>1, <2>2, <2>3, <2>4 DEF Owner, Quiet, NoMessage
<1>2. CASE ChannelLost
  <2>1. SameFilters /\ ctx.channel # "destroyed" /\ OnChannelError(ctx)
    BY <1>0, <1>2 DEF ChannelLost, SameFilters, CtxType, ProxyType
  <2>2. QED
    BY <2>1, ErrorAll DEF All
<1>3. CASE CreateChannel
  <2>1. ctx.channel = "none"
    BY <1>3, CreateOpening
  <2>2. SameFilters /\ UNCHANGED <<told, arrived>>
    BY <1>0, <1>3, <2>1 DEF CreateChannel, SameFilters, CtxType, ProxyType
  <2>3. QED
    BY <2>2 DEF Quiet, NoMessage
<1>4. CASE OnChannelClosed
  <2>1. CASE HasChannel(ctx)
    <3>1. Closed
      BY <1>0, <1>4, <2>1 DEF OnChannelClosed, Closed, CtxType
    <3>2. QED
      BY <3>1
  <2>2. CASE ~HasChannel(ctx)
    <3>1. SameFilters /\ UNCHANGED <<told, arrived>>
      BY <1>0, <1>4, <2>2 DEF OnChannelClosed, SameFilters
    <3>2. QED
      BY <3>1 DEF Quiet, NoMessage
  <2>3. QED
    BY <2>1, <2>2
<1>5. CASE RemoveTask
  <2> DEFINE f == tasks[1].f
  <2>1. /\ OnRemoveFilter(f) /\ f \in Filter /\ f \in ToSet(ctx.filters) /\ f \in proxy.removing
        /\ UNCHANGED <<proxy, arrived>>
    BY <1>5, RemoveFinds DEF RemoveTask
  <2> HIDE DEF f
  <2>2. Removed(f)
    BY <1>0, <2>1 DEF OnRemoveFilter, Removed, CtxType
  <2>3. QED
    BY <2>1, <2>2
<1>6. ASSUME NEW ok \in BOOLEAN, OnChannelOpened(ok)
      PROVE  All(Says("error")) \/ All(Says("added"))
  <2>1. ctx.channel = "created"
    BY <1>6, OpenedOpening
  <2>2. SameFilters
    BY <1>0, <1>6, <2>1 DEF OnChannelOpened, SameFilters, CtxType, ProxyType
  <2>3. CASE ok
    BY <1>6, <2>1, <2>2, <2>3 DEF OnChannelOpened, All, NoMessage
  <2>4. CASE ~ok
    BY <1>6, <2>1, <2>2, <2>4, ErrorAll DEF OnChannelOpened, All
  <2>5. QED
    BY <2>3, <2>4
<1>7. ASSUME NEW ok \in BOOLEAN, OnSendMessage(ok)
      PROVE  Quiet \/ All(Says("error"))
  <2>1. SameFilters
    BY <1>7 DEF OnSendMessage, SameFilters
  <2>2. CASE ~HasChannel(ctx) \/ ok
    BY <1>7, <2>1, <2>2 DEF OnSendMessage, Quiet, NoMessage
  <2>3. CASE HasChannel(ctx) /\ ~ok
    BY <1>7, <2>1, <2>3, ErrorAll DEF OnSendMessage, All, HasChannel
  <2>4. QED
    BY <2>2, <2>3
<1>8. CASE ListenerThread
  <2>1. UNCHANGED <<ctx, told, arrived>> /\ SameFilters
    BY <1>0, <1>8, ListenerHandles DEF SameFilters, ProxyType
  <2>2. QED
    BY <2>1 DEF Quiet, NoMessage
<1>9. QED
  BY <1>1, <1>2, <1>3, <1>4, <1>5, <1>6, <1>7, <1>8 DEF Next, ChannelEvent, IpcTask

\* What becomes of the filters in such a step.
LEMMA StepFilters ==
  ASSUME TypeOK, Filters
  PROVE  /\ SameFilters => Filters' /\ Present' = Present /\ Pending' = Pending
         /\ \A f \in Filter : AddFilter(f) =>
              /\ Filters' /\ Present' = Present /\ Pending' = Pending \cup {f}
              /\ f = proxy.added + 1 /\ proxy'.added = f /\ UNCHANGED <<told, arrived>>
              /\ proxy'.early = (IF ctx.pid THEN proxy.early ELSE proxy.early \cup {f})
              /\ proxy'.removing = proxy.removing
              /\ ctx'.pid = ctx.pid /\ ctx'.channel = ctx.channel
         /\ OnChannelConnected \/ OnAddFilter =>
              /\ Filters' /\ Present' = Present \cup Pending /\ Pending' = {}
              /\ UNCHANGED <<proxy, arrived>>
         /\ Closed => Filters' /\ Present' = {} /\ Pending' = Pending
         /\ \A f \in Filter : Removed(f) =>
              Filters' /\ Present' = Present \ {f} /\ Pending' = Pending
<1>0. CtxType /\ ProxyType
  BY TypeParts
<1>1. /\ Kept(ctx.filters, ctx.pending, proxy.added) /\ proxy.added \in Nat
  BY <1>0, FiltersAre, ProxyAssumption DEF ProxyType
<1>2. Present' = ToSet(ctx'.filters) /\ Pending' = ToSet(ctx'.pending)
  BY DEF Present, Pending, ToSet
<1>3. SameFilters => Filters' /\ Present' = Present /\ Pending' = Pending
  BY <1>1, <1>2, FiltersNext DEF SameFilters, Present, Pending
<1>4. ASSUME NEW f \in Filter, AddFilter(f)
      PROVE  /\ Filters' /\ Present' = Present /\ Pending' = Pending \cup {f}
             /\ f = proxy.added + 1 /\ proxy'.added = f /\ UNCHANGED <<told, arrived>>
             /\ proxy'.early = (IF ctx.pid THEN proxy.early ELSE proxy.early \cup {f})
             /\ proxy'.removing = proxy.removing
             /\ ctx'.pid = ctx.pid /\ ctx'.channel = ctx.channel
  <2>1. /\ ctx' = [ctx EXCEPT !.pending = Append(ctx.pending, f)]
        /\ f = proxy.added + 1 /\ UNCHANGED <<told, arrived>>
        /\ proxy' = [proxy EXCEPT !.added = f,
                                  !.early = IF ctx.pid THEN proxy.early ELSE proxy.early \cup {f}]
    BY <1>4 DEF AddFilter
  <2>2. /\ ctx'.filters = ctx.filters /\ Adds(ctx'.pending, ctx.pending, f)
        /\ ctx'.pid = ctx.pid /\ ctx'.channel = ctx.channel
    BY <1>0, <2>1 DEF CtxType, Adds
  <2>3. /\ proxy'.added = f /\ proxy'.removing = proxy.removing
        /\ proxy'.early = (IF ctx.pid THEN proxy.early ELSE proxy.early \cup {f})
    BY <1>0, <2>1 DEF ProxyType
  <2>4. /\ Kept(ctx.filters, ctx'.pending, f)
        /\ ToSet(ctx'.pending) = ToSet(ctx.pending) \cup {f}
    BY <1>1, <2>1, <2>2, KeptAdds
  <2>5. Filters'
    BY <2>2, <2>3, <2>4, FiltersNext
  <2>6. QED
    BY <1>2, <2>1, <2>2, <2>3, <2>4, <2>5 DEF Present, Pending
<1>5. ASSUME OnChannelConnected \/ OnAddFilter
      PROVE  /\ Filters' /\ Present' = Present \cup Pending /\ Pending' = {}
             /\ UNCHANGED <<proxy, arrived>>
  <2>1. /\ ctx'.filters = ctx.filters \o ctx.pending /\ ctx'.pending = <<>>
        /\ UNCHANGED <<proxy, arrived>>
    <3>1. CASE OnChannelConnected
      <4>1. ctx' = [Adopt(ctx) EXCEPT !.channel = "connected", !.pid = TRUE]
        BY <3>1 DEF OnChannelConnected
      <4>2. ctx'.filters = Adopt(ctx).filters /\ ctx'.pending = Adopt(ctx).pending
        BY <1>0, <4>1, AdoptIs
      <4>3. QED
        BY <1>0, <3>1, <4>2, AdoptIs DEF OnChannelConnected
    <3>2. CASE OnAddFilter
      BY <1>0, <3>2, AdoptIs DEF OnAddFilter
    <3>3. QED
      BY <1>5, <3>1, <3>2
  <2>2. Empty(ctx'.pending)
    BY <2>1 DEF Empty
  <2>3. /\ Kept(ctx'.filters, ctx'.pending, proxy.added)
        /\ ToSet(ctx'.filters) = ToSet(ctx.filters) \cup ToSet(ctx.pending)
        /\ ToSet(ctx'.pending) = {}
    BY <1>1, <2>1, <2>2, KeptAdopts, EmptyIs
  <2>4. Filters'
    BY <2>1, <2>3, FiltersNext
  <2>5. QED
    BY <1>2, <2>1, <2>3, <2>4 DEF Present, Pending
<1>6. ASSUME Closed PROVE Filters' /\ Present' = {} /\ Pending' = Pending
  <2>1. Empty(ctx'.filters) /\ ctx'.pending = ctx.pending /\ UNCHANGED proxy
    BY <1>6 DEF Closed, Empty
  <2>2. Kept(ctx'.filters, ctx.pending, proxy.added) /\ ToSet(ctx'.filters) = {}
    BY <1>1, <2>1, KeptNone
  <2>3. QED
    BY <1>2, <2>1, <2>2, FiltersNext DEF Pending
<1>7. ASSUME NEW f \in Filter, Removed(f)
      PROVE  Filters' /\ Present' = Present \ {f} /\ Pending' = Pending
  <2>1. /\ ctx'.filters = RemoveFirst(ctx.filters, f) /\ ctx'.pending = ctx.pending
        /\ UNCHANGED proxy /\ f \in ToSet(ctx.filters)
    BY <1>7 DEF Removed
  <2>2. Kept(ctx'.filters, ctx.pending, proxy.added) /\ ToSet(ctx'.filters) = ToSet(ctx.filters) \ {f}
    BY <1>1, <2>1, KeptRemoves
  <2>3. QED
    BY <1>2, <2>1, <2>2, FiltersNext DEF Present, Pending
<1>8. QED
  BY <1>3, <1>4, <1>5, <1>6, <1>7

LEMMA NextFilters ==
  ASSUME TypeOK, Opening, Connecting, Filters, Removing, Next
  PROVE  Filters'
<1>1. ASSUME NEW k \in 0..Len(ctx.filters), OnMessageReceived(k) PROVE Filters'
  <2>1. UNCHANGED <<proxy, ctx>>
    BY <1>1, ReceivedSteps
  <2>2. QED
    BY <2>1 DEF Filters, Sorted
<1>2. QED
  BY <1>1, FilterSteps, StepFilters DEF Quiet, All

(***************************************************************************)
(* What a filter is told.                                                  *)
(***************************************************************************)
Has(q, op) == At(q, op) # {}

\* Nothing after OnFilterRemoved, one OnChannelConnected, and messages after it.
WellTold(q) ==
  /\ \A k \in At(q, "removed") : k = Len(q)
  /\ \A j, k \in At(q, "connected") : j = k
  /\ \A k \in At(q, "message") : \E j \in At(q, "connected") : j < k

LEMMA WellToldGrows ==
  ASSUME NEW q \in Seq(Call), NEW c \in Call, NEW r, Adds(r, q, c), WellTold(q),
         ~Has(q, "removed"), c.op = "connected" => ~Has(q, "connected"),
         c.op = "message" => Has(q, "connected")
  PROVE  /\ WellTold(r) /\ r \in Seq(Call)
         /\ \A op : Has(r, op) <=> Has(q, op) \/ c.op = op
<1>1. /\ r \in Seq(Call) /\ Len(r) = Len(q) + 1 /\ Len(q) \in Nat
      /\ \A op : At(r, op) = At(q, op) \cup (IF c.op = op THEN {Len(q) + 1} ELSE {})
  BY AtAdds
<1>2. \A op : \A k \in At(q, op) : k \in Nat /\ k <= Len(q)
  BY AtIn
<1>3. \A k \in At(r, "removed") : k = Len(r)
  BY <1>1 DEF Has
<1>4. \A j, k \in At(r, "connected") : j = k
  BY <1>1 DEF WellTold, Has
<1>5. \A k \in At(r, "message") : \E j \in At(r, "connected") : j < k
  BY <1>1, <1>2 DEF WellTold, Has
<1>6. \A op : Has(r, op) <=> Has(q, op) \/ c.op = op
  BY <1>1 DEF Has
<1>7. QED
  BY <1>1, <1>3, <1>4, <1>5, <1>6 DEF WellTold

\* Log(f) for the log q: whether f is present or new, and what the channel is.
LogIs(q, present, new, pid, gone) ==
  /\ new => q = <<>>
  /\ Has(q, "removed") => ~present
  /\ Has(q, "connected") => pid
  /\ present /\ pid => Has(q, "connected")
  /\ Has(q, "added") /\ ~Has(q, "removed") => present /\ ~gone
  /\ WellTold(q)

New(f) == f \in Pending \/ f > proxy.added

LEMMA LogAre ==
  ASSUME NEW f \in Filter
  PROVE  Log(f) <=> LogIs(told[f], f \in Present, New(f), ctx.pid, ctx.channel = "destroyed")
  BY DEF Log, LogIs, Has, WellTold, New, Present, Pending

LEMMA LogNext ==
  ASSUME NEW f \in Filter,
         LogIs(told'[f], f \in Present', New(f)', ctx'.pid, ctx'.channel = "destroyed")
  PROVE  Log(f)'
<1>1. Log(f)' <=>
        LogIs(told[f], f \in Present, New(f), ctx.pid, ctx.channel = "destroyed")'
  BY LogAre, PTL
<1>2. QED
  BY <1>1

LEMMA NothingTold ==
  ASSUME NEW q, q = <<>>
  PROVE  WellTold(q) /\ (\A op : ~Has(q, op)) /\ q \in Seq(Call)
<1>1. q \in Seq(Call) /\ DOMAIN q = {}
  OBVIOUS
<1>2. \A op : At(q, op) = {}
  BY <1>1 DEF At
<1>3. QED
  BY <1>1, <1>2 DEF WellTold, Has

\* A filter is present, or it has yet to be told anything, not both.
LEMMA PresentOld ==
  ASSUME TypeOK, Filters, NEW f \in Present
  PROVE  ~New(f) /\ f \in Filter
<1>1. Kept(ctx.filters, ctx.pending, proxy.added) /\ proxy.added \in Nat
  BY FiltersAre, ProxyAssumption DEF TypeOK
<1>2. f \notin Pending /\ f \in 1..proxy.added /\ f \in Filter
  BY <1>1, KeptApart DEF Present, Pending
<1>3. QED
  BY <1>1, <1>2 DEF New

LEMMA LogAll ==
  ASSUME TypeOK, Filters, NEW f \in Filter, Log(f), NEW c \in Call, All(c),
         c.op \in {"error", "added"}
  PROVE  Log(f)'
<1>1. LogIs(told[f], f \in Present, New(f), ctx.pid, ctx.channel = "destroyed")
  BY LogAre
<1>2. /\ Present' = Present /\ Pending' = Pending /\ ctx'.pid = ctx.pid
      /\ (ctx'.channel = "destroyed" <=> ctx.channel = "destroyed")
      /\ (New(f)' <=> New(f)) /\ ctx.channel # "destroyed"
  BY StepFilters DEF All, SameFilters, New
<1>3. told[f] \in Seq(Call)
  BY DEF TypeOK
<1>4. IF f \in Present THEN Adds(told'[f], told[f], c) ELSE told'[f] = told[f]
  <2>1. told \in [Filter -> Seq(Call)] /\ told' = Tell(told, ctx.filters, c)
    BY DEF All, TypeOK
  <2>2. QED
    BY <2>1, TellIs DEF Present
<1>5. LogIs(told'[f], f \in Present, New(f), ctx.pid, FALSE)
  <2>1. CASE f \notin Present
    BY <1>1, <1>2, <1>4, <2>1 DEF LogIs
  <2>2. CASE f \in Present
    <3>1. /\ WellTold(told'[f])
          /\ \A op : Has(told'[f], op) <=> Has(told[f], op) \/ c.op = op
      BY <1>1, <1>3, <1>4, <2>2, WellToldGrows DEF LogIs
    <3>2. ~New(f)
      BY <2>2, PresentOld
    <3>3. QED
      BY <1>1, <1>2, <2>2, <3>1, <3>2 DEF LogIs
  <2>3. QED
    BY <2>1, <2>2
<1>6. LogIs(told'[f], f \in Present', New(f)', ctx'.pid, ctx'.channel = "destroyed")
  BY <1>2, <1>5 DEF LogIs
<1>7. QED
  BY <1>6, LogNext

LEMMA LogAdded ==
  ASSUME TypeOK, Filters, NEW f \in Filter, Log(f), NEW g \in Filter, AddFilter(g)
  PROVE  Log(f)'
<1>1. LogIs(told[f], f \in Present, New(f), ctx.pid, ctx.channel = "destroyed")
  BY LogAre
<1>2. /\ Present' = Present /\ Pending' = Pending \cup {g} /\ ctx'.pid = ctx.pid
      /\ ctx'.channel = ctx.channel /\ told' = told
      /\ g = proxy.added + 1 /\ proxy'.added = g
  BY StepFilters
<1>3. proxy.added \in Nat /\ f \in Nat
  BY ProxyAssumption DEF TypeOK, Filter
<1>4. New(f)' => New(f)
  BY <1>2, <1>3 DEF New
<1>5. LogIs(told'[f], f \in Present', New(f)', ctx'.pid, ctx'.channel = "destroyed")
  BY <1>1, <1>2, <1>4 DEF LogIs
<1>6. QED
  BY <1>5, LogNext

LEMMA LogReceived ==
  ASSUME TypeOK, Connecting, Filters, NEW f \in Filter, Log(f),
         NEW k \in 0..Len(ctx.filters), OnMessageReceived(k)
  PROVE  Log(f)'
<1>1. LogIs(told[f], f \in Present, New(f), ctx.pid, ctx.channel = "destroyed")
  BY LogAre
<1>2. UNCHANGED <<proxy, ctx>> /\ ctx.pid
  BY ReceivedSteps DEF Connecting
<1>3. Present' = Present /\ (New(f)' <=> New(f))
  BY <1>2 DEF Present, Pending, New, ToSet
<1> DEFINE asks == IF k = 0 THEN ctx.filters ELSE SubSeq(ctx.filters, 1, k)
<1>4. ToSet(asks) \subseteq Present
  <2>1. ctx.filters \in Seq(Filter)
    BY DEF TypeOK
  <2>2. CASE k = 0
    BY <2>2 DEF Present
  <2>3. CASE k # 0
    <3>1. /\ k \in 1..Len(ctx.filters) /\ Len(ctx.filters) \in Nat
      BY <2>1, <2>3
    <3>2. /\ DOMAIN asks = 1..k /\ \A i \in 1..k : asks[i] = ctx.filters[i]
          /\ 1..k \subseteq DOMAIN ctx.filters
      BY <2>1, <2>3, <3>1
    <3> HIDE DEF asks
    <3>3. QED
      BY <3>2 DEF Present, ToSet
  <2>4. QED
    BY <2>2, <2>3
<1>5. PICK n \in 1..MaxReceived :
        told' = Tell(told, IF k = 0 THEN ctx.filters ELSE SubSeq(ctx.filters, 1, k), Message(n))
        /\ Message(n) \in Call
  BY ReceivedSteps
<1>6. told' = Tell(told, asks, Message(n))
  BY <1>5
<1> HIDE DEF asks
<1>7. IF f \in ToSet(asks) THEN Adds(told'[f], told[f], Message(n)) ELSE told'[f] = told[f]
  <2>1. told \in [Filter -> Seq(Call)]
    BY DEF TypeOK
  <2>2. QED
    BY <1>5, <1>6, <2>1, TellIs
<1>8. told[f] \in Seq(Call) /\ Message(n).op = "message"
  BY TheCalls DEF TypeOK
<1>9. LogIs(told'[f], f \in Present, New(f), ctx.pid, ctx.channel = "destroyed")
  <2>1. CASE f \notin ToSet(asks)
    BY <1>1, <1>7, <2>1
  <2>2. CASE f \in ToSet(asks)
    <3>1. f \in Present /\ ~New(f)
      BY <1>4, <2>2, PresentOld
    <3>2. ~Has(told[f], "removed") /\ Has(told[f], "connected")
      BY <1>1, <1>2, <3>1 DEF LogIs
    <3>3. /\ WellTold(told'[f])
          /\ \A op : Has(told'[f], op) <=> Has(told[f], op) \/ op = "message"
      BY <1>1, <1>5, <1>7, <1>8, <2>2, <3>2, WellToldGrows DEF LogIs
    <3>4. QED
      BY <1>1, <3>1, <3>2, <3>3 DEF LogIs
  <2>3. QED
    BY <2>1, <2>2
<1>10. LogIs(told'[f], f \in Present', New(f)', ctx'.pid, ctx'.channel = "destroyed")
  BY <1>2, <1>3, <1>9 DEF LogIs
<1>11. QED
  BY <1>10, LogNext

LEMMA LogClosed ==
  ASSUME TypeOK, Filters, NEW f \in Filter, Log(f), Closed
  PROVE  Log(f)'
<1>1. LogIs(told[f], f \in Present, New(f), ctx.pid, ctx.channel = "destroyed")
  BY LogAre
<1>2. /\ Present' = {} /\ Pending' = Pending /\ ctx'.pid = ctx.pid
      /\ ctx'.channel = "destroyed" /\ proxy' = proxy
      /\ told' = Tell(Tell(told, ctx.filters, Says("closing")), ctx.filters, Says("removed"))
  BY StepFilters DEF Closed
<1>3. New(f)' <=> New(f)
  BY <1>2 DEF New
<1> DEFINE mid == Tell(told, ctx.filters, Says("closing"))
<1>4. mid \in [Filter -> Seq(Call)] /\ told' = Tell(mid, ctx.filters, Says("removed"))
  BY <1>2, TellIs, TheCalls DEF TypeOK
<1>5. /\ Says("closing") \in Call /\ Says("closing").op = "closing"
      /\ Says("removed") \in Call /\ Says("removed").op = "removed"
  BY TheCalls
<1>6. IF f \in Present THEN Adds(mid[f], told[f], Says("closing")) ELSE mid[f] = told[f]
  <2>1. told \in [Filter -> Seq(Call)]
    BY DEF TypeOK
  <2>2. QED
    BY <1>5, <2>1, TellIs DEF Present
<1> HIDE DEF mid
<1>7. IF f \in Present THEN Adds(told'[f], mid[f], Says("removed")) ELSE told'[f] = mid[f]
  BY <1>4, <1>5, TellIs DEF Present
<1>8. LogIs(told'[f], FALSE, New(f), ctx.pid, TRUE)
  <2>1. CASE f \notin Present
    BY <1>1, <1>6, <1>7, <2>1 DEF LogIs
  <2>2. CASE f \in Present
    <3>1. told[f] \in Seq(Call) /\ ~Has(told[f], "removed") /\ WellTold(told[f]) /\ ~New(f)
      BY <1>1, <2>2, PresentOld DEF LogIs, TypeOK
    <3>2. /\ WellTold(mid[f]) /\ mid[f] \in Seq(Call)
          /\ \A op : Has(mid[f], op) <=> Has(told[f], op) \/ op = "closing"
      BY <1>5, <1>6, <2>2, <3>1, WellToldGrows
    <3>3. ~Has(mid[f], "removed")
      BY <3>1, <3>2
    <3>4. /\ WellTold(told'[f])
          /\ \A op : Has(told'[f], op) <=> Has(mid[f], op) \/ op = "removed"
      BY <1>5, <1>7, <2>2, <3>2, <3>3, WellToldGrows
    <3>5. QED
      BY <1>1, <3>1, <3>2, <3>4 DEF LogIs
  <2>3. QED
    BY <2>1, <2>2
<1>9. LogIs(told'[f], f \in Present', New(f)', ctx'.pid, ctx'.channel = "destroyed")
  BY <1>2, <1>3, <1>8 DEF LogIs
<1>10. QED
  BY <1>9, LogNext

LEMMA LogRemoved ==
  ASSUME TypeOK, Filters, NEW f \in Filter, Log(f), NEW g \in Filter, Removed(g)
  PROVE  Log(f)'
<1>1. LogIs(told[f], f \in Present, New(f), ctx.pid, ctx.channel = "destroyed")
  BY LogAre
<1>2. /\ Present' = Present \ {g} /\ Pending' = Pending /\ ctx'.pid = ctx.pid
      /\ ctx'.channel = ctx.channel /\ proxy' = proxy /\ g \in Present
      /\ told' = [told EXCEPT ![g] = Append(told[g], Says("removed"))]
  BY StepFilters DEF Removed, Present
<1>3. New(f)' <=> New(f)
  BY <1>2 DEF New
<1>4. LogIs(told'[f], f \in Present \ {g}, New(f), ctx.pid, ctx.channel = "destroyed")
  <2>1. CASE f # g
    <3>1. told'[f] = told[f] /\ (f \in Present \ {g} <=> f \in Present)
      BY <1>2, <2>1 DEF TypeOK
    <3>2. QED
      BY <1>1, <3>1
  <2>2. CASE f = g
    <3>1. Adds(told'[f], told[f], Says("removed")) /\ told[f] \in Seq(Call)
      BY <1>2, <2>2 DEF TypeOK, Adds
    <3>2. Says("removed") \in Call /\ Says("removed").op = "removed"
      BY TheCalls
    <3>3. ~Has(told[f], "removed") /\ WellTold(told[f]) /\ ~New(f)
      BY <1>1, <1>2, <2>2, PresentOld DEF LogIs
    <3>4. /\ WellTold(told'[f])
          /\ \A op : Has(told'[f], op) <=> Has(told[f], op) \/ op = "removed"
      BY <3>1, <3>2, <3>3, WellToldGrows
    <3>5. QED
      BY <1>1, <2>2, <3>3, <3>4 DEF LogIs
  <2>3. QED
    BY <2>1, <2>2
<1>5. LogIs(told'[f], f \in Present', New(f)', ctx'.pid, ctx'.channel = "destroyed")
  BY <1>2, <1>3, <1>4 DEF LogIs
<1>6. QED
  BY <1>5, LogNext

\* A pending filter is told that it was added, if there is a channel, and that the
\* channel is connected, if it is.
LEMMA AdoptTells ==
  ASSUME TypeOK, NEW f \in Filter, NEW log, log = AdoptCalls(ctx, told)
  PROVE  /\ log \in [Filter -> Seq(Call)]
         /\ f \notin Pending => log[f] = told[f]
         /\ f \in Pending => \E q : /\ IF HasChannel(ctx) THEN Adds(q, told[f], Says("added"))
                                                          ELSE q = told[f]
                                    /\ IF ctx.pid THEN Adds(log[f], q, Says("connected"))
                                                  ELSE log[f] = q
<1> DEFINE mid == IF HasChannel(ctx) THEN Tell(told, ctx.pending, Says("added")) ELSE told
<1>1. log = IF ctx.pid THEN Tell(mid, ctx.pending, Says("connected")) ELSE mid
  BY DEF AdoptCalls
<1>2. Says("added") \in Call /\ Says("connected") \in Call /\ told \in [Filter -> Seq(Call)]
  BY TheCalls DEF TypeOK
<1>3. mid \in [Filter -> Seq(Call)]
  BY <1>2, TellIs
<1>4. IF f \in Pending /\ HasChannel(ctx) THEN Adds(mid[f], told[f], Says("added"))
                                          ELSE mid[f] = told[f]
  BY <1>2, TellIs DEF Pending
<1> HIDE DEF mid
<1>5. log \in [Filter -> Seq(Call)]
  BY <1>1, <1>2, <1>3, TellIs
<1>6. IF f \in Pending /\ ctx.pid THEN Adds(log[f], mid[f], Says("connected"))
                                  ELSE log[f] = mid[f]
  BY <1>1, <1>2, <1>3, TellIs DEF Pending
<1>7. QED
  BY <1>4, <1>5, <1>6

LEMMA LogAdopted ==
  ASSUME TypeOK, Connecting, Filters, NEW f \in Filter, Log(f),
         OnChannelConnected \/ OnAddFilter
  PROVE  Log(f)'
<1>0. CtxType
  BY TypeParts
<1>1. LogIs(told[f], f \in Present, New(f), ctx.pid, ctx.channel = "destroyed")
  BY LogAre
<1>2. Present' = Present \cup Pending /\ Pending' = {} /\ UNCHANGED proxy
  BY StepFilters
<1>3. New(f)' => New(f) /\ f \notin Pending /\ f \notin Present
  <2>1. f \in Pending => ~(f > proxy.added)
    <3>1. Kept(ctx.filters, ctx.pending, proxy.added) /\ proxy.added \in Nat
      BY FiltersAre, ProxyAssumption DEF TypeOK
    <3>2. f \in Pending => f \in 1..proxy.added
      BY <3>1, KeptApart DEF Pending
    <3>3. QED
      BY <3>1, <3>2
  <2>2. QED
    BY <1>2, <2>1, PresentOld DEF New
<1> DEFINE log == AdoptCalls(ctx, told)
           both == Present \cup Pending
<1>4. log \in [Filter -> Seq(Call)]
  BY AdoptTells
<1>5. f \notin Pending => log[f] = told[f]
  BY AdoptTells
<1>6. f \in Pending => f \notin Present /\ told[f] = <<>>
  BY <1>1, PresentOld DEF LogIs, New
<1>7. /\ Says("added") \in Call /\ Says("added").op = "added"
      /\ Says("connected") \in Call /\ Says("connected").op = "connected"
  BY TheCalls
<1>8. f \in Pending =>
        /\ WellTold(log[f]) /\ log[f] \in Seq(Call)
        /\ \A op : Has(log[f], op) <=> \/ op = "added" /\ HasChannel(ctx)
                                       \/ op = "connected" /\ ctx.pid
  <2>1. SUFFICES ASSUME f \in Pending
                 PROVE  /\ WellTold(log[f]) /\ log[f] \in Seq(Call)
                        /\ \A op : Has(log[f], op) <=> \/ op = "added" /\ HasChannel(ctx)
                                                       \/ op = "connected" /\ ctx.pid
    OBVIOUS
  <2>2. PICK q : /\ IF HasChannel(ctx) THEN Adds(q, told[f], Says("added")) ELSE q = told[f]
                 /\ IF ctx.pid THEN Adds(log[f], q, Says("connected")) ELSE log[f] = q
    BY <2>1, AdoptTells
  <2> HIDE DEF log
  <2>3. WellTold(told[f]) /\ (\A op : ~Has(told[f], op)) /\ told[f] \in Seq(Call)
    BY <1>6, <2>1, NothingTold
  <2>4. /\ WellTold(q) /\ q \in Seq(Call)
        /\ \A op : Has(q, op) <=> op = "added" /\ HasChannel(ctx)
    BY <1>7, <2>2, <2>3, WellToldGrows
  <2>5. ~Has(q, "removed") /\ ~Has(q, "connected")
    BY <2>4
  <2>6. /\ WellTold(log[f]) /\ log[f] \in Seq(Call)
        /\ \A op : Has(log[f], op) <=> Has(q, op) \/ (op = "connected" /\ ctx.pid)
    BY <1>7, <2>2, <2>4, <2>5, WellToldGrows
  <2>7. QED
    BY <2>4, <2>6
<1> HIDE DEF log
<1>9. CASE OnAddFilter
  <2>1. /\ told' = log /\ ctx'.pid = ctx.pid /\ ctx'.channel = ctx.channel
    BY <1>0, <1>9, AdoptIs DEF OnAddFilter, log
  <2>2. LogIs(told'[f], f \in both, New(f)', ctx.pid, ctx.channel = "destroyed")
    <3>1. CASE f \in Pending
      BY <1>3, <1>8, <2>1, <3>1 DEF LogIs, HasChannel
    <3>2. CASE f \notin Pending
      BY <1>1, <1>3, <1>5, <2>1, <3>2 DEF LogIs
    <3>3. QED
      BY <3>1, <3>2
  <2>3. QED
    BY <1>2, <2>1, <2>2, LogNext
<1>10. CASE OnChannelConnected
  <2>1. /\ ctx.channel = "open" /\ ~ctx.pid /\ HasChannel(ctx)
        /\ ctx' = [Adopt(ctx) EXCEPT !.channel = "connected", !.pid = TRUE]
        /\ told' = Tell(log, Adopt(ctx).filters, Says("connected"))
    BY <1>10 DEF OnChannelConnected, Connecting, HasChannel, log
  <2>2. ctx'.pid /\ ctx'.channel = "connected" /\ ctx'.filters = Adopt(ctx).filters
    BY <1>0, <2>1, AdoptIs
  <2>3. ToSet(Adopt(ctx).filters) = both
    BY <1>2, <2>2 DEF Present, ToSet
  <2>4. IF f \in both THEN Adds(told'[f], log[f], Says("connected")) ELSE told'[f] = log[f]
    BY <1>4, <1>7, <2>1, <2>3, TellIs
  <2>5. LogIs(told'[f], f \in both, New(f)', TRUE, FALSE)
    <3>1. CASE f \in Pending
      <4>1. /\ WellTold(log[f]) /\ log[f] \in Seq(Call)
            /\ \A op : Has(log[f], op) <=> op = "added"
        BY <1>8, <2>1, <3>1
      <4>2. ~Has(log[f], "removed") /\ ~Has(log[f], "connected")
        BY <4>1
      <4>3. /\ WellTold(told'[f])
            /\ \A op : Has(told'[f], op) <=> Has(log[f], op) \/ op = "connected"
        BY <1>7, <2>4, <3>1, <4>1, <4>2, WellToldGrows
      <4>4. QED
        BY <1>3, <3>1, <4>1, <4>3 DEF LogIs
    <3>2. CASE f \in Present /\ f \notin Pending
      <4>1. /\ WellTold(log[f]) /\ log[f] \in Seq(Call) /\ log[f] = told[f]
            /\ ~Has(log[f], "removed") /\ ~Has(log[f], "connected")
        BY <1>1, <1>5, <2>1, <3>2 DEF LogIs, TypeOK
      <4>2. /\ WellTold(told'[f])
            /\ \A op : Has(told'[f], op) <=> Has(log[f], op) \/ op = "connected"
        BY <1>7, <2>4, <3>2, <4>1, WellToldGrows
      <4>3. QED
        BY <1>1, <1>3, <3>2, <4>1, <4>2 DEF LogIs
    <3>3. CASE f \notin both
      BY <1>1, <1>3, <1>5, <2>1, <2>4, <3>3 DEF LogIs
    <3>4. QED
      BY <3>1, <3>2, <3>3
  <2>6. QED
    BY <1>2, <2>2, <2>5, LogNext
<1>11. QED
  BY <1>9, <1>10

LEMMA NextLog ==
  ASSUME TypeOK, Opening, Connecting, Filters, Removing, NEW f \in Filter, Log(f), Next
  PROVE  Log(f)'
<1>1. CASE Quiet
  <2>1. /\ Present' = Present /\ Pending' = Pending /\ ctx'.pid = ctx.pid /\ told' = told
        /\ (ctx'.channel = "destroyed" <=> ctx.channel = "destroyed")
        /\ (New(f)' <=> New(f))
    BY <1>1, StepFilters DEF Quiet, SameFilters, New
  <2>2. LogIs(told[f], f \in Present, New(f), ctx.pid, ctx.channel = "destroyed")
    BY LogAre
  <2>3. LogIs(told'[f], f \in Present', New(f)', ctx'.pid, ctx'.channel = "destroyed")
    BY <2>1, <2>2 DEF LogIs
  <2>4. QED
    BY <2>3, LogNext
<1>2. /\ Says("error") \in Call /\ Says("error").op = "error"
      /\ Says("added") \in Call /\ Says("added").op = "added"
  BY TheCalls
<1>3. QED
  BY <1>1, <1>2, FilterSteps, LogAll, LogAdded, LogAdopted, LogClosed, LogReceived, LogRemoved

(***************************************************************************)
(* What an early filter gets.                                              *)
(***************************************************************************)
LEMMA NextStaying ==
  ASSUME TypeOK, Opening, Connecting, Filters, Removing, Staying, Next
  PROVE  Staying'
<1>0. CtxType /\ ProxyType /\ proxy.added \in Nat
  BY TypeParts, ProxyAssumption DEF ProxyType
<1>1. /\ proxy.early \subseteq 1..proxy.added
      /\ \A f \in proxy.early \ proxy.removing :
           /\ ctx.channel # "destroyed" => f \in Present \cup Pending
           /\ ctx.channel = "connected" => f \in Present
  BY DEF Staying, Present, Pending
<1>2. ASSUME proxy'.early \subseteq 1..proxy'.added,
             \A f \in proxy'.early \ proxy'.removing :
               /\ ctx'.channel # "destroyed" => f \in Present' \cup Pending'
               /\ ctx'.channel = "connected" => f \in Present'
      PROVE  Staying'
  BY <1>2 DEF Staying, Present, Pending
<1>3. ASSUME SameFilters PROVE Staying'
  <2>1. Present' = Present /\ Pending' = Pending
    BY <1>3, StepFilters
  <2>2. QED
    BY <1>1, <1>2, <1>3, <2>1 DEF SameFilters
<1>4. ASSUME NEW g \in Filter, AddFilter(g) PROVE Staying'
  <2>1. /\ Present' = Present /\ Pending' = Pending \cup {g}
        /\ g = proxy.added + 1 /\ proxy'.added = g
        /\ proxy'.early = (IF ctx.pid THEN proxy.early ELSE proxy.early \cup {g})
        /\ proxy'.removing = proxy.removing /\ ctx'.channel = ctx.channel
    BY <1>4, StepFilters
  <2>2. proxy'.early \subseteq 1..proxy'.added
    BY <1>0, <1>1, <2>1
  <2>3. ctx.channel = "connected" => ctx.pid
    BY DEF Connecting
  <2>4. QED
    BY <1>1, <1>2, <2>1, <2>2, <2>3
<1>5. ASSUME OnChannelConnected \/ OnAddFilter PROVE Staying'
  <2>1. Present' = Present \cup Pending /\ Pending' = {} /\ UNCHANGED proxy
    BY <1>5, StepFilters
  <2>2. \/ ctx.channel = "open"
        \/ ctx'.channel = ctx.channel
    BY <1>0, <1>5, AdoptIs DEF OnChannelConnected, OnAddFilter
  <2>3. QED
    BY <1>1, <1>2, <2>1, <2>2
<1>6. ASSUME Closed PROVE Staying'
  BY <1>1, <1>2, <1>6 DEF Closed
<1>7. ASSUME NEW k \in 0..Len(ctx.filters), OnMessageReceived(k) PROVE Staying'
  <2>1. UNCHANGED <<proxy, ctx>>
    BY <1>7, ReceivedSteps
  <2>2. Present' = Present /\ Pending' = Pending
    BY <2>1 DEF Present, Pending, ToSet
  <2>3. QED
    BY <1>1, <1>2, <2>1, <2>2
<1>8. ASSUME NEW g \in Filter, Removed(g) PROVE Staying'
  <2>1. /\ Present' = Present \ {g} /\ Pending' = Pending
        /\ g \in proxy.removing /\ ctx'.channel = ctx.channel /\ UNCHANGED proxy
    BY <1>8, StepFilters DEF Removed
  <2>2. QED
    BY <1>1, <1>2, <2>1
<1>9. QED
  BY <1>3, <1>4, <1>5, <1>6, <1>7, <1>8, FilterSteps DEF Quiet, All

\* What a filter has been told it has been told.
LEMMA AddsKeeps ==
  ASSUME NEW T, NEW q \in Seq(T), NEW x \in T, NEW r, Adds(r, q, x)
  PROVE  ToSet(q) \subseteq ToSet(r) /\ x \in ToSet(r) /\ r \in Seq(T)
<1>1. /\ Len(q) \in Nat /\ DOMAIN q = 1..Len(q) /\ DOMAIN r = 1..(Len(q) + 1)
      /\ \A k \in DOMAIN q : r[k] = q[k]
      /\ r[Len(q) + 1] = x /\ r \in Seq(T)
  BY AtAdds
<1>2. DOMAIN q \subseteq DOMAIN r /\ Len(q) + 1 \in DOMAIN r
  BY <1>1
<1>3. QED
  BY <1>1, <1>2 DEF ToSet

LEMMA TellKeeps ==
  ASSUME NEW log \in [Filter -> Seq(Call)], NEW fs, NEW call \in Call, NEW f \in Filter
  PROVE  /\ ToSet(log[f]) \subseteq ToSet(Tell(log, fs, call)[f])
         /\ f \in ToSet(fs) => call \in ToSet(Tell(log, fs, call)[f])
         /\ Tell(log, fs, call) \in [Filter -> Seq(Call)]
<1>1. /\ Tell(log, fs, call) \in [Filter -> Seq(Call)]
      /\ IF f \in ToSet(fs) THEN Adds(Tell(log, fs, call)[f], log[f], call)
         ELSE Tell(log, fs, call)[f] = log[f]
  BY TellIs
<1>2. log[f] \in Seq(Call)
  OBVIOUS
<1>3. QED
  BY <1>1, <1>2, AddsKeeps

LEMMA ToldKeeps ==
  ASSUME TypeOK, Opening, Connecting, Removing, Next, NEW f \in Filter
  PROVE  ToSet(told[f]) \subseteq ToSet(told'[f])
<1>1. told \in [Filter -> Seq(Call)] /\ told[f] \in Seq(Call)
  BY DEF TypeOK
<1>2. \A op \in {"added", "connected", "error", "closing", "removed"} : Says(op) \in Call
  BY TheCalls
<1>3. ASSUME Quiet PROVE ToSet(told[f]) \subseteq ToSet(told'[f])
  BY <1>3 DEF Quiet
<1>4. ASSUME NEW c \in Call, All(c) PROVE ToSet(told[f]) \subseteq ToSet(told'[f])
  BY <1>1, <1>4, TellKeeps DEF All
<1>5. ASSUME NEW g \in Filter, AddFilter(g) PROVE ToSet(told[f]) \subseteq ToSet(told'[f])
  BY <1>5 DEF AddFilter
<1>6. ASSUME OnChannelConnected \/ OnAddFilter PROVE ToSet(told[f]) \subseteq ToSet(told'[f])
  <2> DEFINE log == AdoptCalls(ctx, told)
  <2>1. /\ log \in [Filter -> Seq(Call)]
        /\ f \notin Pending => log[f] = told[f]
        /\ f \in Pending => \E q : /\ IF HasChannel(ctx) THEN Adds(q, told[f], Says("added"))
                                                         ELSE q = told[f]
                                   /\ IF ctx.pid THEN Adds(log[f], q, Says("connected"))
                                                 ELSE log[f] = q
    BY AdoptTells
  <2>2. told' = log \/ told' = Tell(log, Adopt(ctx).filters, Says("connected"))
    BY <1>6 DEF OnChannelConnected, OnAddFilter
  <2> HIDE DEF log
  <2>3. ToSet(told[f]) \subseteq ToSet(log[f])
    <3>1. CASE f \notin Pending
      BY <2>1, <3>1
    <3>2. CASE f \in Pending
      <4>1. PICK q : /\ IF HasChannel(ctx) THEN Adds(q, told[f], Says("added")) ELSE q = told[f]
                     /\ IF ctx.pid THEN Adds(log[f], q, Says("connected")) ELSE log[f] = q
        BY <2>1, <3>2
      <4>2. ToSet(told[f]) \subseteq ToSet(q) /\ q \in Seq(Call)
        BY <1>1, <1>2, <4>1, AddsKeeps
      <4>3. ToSet(q) \subseteq ToSet(log[f])
        BY <1>2, <4>1, <4>2, AddsKeeps
      <4>4. QED
        BY <4>2, <4>3
    <3>3. QED
      BY <3>1, <3>2
  <2>4. ToSet(log[f]) \subseteq ToSet(told'[f])
    BY <1>2, <2>1, <2>2, TellKeeps
  <2>5. QED
    BY <2>3, <2>4
<1>7. ASSUME Closed PROVE ToSet(told[f]) \subseteq ToSet(told'[f])
  <2> DEFINE mid == Tell(told, ctx.filters, Says("closing"))
  <2>1. told' = Tell(mid, ctx.filters, Says("removed"))
    BY <1>7 DEF Closed
  <2>2. ToSet(told[f]) \subseteq ToSet(mid[f]) /\ mid \in [Filter -> Seq(Call)]
    BY <1>1, <1>2, TellKeeps
  <2> HIDE DEF mid
  <2>3. ToSet(mid[f]) \subseteq ToSet(told'[f])
    BY <1>2, <2>1, <2>2, TellKeeps
  <2>4. QED
    BY <2>2, <2>3
<1>8. ASSUME NEW k \in 0..Len(ctx.filters), OnMessageReceived(k)
      PROVE  ToSet(told[f]) \subseteq ToSet(told'[f])
  <2> DEFINE asks == IF k = 0 THEN ctx.filters ELSE SubSeq(ctx.filters, 1, k)
  <2>1. PICK n \in 1..MaxReceived : told' = Tell(told, asks, Message(n)) /\ Message(n) \in Call
    BY <1>8, ReceivedSteps
  <2> HIDE DEF asks
  <2>2. QED
    BY <1>1, <2>1, TellKeeps
<1>9. ASSUME NEW g \in Filter, Removed(g) PROVE ToSet(told[f]) \subseteq ToSet(told'[f])
  <2>1. told' = [told EXCEPT ![g] = Append(told[g], Says("removed"))]
    BY <1>9 DEF Removed
  <2>2. told'[f] = told[f] \/ Adds(told'[f], told[f], Says("removed"))
    BY <1>1, <2>1 DEF Adds
  <2>3. QED
    BY <1>1, <1>2, <2>2, AddsKeeps
<1>10. QED
  BY <1>2, <1>3, <1>4, <1>5, <1>6, <1>7, <1>8, <1>9, FilterSteps

\* The filters asked before the one that handles a message have smaller numbers.
LEMMA Asked ==
  ASSUME TypeOK, Filters, NEW k \in 0..Len(ctx.filters), NEW f \in Present,
         (IF k = 0 THEN NoFilter ELSE ctx.filters[k]) \notin 1..(f - 1)
  PROVE  f \in ToSet(IF k = 0 THEN ctx.filters ELSE SubSeq(ctx.filters, 1, k))
<1>1. ctx.filters \in Seq(Filter) /\ Len(ctx.filters) \in Nat /\ k \in Nat
  BY DEF TypeOK
<1>2. CASE k = 0
  BY <1>2 DEF Present
<1>3. CASE k # 0
  <2>1. k \in DOMAIN ctx.filters
    BY <1>1, <1>3
  <2>2. PICK j \in DOMAIN ctx.filters : ctx.filters[j] = f
    BY DEF Present, ToSet
  <2>3. /\ ctx.filters[k] \in Nat /\ ctx.filters[k] >= 1 /\ f \in Nat
        /\ j \in Nat /\ j >= 1 /\ j <= Len(ctx.filters)
    BY <1>1, <2>1, <2>2, ProxyAssumption DEF Filter
  <2>4. ~(ctx.filters[k] < f)
    BY <1>3, <2>3
  <2>5. j <= k
    BY <1>1, <2>1, <2>2, <2>3, <2>4 DEF Filters, Sorted
  <2> DEFINE s == SubSeq(ctx.filters, 1, k)
  <2>6. DOMAIN s = 1..k /\ \A i \in 1..k : s[i] = ctx.filters[i]
    BY <1>1, <2>1
  <2>7. j \in DOMAIN s /\ s[j] = f
    <3> HIDE DEF s
    <3>1. j \in 1..k
      BY <1>1, <2>3, <2>5
    <3>2. QED
      BY <2>2, <2>6, <3>1
  <2>8. f \in ToSet(s)
    <3> HIDE DEF s
    <3>1. QED
      BY <2>7 DEF ToSet
  <2>9. QED
    BY <1>3, <2>8
<1>4. QED
  BY <1>2, <1>3

\* One filter's part of MissesNothing.
Misses(f, q, seen) ==
  \E k \in DOMAIN q :
    q[k].op = "message" /\ q[k].by \notin 1..(f - 1) /\ Message(q[k].n) \notin ToSet(seen)

LEMMA NextMisses ==
  ASSUME TypeOK, Opening, Connecting, Filters, Removing, Staying, MissesNothing, Next
  PROVE  MissesNothing'
<1>1. \A f \in proxy.early \ proxy.removing : ~Misses(f, arrived, told[f])
  BY DEF MissesNothing, Misses
<1>2. ASSUME \A f \in proxy'.early \ proxy'.removing : ~Misses(f, arrived', told'[f])
      PROVE  MissesNothing'
  BY <1>2 DEF MissesNothing, Misses
<1>3. proxy.early \subseteq Filter /\ arrived \in Seq(Event)
  BY DEF TypeOK
<1>4. ASSUME NEW f \in Filter, ~Misses(f, arrived, told[f]), NoMessage
      PROVE  ~Misses(f, arrived', told'[f])
  <2>1. \A k \in DOMAIN arrived' : arrived'[k].op = "message" =>
          k \in DOMAIN arrived /\ arrived'[k] = arrived[k]
    <3>1. CASE UNCHANGED arrived
      BY <3>1
    <3>2. CASE \E a \in Event : Adds(arrived', arrived, a) /\ a.op # "message"
      <4>1. PICK a \in Event : Adds(arrived', arrived, a) /\ a.op # "message"
        BY <3>2
      <4>2. \A k \in DOMAIN arrived' :
              (k \in DOMAIN arrived /\ arrived'[k] = arrived[k]) \/ arrived'[k] = a
        BY <1>3, <4>1, AddsEach
      <4>3. QED
        BY <4>1, <4>2
    <3>3. QED
      BY <1>4, <3>1, <3>2 DEF NoMessage
  <2>2. ToSet(told[f]) \subseteq ToSet(told'[f])
    BY <1>4, ToldKeeps
  <2>3. QED
    BY <1>4, <2>1, <2>2 DEF Misses
<1>5. ASSUME NoMessage, proxy'.early \ proxy'.removing \subseteq proxy.early \ proxy.removing
      PROVE  MissesNothing'
  BY <1>1, <1>2, <1>3, <1>4, <1>5
<1>6. ASSUME NEW g \in Filter, AddFilter(g) PROVE MissesNothing'
  <2>1. /\ proxy'.early = (IF ctx.pid THEN proxy.early ELSE proxy.early \cup {g})
        /\ proxy'.removing = proxy.removing /\ UNCHANGED arrived
    BY <1>6, StepFilters
  <2>2. NoMessage
    BY <2>1 DEF NoMessage
  <2>3. CASE ctx.pid
    BY <1>5, <2>1, <2>2, <2>3
  <2>4. CASE ~ctx.pid
    <3>1. At(arrived, "message") = {}
      BY <2>4 DEF Connecting
    <3>2. \A f : ~Misses(f, arrived', told'[f])
      BY <2>1, <3>1 DEF Misses, At
    <3>3. QED
      BY <1>2, <3>2
  <2>5. QED
    BY <2>3, <2>4
<1>7. ASSUME NEW k \in 0..Len(ctx.filters), OnMessageReceived(k) PROVE MissesNothing'
  <2>1. UNCHANGED <<proxy, ctx>> /\ ctx.channel = "connected"
    BY <1>7, ReceivedSteps
  <2> DEFINE asks == IF k = 0 THEN ctx.filters ELSE SubSeq(ctx.filters, 1, k)
             by == IF k = 0 THEN NoFilter ELSE ctx.filters[k]
  <2>2. PICK n \in 1..MaxReceived :
          /\ [op |-> "message", n |-> n, by |-> by] \in Event
          /\ Adds(arrived', arrived, [op |-> "message", n |-> n, by |-> by])
          /\ told' = Tell(told, asks, Message(n)) /\ Message(n) \in Call
    BY <1>7, ReceivedSteps
  <2> DEFINE a == [op |-> "message", n |-> n, by |-> by]
  <2>3. a.by = by /\ a.n = n /\ a \in Event /\ Adds(arrived', arrived, a)
    BY <2>2
  <2>4. \A f \in Present : by \notin 1..(f - 1) => f \in ToSet(asks)
    BY Asked
  <2> HIDE DEF asks, by, a
  <2>5. \A i \in DOMAIN arrived' :
          (i \in DOMAIN arrived /\ arrived'[i] = arrived[i]) \/ arrived'[i] = a
    BY <1>3, <2>3, AddsEach
  <2>6. ASSUME NEW f \in proxy.early \ proxy.removing PROVE ~Misses(f, arrived', told'[f])
    <3>1. f \in Present /\ f \in Filter
      BY <1>3, <2>1, <2>6 DEF Staying, Present
    <3>2. ToSet(told[f]) \subseteq ToSet(told'[f])
      BY <3>1, ToldKeeps
    <3>3. by \notin 1..(f - 1) => Message(n) \in ToSet(told'[f])
      <4>1. told \in [Filter -> Seq(Call)]
        BY DEF TypeOK
      <4>2. QED
        BY <2>2, <2>4, <3>1, <4>1, TellKeeps
    <3>4. QED
      BY <1>1, <2>3, <2>5, <2>6, <3>2, <3>3 DEF Misses
  <2>7. QED
    BY <1>2, <2>1, <2>6
<1>8. QED
  <2>1. Quiet \/ All(Says("error")) \/ All(Says("added")) => MissesNothing'
    BY <1>5 DEF Quiet, All, SameFilters
  <2>2. OnChannelConnected \/ OnAddFilter \/ Closed \/ (\E f \in Filter : Removed(f)) =>
          MissesNothing'
    <3>1. OnChannelConnected \/ OnAddFilter \/ Closed \/ (\E f \in Filter : Removed(f)) =>
            UNCHANGED <<proxy, arrived>>
      BY StepFilters DEF Closed, Removed
    <3>2. QED
      BY <1>5, <3>1 DEF NoMessage
  <2>3. QED
    BY <1>6, <1>7, <2>1, <2>2, FilterSteps

(***************************************************************************)
(* The tasks that remove filters.                                          *)
(***************************************************************************)

\* Removing for the tasks ts, the filters fs, the pending ones ps, and those being removed.
Finds(ts, fs, ps, rem) ==
  /\ \A k \in At(ts, "remove") :
       /\ ts[k].f \in rem
       /\ ts[k].f \in fs \/ (ts[k].f \in ps /\ \E j \in At(ts, "add") : j < k)
  /\ \A j, k \in At(ts, "remove") : ts[j].f = ts[k].f => j = k
  /\ \A j \in At(ts, "remove"), k \in At(ts, "close") : j < k
  /\ ps # {} => At(ts, "add") # {}

LEMMA RemovingIs ==
  ASSUME TypeOK
  PROVE  Removing <=> /\ ~ctx.lost /\ Finds(tasks, Present, Pending, proxy.removing)
                      /\ proxy.closes = 0 =>
                           1..proxy.added \ proxy.removing \subseteq Present \cup Pending
<1>1. ctx.pending # <<>> <=> Pending # {}
  <2>1. ctx.pending \in Seq(Filter)
    BY DEF TypeOK
  <2>2. ctx.pending # <<>> => 1 \in DOMAIN ctx.pending
    BY <2>1
  <2>3. ctx.pending = <<>> => DOMAIN ctx.pending = {}
    OBVIOUS
  <2>4. QED
    BY <2>2, <2>3 DEF Pending, ToSet
<1>2. QED
  BY <1>1 DEF Removing, Finds, Present, Pending

LEMMA RemovingNext ==
  ASSUME TypeOK', ~ctx'.lost, Finds(tasks', Present', Pending', proxy'.removing),
         proxy'.closes = 0 => 1..proxy'.added \ proxy'.removing \subseteq Present' \cup Pending'
  PROVE  Removing'
<1>1. Removing' <=>
        (/\ ~ctx.lost /\ Finds(tasks, Present, Pending, proxy.removing)
         /\ proxy.closes = 0 =>
              1..proxy.added \ proxy.removing \subseteq Present \cup Pending)'
  BY RemovingIs, PTL
<1>2. QED
  BY <1>1

\* Posting a task.
LEMMA FindsPosts ==
  ASSUME NEW ts \in Seq(Task), NEW fs, NEW ps, NEW rem, Finds(ts, fs, ps, rem),
         NEW t \in Task, NEW t2, Adds(t2, ts, t)
  PROVE  /\ t.op \notin {"add", "remove"} => Finds(t2, fs, ps, rem)
         /\ t.op = "add" => \A p2 : ps \subseteq p2 => Finds(t2, fs, p2, rem)
         /\ t.op = "remove" /\ t.f \in fs \cup ps /\ t.f \notin rem /\ At(ts, "close") = {} =>
              Finds(t2, fs, ps, rem \cup {t.f})
<1>1. /\ t2 \in Seq(Task) /\ Len(ts) \in Nat
      /\ \A k \in DOMAIN ts : t2[k] = ts[k]
      /\ t2[Len(ts) + 1] = t
      /\ \A op : At(t2, op) = At(ts, op) \cup (IF t.op = op THEN {Len(ts) + 1} ELSE {})
  BY AtAdds
<1>2. \A op : \A k \in At(ts, op) : k \in Nat /\ k <= Len(ts) /\ k \in DOMAIN ts
  BY AtIn DEF At
<1>3. \A op : At(ts, op) \subseteq At(t2, op)
  BY <1>1
<1>4. \A k \in At(ts, "remove") :
        /\ t2[k].f = ts[k].f /\ t2[k].f \in rem
        /\ t2[k].f \in fs \/ (t2[k].f \in ps /\ \E j \in At(t2, "add") : j < k)
  BY <1>1, <1>2, <1>3 DEF Finds
<1>5. ASSUME t.op \notin {"add", "remove"} PROVE Finds(t2, fs, ps, rem)
  <2>1. At(t2, "remove") = At(ts, "remove") /\ At(t2, "add") = At(ts, "add")
    BY <1>1, <1>5
  <2>2. \A j \in At(t2, "remove"), k \in At(t2, "close") : j < k
    BY <1>1, <1>2, <2>1 DEF Finds
  <2>3. \A j, k \in At(t2, "remove") : t2[j].f = t2[k].f => j = k
    BY <1>4, <2>1 DEF Finds
  <2>4. QED
    BY <1>4, <2>1, <2>2, <2>3 DEF Finds
<1>6. ASSUME t.op = "add", NEW p2, ps \subseteq p2 PROVE Finds(t2, fs, p2, rem)
  <2>1. At(t2, "remove") = At(ts, "remove") /\ At(t2, "close") = At(ts, "close")
    BY <1>1, <1>6
  <2>2. At(t2, "add") # {}
    BY <1>1, <1>6
  <2>3. \A j, k \in At(t2, "remove") : t2[j].f = t2[k].f => j = k
    BY <1>4, <2>1 DEF Finds
  <2>4. \A k \in At(t2, "remove") :
          /\ t2[k].f \in rem
          /\ t2[k].f \in fs \/ (t2[k].f \in p2 /\ \E j \in At(t2, "add") : j < k)
    BY <1>4, <1>6, <2>1
  <2>5. \A j \in At(t2, "remove"), k \in At(t2, "close") : j < k
    BY <2>1 DEF Finds
  <2>6. QED
    BY <2>2, <2>3, <2>4, <2>5 DEF Finds
<1>7. ASSUME t.op = "remove", t.f \in fs \cup ps, t.f \notin rem, At(ts, "close") = {}
      PROVE  Finds(t2, fs, ps, rem \cup {t.f})
  <2> DEFINE n == Len(ts) + 1
  <2>1. /\ At(t2, "remove") = At(ts, "remove") \cup {n} /\ t2[n] = t
        /\ At(t2, "add") = At(ts, "add") /\ At(t2, "close") = {}
    BY <1>1, <1>7
  <2>2. \A op : \A k \in At(ts, op) : k < n
    BY <1>1, <1>2
  <2> HIDE DEF n
  <2>3. \A k \in At(ts, "remove") : t2[k].f # t.f
    BY <1>4, <1>7
  <2>4. \A j, k \in At(t2, "remove") : t2[j].f = t2[k].f => j = k
    BY <1>4, <2>1, <2>3 DEF Finds
  <2>5. t.f \in ps => \E j \in At(t2, "add") : j < n
    BY <2>1, <2>2 DEF Finds
  <2>6. \A k \in At(t2, "remove") :
          /\ t2[k].f \in rem \cup {t.f}
          /\ t2[k].f \in fs \/ (t2[k].f \in ps /\ \E j \in At(t2, "add") : j < k)
    BY <1>4, <1>7, <2>1, <2>5
  <2>7. ps # {} => At(t2, "add") # {}
    BY <2>1 DEF Finds
  <2>8. QED
    BY <2>1, <2>4, <2>6, <2>7 DEF Finds
<1>8. QED
  BY <1>5, <1>6, <1>7

\* Running a task.
LEMMA FindsRuns ==
  ASSUME NEW ts \in Seq(Task), NEW fs, NEW ps, NEW rem, Finds(ts, fs, ps, rem),
         NEW t2, Drops(t2, ts)
  PROVE  /\ ts[1].op \notin {"add", "remove", "close"} => Finds(t2, fs, ps, rem)
         /\ ts[1].op = "add" => Finds(t2, fs \cup ps, {}, rem)
         /\ ts[1].op = "remove" => Finds(t2, fs \ {ts[1].f}, ps, rem)
         /\ ts[1].op = "close" => \A f2 : Finds(t2, f2, ps, rem)
<1>1. /\ t2 \in Seq(Task) /\ Len(ts) \in Nat \ {0}
      /\ DOMAIN t2 = 1..(Len(ts) - 1)
      /\ \A k \in DOMAIN t2 : t2[k] = ts[k + 1]
      /\ \A op : \A k : k \in At(t2, op) <=> k \in Nat \ {0} /\ k + 1 \in At(ts, op)
      /\ \A op : 1 \in At(ts, op) <=> ts[1].op = op
  BY AtDrops
<1>2. \A op : \A k \in At(t2, op) : k \in DOMAIN t2
  BY DEF At
<1>3. \A op : \A k \in At(ts, op) : k \in Nat /\ k # 0
  BY AtIn
<1>4. \A k \in At(t2, "remove") :
        /\ k \in Nat /\ k + 1 \in At(ts, "remove") /\ t2[k] = ts[k + 1]
        /\ t2[k].f \in rem
        /\ t2[k].f \in fs \/ (t2[k].f \in ps /\ \E j \in At(ts, "add") : j < k + 1)
  BY <1>1, <1>2 DEF Finds
<1>5. \A j, k \in At(t2, "remove") : t2[j].f = t2[k].f => j = k
  <2>1. \A j, k \in At(t2, "remove") : t2[j].f = t2[k].f => j + 1 = k + 1
    BY <1>4 DEF Finds
  <2>2. QED
    BY <1>4, <2>1
<1>6. \A j \in At(t2, "remove"), k \in At(t2, "close") : j < k
  <2>1. \A j \in At(t2, "remove"), k \in At(t2, "close") : k \in Nat /\ j + 1 < k + 1
    BY <1>1, <1>4 DEF Finds
  <2>2. QED
    BY <1>4, <2>1
<1>7. ASSUME ts[1].op # "add", NEW j \in At(ts, "add")
      PROVE  j - 1 \in At(t2, "add") /\ j \in Nat
  <2>1. j \in Nat /\ j # 0 /\ j # 1
    BY <1>1, <1>3, <1>7
  <2>2. j - 1 \in Nat \ {0} /\ (j - 1) + 1 = j
    BY <2>1
  <2>3. QED
    BY <1>1, <2>1, <2>2
<1>8. ASSUME ts[1].op # "add", NEW k \in At(t2, "remove"), t2[k].f \notin fs
      PROVE  t2[k].f \in ps /\ \E j \in At(t2, "add") : j < k
  <2>1. PICK j \in At(ts, "add") : j < k + 1
    BY <1>4, <1>8
  <2>2. j - 1 \in At(t2, "add") /\ j \in Nat
    BY <1>7, <1>8
  <2>3. j - 1 < k
    BY <1>4, <2>1, <2>2
  <2>4. QED
    BY <1>4, <1>8, <2>2, <2>3
<1>9. ts[1].op # "add" /\ ps # {} => At(t2, "add") # {}
  BY <1>7 DEF Finds
<1>10. ASSUME ts[1].op \notin {"add", "remove", "close"} PROVE Finds(t2, fs, ps, rem)
  BY <1>4, <1>5, <1>6, <1>8, <1>9, <1>10 DEF Finds
<1>11. ASSUME ts[1].op = "add" PROVE Finds(t2, fs \cup ps, {}, rem)
  BY <1>4, <1>5, <1>6 DEF Finds
<1>12. ASSUME ts[1].op = "remove" PROVE Finds(t2, fs \ {ts[1].f}, ps, rem)
  <2>1. 1 \in At(ts, "remove")
    BY <1>1, <1>12
  <2>2. ASSUME NEW k \in At(t2, "remove") PROVE t2[k].f # ts[1].f
    <3>1. k + 1 # 1
      BY <1>1, <2>2
    <3>2. QED
      BY <1>4, <2>1, <2>2, <3>1 DEF Finds
  <2>3. QED
    BY <1>4, <1>5, <1>6, <1>8, <1>9, <1>12, <2>2 DEF Finds
<1>13. ASSUME ts[1].op = "close", NEW f2 PROVE Finds(t2, f2, ps, rem)
  <2>1. 1 \in At(ts, "close")
    BY <1>1, <1>13
  <2>2. ASSUME NEW k \in At(t2, "remove") PROVE FALSE
    <3>1. k \in Nat /\ k + 1 < 1
      BY <1>4, <2>1, <2>2 DEF Finds
    <3>2. QED
      BY <3>1
  <2>3. QED
    BY <1>9, <1>13, <2>2 DEF Finds
<1>14. QED
  BY <1>10, <1>11, <1>12, <1>13

\* A filter that was pending is there.
LEMMA FindsAdopts ==
  ASSUME NEW ts, NEW fs, NEW ps, NEW rem, Finds(ts, fs, ps, rem)
  PROVE  Finds(ts, fs \cup ps, {}, rem)
  BY DEF Finds

LEMMA NextRemoving ==
  ASSUME TypeOK, TypeOK', Opening, Connecting, Filters, Removing, Next
  PROVE  Removing'
<1>0. CtxType /\ ProxyType /\ tasks \in Seq(Task) /\ proxy.added \in Nat
  BY TypeParts, ProxyAssumption DEF ProxyType, QueueTypes
<1>1. /\ ~ctx.lost /\ Finds(tasks, Present, Pending, proxy.removing)
      /\ proxy.closes = 0 => 1..proxy.added \ proxy.removing \subseteq Present \cup Pending
  BY RemovingIs
<1>2. ASSUME SameFilters, ctx'.lost = ctx.lost, proxy'.removing = proxy.removing,
             proxy'.closes = 0 => proxy.closes = 0,
             Finds(tasks', Present, Pending, proxy.removing)
      PROVE  Removing'
  <2>1. Present' = Present /\ Pending' = Pending
    BY <1>2, StepFilters
  <2>2. QED
    BY <1>1, <1>2, <2>1, RemovingNext DEF SameFilters
<1>3. ASSUME NEW now \in CreateNow, InitProxy(now) PROVE Removing'
  <2>1. /\ SameFilters /\ ctx'.lost = ctx.lost /\ proxy'.removing = proxy.removing
        /\ proxy'.closes = proxy.closes
    BY <1>0, <1>3 DEF InitProxy, SameFilters, Opening, CtxType, ProxyType
  <2> DEFINE mid == IF now THEN tasks ELSE Append(tasks, Do("create"))
  <2>2. /\ mid \in Seq(Task) /\ Adds(tasks', mid, Do("open"))
        /\ IF now THEN mid = tasks ELSE Adds(mid, tasks, Do("create"))
    BY <1>0, <1>3, TheTasks DEF InitProxy, Adds
  <2> HIDE DEF mid
  <2>3. Finds(mid, Present, Pending, proxy.removing)
    BY <1>0, <1>1, <2>2, TheTasks, FindsPosts
  <2>4. Finds(tasks', Present, Pending, proxy.removing)
    BY <2>2, <2>3, TheTasks, FindsPosts
  <2>5. QED
    BY <1>2, <2>1, <2>4
<1>4. ASSUME NEW f \in Filter, AddFilter(f) PROVE Removing'
  <2>1. /\ Present' = Present /\ Pending' = Pending \cup {f}
        /\ f = proxy.added + 1 /\ proxy'.added = f /\ proxy'.removing = proxy.removing
    BY <1>4, StepFilters
  <2>2. /\ ctx'.lost = ctx.lost /\ proxy'.closes = proxy.closes /\ PostTask(Do("add"))
    BY <1>0, <1>4 DEF AddFilter, CtxType, ProxyType
  <2>3. Adds(tasks', tasks, Do("add")) /\ Do("add") \in Task /\ Do("add").op = "add"
    BY <2>2, TaskPosted, TheTasks
  <2>4. Finds(tasks', Present, Pending \cup {f}, proxy.removing)
    BY <1>0, <1>1, <2>3, FindsPosts
  <2>5. 1..f \subseteq 1..proxy.added \cup {f}
    BY <1>0, <2>1
  <2>6. QED
    BY <1>1, <2>1, <2>2, <2>4, <2>5, RemovingNext
<1>5. ASSUME NEW f \in Filter, RemoveFilter(f) PROVE Removing'
  <2> DEFINE t == [op |-> "remove", f |-> f]
  <2>1. /\ f \in 1..proxy.added \ proxy.removing /\ proxy.closes = 0 /\ PostTask(t)
        /\ proxy'.removing = proxy.removing \cup {f} /\ proxy'.added = proxy.added
        /\ proxy'.closes = proxy.closes /\ ctx' = ctx
    BY <1>0, <1>5 DEF RemoveFilter, ProxyType
  <2>2. t \in Task /\ t.op = "remove" /\ t.f = f
    BY TheTasks
  <2> HIDE DEF t
  <2>3. Adds(tasks', tasks, t)
    BY <2>1, <2>2, TaskPosted
  <2>4. At(tasks, "close") = {}
    BY <2>1 DEF Opening
  <2>5. Finds(tasks', Present, Pending, proxy.removing \cup {f})
    BY <1>0, <1>1, <2>1, <2>2, <2>3, <2>4, FindsPosts
  <2>6. Present' = Present /\ Pending' = Pending
    BY <2>1 DEF Present, Pending, ToSet
  <2>7. QED
    BY <1>1, <2>1, <2>5, <2>6, RemovingNext
<1>6. ASSUME Send \/ Close \/ ClearIPCTaskRunner PROVE Removing'
  <2>1. proxy.closes \in Nat
    BY <1>0, ProxyAssumption DEF ProxyType
  <2>2. /\ SameFilters /\ UNCHANGED ctx /\ proxy'.removing = proxy.removing
        /\ proxy'.closes = proxy.closes \/ proxy'.closes = proxy.closes + 1
    BY <1>0, <1>6 DEF Send, Close, ClearIPCTaskRunner, SameFilters, ProxyType
  <2>3. PostTask(Do("send")) \/ PostTask(Do("close")) \/ UNCHANGED tasks
    BY <1>6 DEF Send, Close, ClearIPCTaskRunner
  <2>4. Finds(tasks', Present, Pending, proxy.removing)
    BY <1>0, <1>1, <2>3, TaskPosted, TheTasks, FindsPosts
  <2>5. QED
    BY <1>2, <2>1, <2>2, <2>4
<1>7. ASSUME OnChannelConnected PROVE Removing'
  <2>1. ctx' = [Adopt(ctx) EXCEPT !.channel = "connected", !.pid = TRUE] /\ UNCHANGED tasks
    BY <1>7 DEF OnChannelConnected
  <2>2. ctx'.lost = ctx.lost
    BY <1>0, <2>1, AdoptIs
  <2>3. Present' = Present \cup Pending /\ Pending' = {} /\ UNCHANGED proxy
    BY <1>7, StepFilters
  <2>4. Finds(tasks, Present \cup Pending, {}, proxy.removing)
    BY <1>1, FindsAdopts
  <2>5. QED
    BY <1>1, <2>1, <2>2, <2>3, <2>4, RemovingNext
<1>8. ASSUME ChannelLost \/ ListenerThread \/ \E k \in 0..Len(ctx.filters) : OnMessageReceived(k)
      PROVE  Removing'
  <2>1. /\ SameFilters /\ UNCHANGED tasks /\ ctx'.lost = ctx.lost
        /\ proxy'.removing = proxy.removing /\ proxy'.closes = proxy.closes
    <3>1. CASE ChannelLost
      BY <1>0, <3>1 DEF ChannelLost, SameFilters, CtxType
    <3>2. CASE ListenerThread
      BY <1>0, <3>2, ListenerHandles DEF SameFilters, ProxyType
    <3>3. CASE \E k \in 0..Len(ctx.filters) : OnMessageReceived(k)
      BY <3>3 DEF OnMessageReceived, SameFilters
    <3>4. QED
      BY <1>8, <3>1, <3>2, <3>3
  <2>2. QED
    BY <1>1, <1>2, <2>1
<1>9. ASSUME NEW op, Runs(op), op \notin {"add", "remove", "close"}, UNCHANGED proxy,
             ctx'.filters = ctx.filters, ctx'.pending = ctx.pending, ctx'.lost = ctx.lost
      PROVE  Removing'
  <2>1. Drops(tasks', tasks) /\ tasks[1].op = op
    BY <1>9, TaskRun
  <2>2. Finds(tasks', Present, Pending, proxy.removing)
    BY <1>0, <1>1, <1>9, <2>1, FindsRuns
  <2>3. Present' = Present /\ Pending' = Pending
    BY <1>9 DEF Present, Pending, ToSet
  <2>4. QED
    BY <1>1, <1>9, <2>2, <2>3, RemovingNext
<1>10. ASSUME CreateChannel \/ \E ok \in BOOLEAN : OnChannelOpened(ok) \/ OnSendMessage(ok)
       PROVE  Removing'
  <2>1. /\ Runs("create") \/ Runs("open") \/ Runs("send")
        /\ UNCHANGED proxy
        /\ ctx'.filters = ctx.filters /\ ctx'.pending = ctx.pending /\ ctx'.lost = ctx.lost
    BY <1>0, <1>10 DEF CreateChannel, OnChannelOpened, OnSendMessage, CtxType
  <2>2. QED
    BY <1>9, <2>1
<1>11. ASSUME OnAddFilter PROVE Removing'
  <2>1. Drops(tasks', tasks) /\ tasks[1].op = "add"
    BY <1>11, TaskRun DEF OnAddFilter
  <2>2. Present' = Present \cup Pending /\ Pending' = {} /\ UNCHANGED proxy
    BY <1>11, StepFilters
  <2>3. ctx'.lost = ctx.lost
    BY <1>0, <1>11, AdoptIs DEF OnAddFilter
  <2>4. Finds(tasks', Present \cup Pending, {}, proxy.removing)
    BY <1>0, <1>1, <2>1, FindsRuns
  <2>5. QED
    BY <1>1, <2>2, <2>3, <2>4, RemovingNext
<1>12. ASSUME RemoveTask PROVE Removing'
  <2>1. Drops(tasks', tasks) /\ tasks[1].op = "remove"
    BY <1>12, TaskRun DEF RemoveTask
  <2> DEFINE f == tasks[1].f
  <2>2. /\ OnRemoveFilter(f) /\ f \in Filter /\ f \in ToSet(ctx.filters) /\ f \in proxy.removing
        /\ UNCHANGED <<proxy, arrived>>
    BY <1>12, RemoveFinds DEF RemoveTask
  <2>3. Finds(tasks', Present \ {f}, Pending, proxy.removing)
    BY <1>0, <1>1, <2>1, FindsRuns
  <2> HIDE DEF f
  <2>4. Removed(f) /\ ctx'.lost = ctx.lost
    BY <1>0, <2>2 DEF OnRemoveFilter, Removed, CtxType
  <2>5. Present' = Present \ {f} /\ Pending' = Pending
    BY <2>2, <2>4, StepFilters
  <2>6. QED
    BY <1>1, <2>2, <2>3, <2>4, <2>5, RemovingNext
<1>13. ASSUME OnChannelClosed PROVE Removing'
  <2>1. Drops(tasks', tasks) /\ tasks[1].op = "close" /\ UNCHANGED proxy
    BY <1>13, TaskRun DEF OnChannelClosed
  <2>2. 1 \in At(tasks, "close")
    BY <1>0, <2>1, AtDrops
  <2>3. proxy'.closes # 0
    BY <2>1, <2>2 DEF Opening
  <2>4. ctx'.pending = ctx.pending /\ ctx'.lost = ctx.lost
    BY <1>0, <1>13 DEF OnChannelClosed, CtxType
  <2>5. Finds(tasks', Present', Pending, proxy.removing)
    BY <1>0, <1>1, <2>1, FindsRuns
  <2>6. Pending' = Pending
    BY <2>4 DEF Pending, ToSet
  <2>7. QED
    BY <1>1, <2>1, <2>3, <2>4, <2>5, <2>6, RemovingNext
<1>14. QED
  BY <1>3, <1>4, <1>5, <1>6, <1>7, <1>8, <1>10, <1>11, <1>12, <1>13
     DEF Next, Owner, ChannelEvent, IpcTask

(***************************************************************************)
(* The theorems.                                                           *)
(***************************************************************************)
Logs == \A f \in Filter : Log(f)

Inv == /\ TypeOK /\ Opening /\ Connecting
       /\ Hearing /\ DeliveredOnceInOrder
       /\ Filters /\ Logs /\ Removing /\ Staying /\ MissesNothing

LEMMA InitInv ==
  ASSUME Init
  PROVE  Inv
<1>1. TypeOK
  BY ProxyAssumption DEF Init, TypeOK
<1>2. \A op : At(tasks, op) = {} /\ At(arrived, op) = {} /\ At(heard, op) = {}
  BY DEF Init, At
<1>3. Opening
  BY <1>2 DEF Init, Opening
<1>4. Connecting
  BY <1>2 DEF Init, Connecting
<1>5. Hearing
  BY <1>2 DEF Init, Hearing, ConnectedFirst
<1>6. DeliveredOnceInOrder
  <2>1. Only(<<>>, NotHandled) = <<>>
    BY OnlyEmpty
  <2>2. arrived = <<>> /\ heard = <<>> /\ posted = <<>> /\ urgent = <<>>
    BY DEF Init
  <2>3. Unhandled = <<>>
    BY <2>1, <2>2 DEF Unhandled, NotHandled
  <2>4. Due = <<>>
    BY <2>3 DEF Due
  <2>5. UrgentCalls = <<>>
    BY <2>2 DEF UrgentCalls
  <2>6. \A S : Only(<<>>, S) = <<>> /\ <<>> \o <<>> = <<>>
    BY OnlyEmpty
  <2>7. QED
    BY <2>2, <2>4, <2>5, <2>6 DEF DeliveredOnceInOrder, InOrder, Overtaking
<1>7. Empty(ctx.filters) /\ Empty(ctx.pending)
  BY DEF Init, Empty
<1>8. Present = {} /\ Pending = {}
  BY <1>7, EmptyIs DEF Present, Pending
<1>9. Filters
  BY <1>7, <1>8, EmptyIs DEF Filters, Present, Pending
<1>10. Logs
  <2>1. SUFFICES ASSUME NEW f \in Filter PROVE Log(f)
    BY DEF Logs
  <2>2. told[f] = <<>>
    BY DEF Init
  <2>3. LogIs(told[f], f \in Present, New(f), ctx.pid, ctx.channel = "destroyed")
    BY <1>8, <2>2, NothingTold DEF LogIs
  <2>4. QED
    BY <2>3, LogAre
<1>11. Removing
  <2>1. ~ctx.lost /\ proxy.added = 0
    BY DEF Init
  <2>2. Finds(tasks, Present, Pending, proxy.removing)
    BY <1>2, <1>8 DEF Finds
  <2>3. QED
    BY <1>1, <2>1, <2>2, RemovingIs
<1>12. Staying /\ MissesNothing
  BY DEF Init, Staying, MissesNothing
<1>13. QED
  BY <1>1, <1>3, <1>4, <1>5, <1>6, <1>9, <1>10, <1>11, <1>12 DEF Inv

LEMMA NextTypes ==
  ASSUME TypeOK, Opening, Connecting, Filters, Removing, Next
  PROVE  TypeOK'
  BY OwnerTypes, EventTypes, TaskTypes, ListenerTypes DEF Next

LEMMA NextInv ==
  ASSUME Inv, Next
  PROVE  Inv'
<1>1. TypeOK'
  BY NextTypes DEF Inv
<1>2. Opening' /\ Connecting'
  BY NextOpening, NextConnecting DEF Inv
<1>3. Hearing' /\ DeliveredOnceInOrder'
  BY NextHearing, NextDelivered DEF Inv
<1>4. Filters' /\ Staying' /\ MissesNothing'
  BY NextFilters, NextStaying, NextMisses DEF Inv
<1>5. Removing'
  BY <1>1, NextRemoving DEF Inv
<1>6. Logs'
  <2>1. \A f \in Filter : Log(f)'
    BY NextLog DEF Inv, Logs
  <2>2. QED
    BY <2>1 DEF Logs
<1>7. QED
  BY <1>1, <1>2, <1>3, <1>4, <1>5, <1>6 DEF Inv

LEMMA StutterInv ==
  ASSUME Inv, UNCHANGED vars
  PROVE  Inv'
<1>1. UNCHANGED <<proxy, ctx, tasks, posted, urgent, arrived, told, heard>>
  BY DEF vars
<1>2. TypeOK'
  BY <1>1 DEF Inv, TypeOK
<1>3. Opening' /\ Connecting' /\ Hearing'
  BY <1>1 DEF Inv, Opening, Connecting, Hearing, ConnectedFirst, At
<1>4. DeliveredOnceInOrder'
  <2>1. Due' = Due
    BY <1>1, DueIs DEF Inv
  <2>2. QED
    BY <1>1, <2>1, DeliveredIs, DeliveredNext DEF Inv
<1>5. Filters' /\ Removing' /\ Staying' /\ MissesNothing'
  BY <1>1 DEF Inv, Filters, Sorted, Removing, Staying, MissesNothing, At, ToSet
<1>6. Logs'
  BY <1>1 DEF Inv, Logs, Log, At, ToSet
<1>7. QED
  BY <1>2, <1>3, <1>4, <1>5, <1>6 DEF Inv

LEMMA Invariance == Spec => []Inv
<1>1. Init => Inv
  BY InitInv
<1>2. Inv /\ [Next]_vars => Inv'
  BY NextInv, StutterInv
<1>3. QED
  BY <1>1, <1>2, PTL DEF Spec

\* Every variable has the shape of the code's data, whatever the numbers of filters,
\* messages and calls: refs, the references of Context to itself, is 0 or 1.
THEOREM TypeCorrect == Spec => []TypeOK
<1>1. Inv => TypeOK
  BY DEF Inv
<1>2. QED
  BY <1>1, Invariance, PTL

\* Until Close the listener hears what no filter handled, once and in order, and it hears
\* OnChannelConnected first, once and with the peer's pid.
THEOREM ListenerCorrect == Spec => []ListenerContract
<1>1. Inv => ListenerContract
  BY DEF Inv, Hearing, ListenerContract
<1>2. QED
  BY <1>1, Invariance, PTL

\* A filter hears nothing after OnFilterRemoved, OnChannelConnected once and before any
\* message, and is removed before the channel it was given is gone.
THEOREM FiltersCorrect == Spec => []FilterContract
<1>1. Inv => FilterContract
  BY DEF Inv, Logs, Log, FilterContract
<1>2. QED
  BY <1>1, Invariance, PTL

\* A filter added before the peer connects misses no message that reaches it, and a filter
\* to be removed is found.
THEOREM FiltersReachedCorrect == Spec => []FiltersReached
<1>1. Inv => FiltersReached
  BY DEF Inv, Removing, FiltersReached, RemovedFilterIsFound
<1>2. QED
  BY <1>1, Invariance, PTL

=============================================================================
