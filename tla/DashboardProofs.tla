-------------------------- MODULE DashboardProofs --------------------------
(***************************************************************************)
(* Proofs about Dashboard, for any providers and models, window, bound of  *)
(* the series, and number of requests, snapshots and seconds.              *)
(***************************************************************************)
EXTENDS Dashboard, Induction, FiniteSetTheorems, FunctionTheorems, TLAPS

-----------------------------------------------------------------------------
(* Keys and pairs.                                                         *)

Words == STRING \cup {":"}

LEMMA SameSeq ==
    ASSUME NEW S, NEW s \in Seq(S), NEW t \in Seq(S), Len(s) = Len(t),
           \A i \in 1 .. Len(s) : s[i] = t[i]
    PROVE  s = t
OBVIOUS

LEMMA OneOf ==
    ASSUME NEW S, NEW e \in S
    PROVE  <<e>> \in Seq(S) /\ Len(<<e>>) = 1 /\ <<e>>[1] = e
OBVIOUS

\* u is s and then t.
Both(S, s, t, u) ==
    /\ u \in Seq(S) /\ Len(u) = Len(s) + Len(t)
    /\ \A i \in 1 .. Len(s) : u[i] = s[i]
    /\ \A i \in 1 .. Len(t) : u[Len(s) + i] = t[i]

LEMMA JoinedWords ==
    ASSUME NEW S, NEW s \in Seq(S), NEW t \in Seq(S)
    PROVE  Both(S, s, t, s \o t)
<1>1. /\ s \o t \in Seq(S) /\ Len(s \o t) = Len(s) + Len(t)
      /\ \A i \in 1 .. Len(s) : (s \o t)[i] = s[i]
      /\ \A i \in 1 .. Len(t) : (s \o t)[Len(s) + i] = t[i]
  OBVIOUS
<1> QED
  BY <1>1 DEF Both

LEMMA WiderSeq ==
    ASSUME NEW S, NEW T, S \subseteq T, NEW s \in Seq(S)
    PROVE  s \in Seq(T)
OBVIOUS

\* k is a and b with a colon between them.
Joins(k, a, b) ==
    /\ k \in Seq(Words) /\ Len(k) = Len(a) + 1 + Len(b)
    /\ \A i \in 1 .. Len(a) : k[i] = a[i]
    /\ k[Len(a) + 1] = ":"
    /\ \A i \in 1 .. Len(b) : k[Len(a) + 1 + i] = b[i]

LEMMA WithColon ==
    ASSUME NEW a \in Seq(Words), NEW b \in Seq(Words)
    PROVE  Joins(a \o <<":">> \o b, a, b)
<1> DEFINE one == <<":">>
           c == a \o one
           k == c \o b
<1>1. one \in Seq(Words) /\ Len(one) = 1 /\ one[1] = ":"
  <2>1. ":" \in Words
    BY DEF Words
  <2> QED
    BY <2>1, OneOf
<1> HIDE DEF one
<1>2. /\ c \in Seq(Words) /\ Len(c) = Len(a) + 1
      /\ \A i \in 1 .. Len(a) : c[i] = a[i]
      /\ c[Len(a) + 1] = ":"
  <2>1. /\ c \in Seq(Words) /\ Len(c) = Len(a) + 1
        /\ \A i \in 1 .. Len(a) : c[i] = a[i]
        /\ c[Len(a) + 1] = one[1]
    <3>1. Both(Words, a, one, c)
      BY <1>1, JoinedWords, Zenon
    <3> HIDE DEF c
    <3> QED
      BY <1>1, <3>1 DEF Both
  <2> QED
    BY <1>1, <2>1
<1> HIDE DEF c
<1>3. /\ k \in Seq(Words) /\ Len(k) = Len(c) + Len(b)
      /\ \A i \in 1 .. Len(c) : k[i] = c[i]
      /\ \A i \in 1 .. Len(b) : k[Len(c) + i] = b[i]
  <2>1. Both(Words, c, b, k)
    BY <1>2, JoinedWords, Zenon
  <2> QED
    BY <2>1, Zenon DEF Both
<1> HIDE DEF k
<1>4. Len(a) \in Nat /\ Len(b) \in Nat
  OBVIOUS
<1>5. /\ \A i \in 1 .. Len(a) : i \in 1 .. Len(c)
      /\ Len(a) + 1 \in 1 .. Len(c)
  BY <1>2, <1>4
<1>6. Joins(k, a, b)
  BY <1>2, <1>3, <1>4, <1>5 DEF Joins
<1> QED
  BY <1>6 DEF k, c, one

LEMMA KeyJoins ==
    ASSUME NEW pair \in Pairs
    PROVE  /\ pair.provider \in Seq(Words) /\ pair.model \in Seq(Words)
           /\ pair = [provider |-> pair.provider, model |-> pair.model]
           /\ Joins(Key(pair), pair.provider, pair.model)
<1>1. pair \in [provider : Seq(STRING), model : Seq(STRING)]
  BY DashboardAssumption
<1>2. /\ pair.provider \in Seq(Words) /\ pair.model \in Seq(Words)
      /\ pair = [provider |-> pair.provider, model |-> pair.model]
  <2>1. /\ pair.provider \in Seq(STRING) /\ pair.model \in Seq(STRING)
        /\ pair = [provider |-> pair.provider, model |-> pair.model]
    BY <1>1
  <2>2. STRING \subseteq Words
    BY DEF Words
  <2> QED
    BY <2>1, <2>2, WiderSeq
<1> QED
  BY <1>2, WithColon DEF Key

\* The first colon of a key.
LEMMA FirstColon ==
    ASSUME NEW k \in Seq(Words), Colons(k) # {}
    PROVE  /\ Lowest(Colons(k)) \in Colons(k)
           /\ \A j \in Colons(k) : Lowest(Colons(k)) <= j
<1>1. Colons(k) \subseteq Nat
  BY DEF Colons
<1>2. \E n \in Colons(k) : \A m \in Colons(k) : n <= m
  BY <1>1, Least
<1> QED
  BY <1>2 DEF Lowest

\* What Split makes of a key, Key makes the key of.
LEMMA KeyOfSplit ==
    ASSUME NEW key \in Keys
    PROVE  /\ Key(Split(key)) = key
           /\ key # Total
<1>1. PICK pair \in Pairs : key = Key(pair)
  BY DEF Keys
<1> DEFINE a == pair.provider
           b == pair.model
<1>2. a \in Seq(Words) /\ b \in Seq(Words) /\ Joins(key, a, b)
  BY <1>1, KeyJoins
<1> HIDE DEF a, b
<1>3. key \in Seq(Words) /\ Len(key) = Len(a) + 1 + Len(b) /\ key[Len(a) + 1] = ":"
  BY <1>2 DEF Joins
<1>4. Len(a) \in Nat /\ Len(b) \in Nat /\ Len(key) \in Nat
      /\ DOMAIN key = 1 .. Len(key) /\ Len(a) + 1 \in 1 .. Len(key)
  BY <1>2, <1>3
<1>5. Len(a) + 1 \in Colons(key)
  BY <1>3, <1>4 DEF Colons
<1> DEFINE i == Lowest(Colons(key))
<1>6. i \in 1 .. Len(key) /\ key[i] = ":"
  BY <1>3, <1>4, <1>5, FirstColon DEF Colons
<1> DEFINE p == SubSeq(key, 1, i - 1)
           m == SubSeq(key, i + 1, Len(key))
           k == p \o <<":">> \o m
<1>7. Key(Split(key)) = k
  BY DEF Key, Split
<1> HIDE DEF i
<1>8. /\ p \in Seq(Words) /\ Len(p) = i - 1
      /\ \A j \in 1 .. i - 1 : p[j] = key[j]
  BY <1>3, <1>4, <1>6
<1>9. /\ m \in Seq(Words) /\ Len(m) = Len(key) - i
      /\ \A j \in 1 .. Len(key) - i : m[j] = key[i + j]
  BY <1>3, <1>4, <1>6
<1>10. Joins(k, p, m)
  BY <1>8, <1>9, WithColon
<1> HIDE DEF p, m, k
<1>11. k = key
  <2>0. /\ k \in Seq(Words) /\ Len(k) = Len(p) + 1 + Len(m)
        /\ \A j \in 1 .. Len(p) : k[j] = p[j]
        /\ k[Len(p) + 1] = ":"
        /\ \A j \in 1 .. Len(m) : k[Len(p) + 1 + j] = m[j]
    BY <1>10 DEF Joins
  <2>4. Len(p) + 1 = i /\ Len(p) + 1 + Len(m) = Len(key)
    BY <1>4, <1>6, <1>8, <1>9
  <2>1. /\ k \in Seq(Words) /\ Len(k) = Len(key)
        /\ \A j \in 1 .. i - 1 : k[j] = key[j]
        /\ k[i] = ":"
        /\ \A j \in 1 .. Len(key) - i : k[i + j] = key[i + j]
    BY <1>8, <1>9, <2>0, <2>4
  <2>2. \A j \in 1 .. Len(key) : j \in 1 .. i - 1 \/ j = i
                                 \/ (j - i \in 1 .. Len(key) - i /\ j = i + (j - i))
    BY <1>4, <1>6
  <2>3. \A j \in 1 .. Len(key) : k[j] = key[j]
    BY <1>6, <2>1, <2>2
  <2> QED
    BY <1>3, <2>1, <2>3, SameSeq
<1>12. key # <<>>
  BY <1>4
<1> QED
  BY <1>7, <1>11, <1>12 DEF Total

\* What Key makes of a pair, Split makes the pair of, if no colon is in the
\* name of the provider.
LEMMA SplitOfKey ==
    ASSUME NEW pair \in Pairs, \A i \in DOMAIN pair.provider : pair.provider[i] # ":"
    PROVE  Split(Key(pair)) = pair
<1> DEFINE a == pair.provider
           b == pair.model
           key == Key(pair)
<1>1. a \in Seq(Words) /\ b \in Seq(Words) /\ Joins(key, a, b)
      /\ pair = [provider |-> a, model |-> b]
  BY KeyJoins
<1>2. \A i \in 1 .. Len(a) : a[i] # ":"
  BY <1>1
<1> HIDE DEF a, b, key
<1>3. /\ key \in Seq(Words) /\ Len(key) = Len(a) + 1 + Len(b)
      /\ \A i \in 1 .. Len(a) : key[i] = a[i]
      /\ key[Len(a) + 1] = ":"
      /\ \A i \in 1 .. Len(b) : key[Len(a) + 1 + i] = b[i]
  BY <1>1 DEF Joins
<1>4. Len(a) \in Nat /\ Len(b) \in Nat /\ DOMAIN key = 1 .. Len(key)
  BY <1>1, <1>3
<1>5. Len(a) + 1 \in Colons(key)
  BY <1>3, <1>4 DEF Colons
<1> DEFINE i == Lowest(Colons(key))
<1>6. i \in 1 .. Len(key) /\ key[i] = ":" /\ i <= Len(a) + 1
  BY <1>3, <1>4, <1>5, FirstColon DEF Colons
<1>7. i = Len(a) + 1
  <2> HIDE DEF i
  <2> SUFFICES ASSUME i # Len(a) + 1 PROVE FALSE
    OBVIOUS
  <2>1. i \in 1 .. Len(a)
    BY <1>4, <1>6
  <2> QED
    BY <1>2, <1>3, <1>6, <2>1
<1>8. SubSeq(key, 1, i - 1) = a
  <2>1. i - 1 = Len(a)
    BY <1>4, <1>7
  <2> HIDE DEF i
  <2>2. SubSeq(key, 1, Len(a)) \in Seq(Words) /\ Len(SubSeq(key, 1, Len(a))) = Len(a)
        /\ \A j \in 1 .. Len(a) : SubSeq(key, 1, Len(a))[j] = key[j]
    BY <1>3, <1>4
  <2>3. SubSeq(key, 1, Len(a)) = a
    BY <1>1, <1>3, <2>2, SameSeq
  <2> QED
    BY <2>1, <2>3
<1>9. SubSeq(key, i + 1, Len(key)) = b
  <2> HIDE DEF i
  <2> DEFINE t == SubSeq(key, i + 1, Len(key))
  <2>2. t \in Seq(Words) /\ Len(t) = Len(b)
        /\ \A j \in 1 .. Len(b) : t[j] = key[i + j]
    BY <1>3, <1>4, <1>7
  <2>3. \A j \in 1 .. Len(b) : t[j] = b[j]
    BY <1>3, <1>7, <2>2
  <2> QED
    BY <1>1, <2>2, <2>3, SameSeq
<1>10. Split(key) = [provider |-> a, model |-> b]
  BY <1>8, <1>9 DEF Split
<1> QED
  BY <1>1, <1>10 DEF key

-----------------------------------------------------------------------------
(* The samples of a window.                                                *)

Samples == [at : Nat, requests : Nat]

\* q has the samples t[k] of the k in K, in the order of the k.
Lists(q, K, t) ==
    /\ q \in Seq(Samples) /\ K \subseteq Nat
    /\ \E f \in [1 .. Len(q) -> K] :
          /\ \A i, j \in 1 .. Len(q) : i < j => f[i] < f[j]
          /\ \A k \in K : \E i \in 1 .. Len(q) : f[i] = k
          /\ \A i \in 1 .. Len(q) : q[i] = t[f[i]]

LEMMA ListsAppended ==
    ASSUME NEW q, NEW K, NEW t, Lists(q, K, t), NEW k \in Nat, t[k] \in Samples,
           \A j \in K : j < k
    PROVE  Lists(Append(q, t[k]), K \cup {k}, t)
<1> DEFINE n == Len(q)
           v == Append(q, t[k])
<1>1. q \in Seq(Samples) /\ K \subseteq Nat /\ n \in Nat
  BY DEF Lists
<1>2. PICK f \in [1 .. n -> K] :
          /\ \A i, j \in 1 .. n : i < j => f[i] < f[j]
          /\ \A m \in K : \E i \in 1 .. n : f[i] = m
          /\ \A i \in 1 .. n : q[i] = t[f[i]]
  BY DEF Lists
<1>3. /\ v \in Seq(Samples) /\ Len(v) = n + 1 /\ v[n + 1] = t[k]
      /\ \A i \in 1 .. n : v[i] = q[i]
  BY <1>1
<1> HIDE DEF n, v
<1> DEFINE g == [i \in 1 .. n + 1 |-> IF i = n + 1 THEN k ELSE f[i]]
<1>4. \A i \in 1 .. n + 1 : i = n + 1 \/ (i \in 1 .. n /\ i # n + 1)
  BY <1>1
<1>5. n + 1 \in 1 .. n + 1 /\ \A i \in 1 .. n : i \in 1 .. n + 1 /\ i # n + 1
  BY <1>1
<1>6. g \in [1 .. n + 1 -> K \cup {k}] /\ g[n + 1] = k /\ \A i \in 1 .. n : g[i] = f[i]
  BY <1>2, <1>4, <1>5
<1> HIDE DEF g
<1>7. ASSUME NEW i \in 1 .. n + 1, NEW j \in 1 .. n + 1, i < j PROVE g[i] < g[j]
  <2>1. i \in 1 .. n
    BY <1>1, <1>7
  <2>2. CASE j \in 1 .. n
    BY <1>2, <1>6, <1>7, <2>1, <2>2
  <2>3. CASE j = n + 1
    BY <1>2, <1>6, <2>1, <2>3
  <2> QED
    BY <1>4, <2>2, <2>3
<1>8. ASSUME NEW m \in K \cup {k} PROVE \E i \in 1 .. n + 1 : g[i] = m
  BY <1>2, <1>5, <1>6
<1>9. \A i \in 1 .. n + 1 : v[i] = t[g[i]]
  BY <1>2, <1>3, <1>4, <1>6
<1>10. K \cup {k} \subseteq Nat
  BY <1>1
<1>11. /\ g \in [1 .. Len(v) -> K \cup {k}]
       /\ \A i, j \in 1 .. Len(v) : i < j => g[i] < g[j]
       /\ \A m \in K \cup {k} : \E i \in 1 .. Len(v) : g[i] = m
       /\ \A i \in 1 .. Len(v) : v[i] = t[g[i]]
  BY <1>3, <1>6, <1>7, <1>8, <1>9
<1>12. Lists(v, K \cup {k}, t)
  BY <1>3, <1>10, <1>11 DEF Lists
<1> QED
  BY <1>12 DEF v

LEMMA ListsSame ==
    ASSUME NEW q, NEW K, NEW t, NEW u, Lists(q, K, t), \A k \in K : t[k] = u[k]
    PROVE  Lists(q, K, u)
<1>1. PICK f \in [1 .. Len(q) -> K] :
          /\ \A i, j \in 1 .. Len(q) : i < j => f[i] < f[j]
          /\ \A m \in K : \E i \in 1 .. Len(q) : f[i] = m
          /\ \A i \in 1 .. Len(q) : q[i] = t[f[i]]
  BY DEF Lists
<1>2. \A i \in 1 .. Len(q) : q[i] = u[f[i]]
  BY <1>1
<1> QED
  BY <1>1, <1>2 DEF Lists

\* Kept keeps those that are within the window, in their order.
LEMMA KeptLists ==
    ASSUME NEW q, NEW K, NEW t, Lists(q, K, t)
    PROVE  Lists(Kept(q), {k \in K : t[k].at >= Minus(clock, Window)}, t)
<1> DEFINE n == Len(q)
           Young(s) == s.at >= Minus(clock, Window)
           Step == [z \in Seq(Samples) \X (1 .. n) |->
                       IF Young(q[z[2]]) THEN Append(z[1], q[z[2]]) ELSE z[1]]
           Is(g) == g = [i \in 0 .. n |-> IF i = 0 THEN <<>>
                                          ELSE IF q[i].at >= Minus(clock, Window)
                                               THEN Append(g[i - 1], q[i])
                                          ELSE g[i - 1]]
           kept == CHOOSE g : Is(g)
<1>1. q \in Seq(Samples) /\ K \subseteq Nat /\ n \in Nat /\ <<>> \in Seq(Samples)
  BY DEF Lists
<1>2. PICK f \in [1 .. n -> K] :
          /\ \A i, j \in 1 .. n : i < j => f[i] < f[j]
          /\ \A m \in K : \E i \in 1 .. n : f[i] = m
          /\ \A i \in 1 .. n : q[i] = t[f[i]]
  BY DEF Lists
<1>3. \A i \in 1 .. n : q[i] \in Samples
  BY <1>1
<1>4. IsStep(Step, Seq(Samples), n)
  <2>1. ASSUME NEW s \in Seq(Samples), NEW i \in 1 .. n
        PROVE  Append(s, q[i]) \in Seq(Samples)
    BY <1>3
  <2> HIDE DEF Young
  <2> QED
    BY <2>1 DEF IsStep
<1>5. Kept(q) = kept[n]
  BY DEF Kept
<1> HIDE DEF Step
<1>6. PICK g : Follows(g, Seq(Samples), <<>>, n, Step)
  BY <1>1, <1>4, Recursion
<1>7. ASSUME NEW i \in 1 .. n
      PROVE  g[i] = IF Young(q[i]) THEN Append(g[i - 1], q[i]) ELSE g[i - 1]
  <2>1. i - 1 \in 0 .. n
    BY <1>1
  <2>2. g[i - 1] \in Seq(Samples)
    BY <1>6, <2>1 DEF Follows
  <2> HIDE DEF Young
  <2> QED
    BY <1>6, <2>2 DEF Follows, Step
<1>8. Is(g)
  <2>1. \A i \in 0 .. n : i = 0 \/ (i \in 1 .. n /\ i # 0)
    BY <1>1
  <2>2. g = [i \in 0 .. n |-> g[i]] /\ g[0] = <<>>
    BY <1>6 DEF Follows
  <2> DEFINE h == [i \in 0 .. n |-> IF i = 0 THEN <<>>
                                    ELSE IF q[i].at >= Minus(clock, Window)
                                         THEN Append(g[i - 1], q[i])
                                    ELSE g[i - 1]]
  <2>3. ASSUME NEW i \in 0 .. n PROVE g[i] = h[i]
    <3>1. CASE i = 0
      BY <2>2, <3>1
    <3>2. CASE i \in 1 .. n /\ i # 0
      BY <1>7, <3>2
    <3> QED
      BY <2>1, <3>1, <3>2
  <2>4. h = [i \in 0 .. n |-> h[i]]
    OBVIOUS
  <2> HIDE DEF h
  <2>5. [i \in 0 .. n |-> g[i]] = [i \in 0 .. n |-> h[i]]
    BY <2>3
  <2>6. g = [i \in 0 .. n |-> g[i]]
    BY <2>2
  <2> HIDE DEF Is, kept, Young
  <2>7. g = h
    BY <2>4, <2>5, <2>6, Zenon
  <2> QED
    BY <2>7, Zenon DEF h, Is
<1>9. Is(kept)
  BY <1>8, Zenon
<1>10. ASSUME NEW i \in 1 .. n
       PROVE  kept[i] = IF Young(q[i]) THEN Append(kept[i - 1], q[i]) ELSE kept[i - 1]
  <2> HIDE DEF kept
  <2>1. i \in 0 .. n /\ i # 0
    BY <1>1
  <2> QED
    BY <1>9, <2>1
<1>11. kept[0] = <<>>
  <2> HIDE DEF kept
  <2>1. 0 \in 0 .. n
    BY <1>1
  <2> QED
    BY <1>9, <2>1
<1> HIDE DEF kept, Is
<1> DEFINE Upto(i) == {f[j] : j \in {m \in 1 .. i : m \in 1 .. n /\ Young(q[m])}}
           P == {i \in Nat : Lists(kept[i], Upto(i), t)}
<1>12. 0 \in P
  <2>1. Upto(0) = {}
    OBVIOUS
  <2>2. Lists(<<>>, {}, t)
    <3>1. <<>> \in Seq(Samples) /\ Len(<<>>) = 0 /\ 1 .. 0 = {}
      OBVIOUS
    <3>2. [i \in 1 .. 0 |-> 0] \in [1 .. 0 -> {}]
      BY <3>1
    <3> QED
      BY <3>1, <3>2 DEF Lists
  <2> QED
    BY <1>11, <2>1, <2>2
<1>13. ASSUME NEW i \in 1 .. n, i - 1 \in P PROVE i \in P
  <2>1. Lists(kept[i - 1], Upto(i - 1), t) /\ i \in Nat
    <3>1. i \in Nat
      BY <1>1
    <3> HIDE DEF Upto
    <3> QED
      BY <1>13, <3>1
  <2>2. q[i] = t[f[i]] /\ q[i] \in Samples /\ f[i] \in Nat
    BY <1>1, <1>2, <1>3
  <2>3. \A m : m \in 1 .. i <=> m \in 1 .. i - 1 \/ m = i
    BY <1>1
  <2>4. CASE Young(q[i])
    <3>1. Upto(i) = Upto(i - 1) \cup {f[i]}
      <4> HIDE DEF Young
      <4> QED
        BY <2>3, <2>4
    <3>2. \A j \in Upto(i - 1) : j < f[i]
      <4>1. ASSUME NEW m \in 1 .. i - 1, m \in 1 .. n PROVE f[m] < f[i]
        BY <1>1, <1>2, <4>1
      <4> HIDE DEF Young
      <4> QED
        BY <4>1
    <3>3. kept[i] = Append(kept[i - 1], t[f[i]])
      BY <1>10, <2>2, <2>4
    <3> HIDE DEF Upto, Young
    <3>4. Lists(Append(kept[i - 1], t[f[i]]), Upto(i - 1) \cup {f[i]}, t)
      BY <2>1, <2>2, <3>2, ListsAppended
    <3> QED
      BY <2>1, <3>1, <3>3, <3>4
  <2>5. CASE ~Young(q[i])
    <3>1. Upto(i) = Upto(i - 1)
      <4> HIDE DEF Young
      <4> QED
        BY <2>3, <2>5
    <3>2. kept[i] = kept[i - 1]
      BY <1>10, <2>5
    <3> QED
      BY <2>1, <3>1, <3>2
  <2> QED
    BY <2>4, <2>5
<1>14. Lists(kept[n], Upto(n), t)
  <2> HIDE DEF P
  <2>1. n \in P
    <3>1. n \in 0 .. n
      BY <1>1
    <3> QED
      BY <1>1, <1>12, <1>13, <3>1, InductionUpTo
  <2> QED
    BY <2>1 DEF P
<1>15. Upto(n) = {k \in K : t[k].at >= Minus(clock, Window)}
  <2>1. Upto(n) = {f[j] : j \in {m \in 1 .. n : Young(q[m])}}
    <3> HIDE DEF Young
    <3> QED
      OBVIOUS
  <2> QED
    BY <1>2, <2>1
<1> QED
  BY <1>5, <1>14, <1>15

-----------------------------------------------------------------------------
(* Types.                                                                  *)

Counts == [requests : Nat, failures : Nat]
Rates == [requests : Nat, seconds : Nat]
Points == [at : Nat, requests : Nat, failures : Nat, rate : Rates]
Snapshots == [clock : Nat, now : Nat, total : Nat, failed : Nat]
All == Keys \cup {Total}

TypeInv ==
    /\ clock \in Nat /\ now \in Nat
    /\ global \in [total : Nat, success : Nat, failed : Nat]
    /\ stats \in [Keys -> Counts] /\ ended \in [Pairs -> Counts]
    /\ recent \in [All -> Seq(Samples)] /\ series \in [All -> Seq(Points)]
    /\ ticks \in Seq(Snapshots)

LEMMA BoundsAre ==
    /\ Window \in Nat /\ MaxClock \in Nat /\ MaxPoints \in Nat /\ MaxPoints >= 1
BY DashboardAssumption

LEMMA MinusIs ==
    ASSUME NEW a \in Nat, NEW b \in Nat
    PROVE  /\ Minus(a, b) \in Nat
           /\ a >= b => Minus(a, b) = a - b
           /\ a <= b => Minus(a, b) = 0
BY DEF Minus

LEMMA KeptTyped ==
    ASSUME NEW q \in Seq(Samples)
    PROVE  Kept(q) \in Seq(Samples)
<1> DEFINE K == 1 .. Len(q)
           f == [i \in 1 .. Len(q) |-> i]
<1>1. K \subseteq Nat
  OBVIOUS
<1>2. /\ f \in [1 .. Len(q) -> K]
      /\ \A i, j \in 1 .. Len(q) : i < j => f[i] < f[j]
      /\ \A m \in K : \E i \in 1 .. Len(q) : f[i] = m
      /\ \A i \in 1 .. Len(q) : q[i] = q[f[i]]
  OBVIOUS
<1> HIDE DEF K, f
<1>3. Lists(q, K, q)
  BY <1>1, <1>2 DEF Lists
<1>4. Lists(Kept(q), {k \in K : q[k].at >= Minus(clock, Window)}, q)
  BY <1>3, KeptLists
<1> QED
  BY <1>4 DEF Lists

LEMMA RateTyped ==
    ASSUME NEW q \in Seq(Samples)
    PROVE  Rate(q) \in Rates
<1> DEFINE n == Len(q)
<1>1. NoRate \in Rates
  BY DEF NoRate, Rates
<1>2. CASE n < 2
  BY <1>1, <1>2 DEF Rate
<1>3. CASE ~(n < 2)
  <2>1. n \in Nat /\ 1 \in 1 .. n /\ n \in 1 .. n
    BY <1>3
  <2>2. q[1] \in Samples /\ q[n] \in Samples
    BY <2>1
  <2>3. /\ q[1].at \in Nat /\ q[n].at \in Nat
        /\ q[1].requests \in Nat /\ q[n].requests \in Nat
    BY <2>2 DEF Samples
  <2>4. /\ Minus(q[n].at, q[1].at) \in Nat
        /\ Minus(q[n].requests, q[1].requests) \in Nat
    BY <2>3, MinusIs
  <2> HIDE DEF n
  <2>5. [requests |-> Minus(q[n].requests, q[1].requests),
         seconds |-> Minus(q[n].at, q[1].at)] \in Rates
    BY <2>4 DEF Rates
  <2> QED
    BY <1>1, <2>5 DEF Rate, n
<1> QED
  BY <1>2, <1>3

\* The last MaxPoints points, in their order.
LEMMA CappedIs ==
    ASSUME NEW S, NEW p \in Seq(S), Len(p) > 0
    PROVE  LET d == Minus(Len(p), MaxPoints)
           IN  /\ d \in Nat /\ d < Len(p)
               /\ Capped(p) \in Seq(S) /\ Len(Capped(p)) = Len(p) - d
               /\ \A i \in 1 .. Len(p) - d : Capped(p)[i] = p[d + i]
<1> DEFINE d == Minus(Len(p), MaxPoints)
<1>1. Len(p) \in Nat
  OBVIOUS
<1>2. d \in Nat /\ d < Len(p)
  BY <1>1, BoundsAre DEF Minus
<1> HIDE DEF d
<1>3. Capped(p) = SubSeq(p, d + 1, Len(p))
  BY DEF Capped, d
<1>4. /\ SubSeq(p, d + 1, Len(p)) \in Seq(S)
      /\ Len(SubSeq(p, d + 1, Len(p))) = Len(p) - d
      /\ \A i \in 1 .. Len(p) - d : SubSeq(p, d + 1, Len(p))[i] = p[d + i]
  BY <1>1, <1>2
<1> QED
  BY <1>2, <1>3, <1>4 DEF d

\* What a snapshot adds to the window and to the series of a key.
LEMMA AddedTyped ==
    ASSUME TypeInv, NEW key \in Present
    PROVE  /\ key \in All
           /\ Sample(key) \in Samples
           /\ \A rate \in Rates : Point(key, rate) \in Points
           /\ Sums(key).requests \in Nat /\ Sums(key).failures \in Nat
<1>1. key \in All
  BY DEF Present, All
<1>2. Sums(key).requests \in Nat /\ Sums(key).failures \in Nat
  <2>1. CASE key = Total
    BY <2>1 DEF Sums, TypeInv
  <2>2. CASE key # Total
    <3>1. stats[key] \in Counts
      BY <1>1, <2>2 DEF All, TypeInv
    <3> QED
      BY <2>2, <3>1 DEF Sums, Counts
  <2> QED
    BY <2>1, <2>2
<1>3. clock \in Nat
  BY DEF TypeInv
<1> QED
  BY <1>1, <1>2, <1>3 DEF Sample, Point, Samples, Points

\* What a snapshot does to the window and to the series of a key.
TickOn(key) ==
    /\ key \in Present =>
          /\ recent'[key] = Kept(Append(recent[key], Sample(key)))
          /\ series'[key] = Capped(Append(series[key], Point(key, Rate(recent'[key]))))
    /\ key \notin Present => recent'[key] = recent[key] /\ series'[key] = series[key]

LEMMA TickDoes ==
    ASSUME TypeInv, Tick
    PROVE  /\ DOMAIN recent' = All /\ DOMAIN series' = All
           /\ \A key \in All : TickOn(key)
           /\ \A key \in All : /\ recent'[key] \in Seq(Samples)
                               /\ series'[key] \in Seq(Points)
<1>1. DOMAIN recent = All /\ DOMAIN series = All
  BY DEF TypeInv
<1>2. /\ DOMAIN recent' = All /\ DOMAIN series' = All
      /\ \A key \in All :
            recent'[key] = IF key \in Present
                           THEN Kept(Append(recent[key], Sample(key))) ELSE recent[key]
      /\ \A key \in All :
            series'[key] = IF key \in Present
                           THEN Capped(Append(series[key], Point(key, Rate(recent'[key]))))
                           ELSE series[key]
  BY <1>1, Zenon DEF Tick
<1>3. \A key \in All : TickOn(key)
  BY <1>2 DEF TickOn
<1>4. ASSUME NEW key \in All
      PROVE  recent'[key] \in Seq(Samples) /\ series'[key] \in Seq(Points)
  <2>1. recent[key] \in Seq(Samples) /\ series[key] \in Seq(Points)
    BY DEF TypeInv
  <2>2. CASE key \notin Present
    BY <1>3, <2>1, <2>2 DEF TickOn
  <2>3. CASE key \in Present
    <3> DEFINE q == Append(recent[key], Sample(key))
               z == Point(key, Rate(recent'[key]))
               p == Append(series[key], z)
    <3>1. q \in Seq(Samples)
      BY <2>1, <2>3, AddedTyped
    <3>2. recent'[key] = Kept(q)
      BY <1>3, <2>3 DEF TickOn
    <3> HIDE DEF q
    <3>3. recent'[key] \in Seq(Samples)
      BY <3>1, <3>2, KeptTyped
    <3>4. z \in Points
      BY <2>3, <3>3, RateTyped, AddedTyped
    <3>5. series'[key] = Capped(p)
      BY <1>3, <2>3 DEF TickOn
    <3> HIDE DEF z
    <3>6. p \in Seq(Points) /\ Len(p) > 0
      BY <2>1, <3>4
    <3> HIDE DEF p
    <3>7. Capped(p) \in Seq(Points)
      BY <3>6, CappedIs
    <3> QED
      BY <3>3, <3>5, <3>7
  <2> QED
    BY <2>2, <2>3
<1> QED
  BY <1>2, <1>3, <1>4

LEMMA TypeInit == Init => TypeInv
<1> SUFFICES ASSUME Init PROVE TypeInv
  OBVIOUS
<1>1. [requests |-> 0, failures |-> 0] \in Counts
  BY DEF Counts
<1>2. <<>> \in Seq(Samples) /\ <<>> \in Seq(Points) /\ <<>> \in Seq(Snapshots)
  OBVIOUS
<1> QED
  BY <1>1, <1>2, BoundsAre DEF Init, TypeInv, All

\* What the end of a request does.
Ends(pair, success) ==
    /\ global' = IF success THEN [global EXCEPT !.success = @ + 1]
                 ELSE [global EXCEPT !.failed = @ + 1]
    /\ stats' = [stats EXCEPT ![Key(pair)] = Counted(@, success)]
    /\ ended' = [ended EXCEPT ![pair] = [requests |-> @.requests + 1,
                                         failures |-> IF success THEN @.failures
                                                      ELSE @.failures + 1]]
    /\ UNCHANGED <<clock, now, recent, series, shown, ticks>>

LEMMA EndIs ==
    ASSUME End PROVE \E pair \in Pairs, success \in BOOLEAN : Ends(pair, success)
BY DEF End, Ends

LEMMA BothSet ==
    ASSUME NEW c \in Counts, NEW a \in Nat, NEW b \in Nat
    PROVE  /\ [c EXCEPT !.requests = a, !.failures = b] = [requests |-> a, failures |-> b]
           /\ [c EXCEPT !.requests = a, !.failures = c.failures]
                 = [requests |-> a, failures |-> c.failures]
<1>1. ASSUME NEW n \in Nat
      PROVE  [c EXCEPT !.requests = a, !.failures = n] = [requests |-> a, failures |-> n]
  <2> DEFINE d == [c EXCEPT !.requests = a, !.failures = n]
  <2>1. d \in [requests : Nat, failures : Nat]
    BY DEF Counts
  <2>2. d.requests = a
    BY DEF Counts
  <2>3. d.failures = n
    BY DEF Counts
  <2> HIDE DEF d
  <2>4. d = [requests |-> d.requests, failures |-> d.failures]
    BY <2>1
  <2>5. d = [requests |-> a, failures |-> n]
    BY <2>2, <2>3, <2>4
  <2> QED
    BY <2>5 DEF d
<1>2. c.failures \in Nat
  BY DEF Counts
<1> QED
  BY <1>1, <1>2

LEMMA CountedIs ==
    ASSUME NEW c \in Counts, NEW success \in BOOLEAN
    PROVE  Counted(c, success)
              = [requests |-> c.requests + 1,
                 failures |-> IF success THEN c.failures ELSE c.failures + 1]
<1>0. c.requests + 1 \in Nat /\ c.failures + 1 \in Nat
  BY DEF Counts
<1>1. CASE success
  BY <1>0, <1>1, BothSet DEF Counted
<1>2. CASE ~success
  BY <1>0, <1>2, BothSet DEF Counted
<1> QED
  BY <1>1, <1>2

Sent == [total : Nat, success : Nat, failed : Nat]

LEMMA SentSet ==
    ASSUME NEW g \in Sent
    PROVE  /\ LET h == [g EXCEPT !.total = @ + 1]
              IN  /\ h \in Sent /\ h.total = g.total + 1
                  /\ h.success = g.success /\ h.failed = g.failed
           /\ LET h == [g EXCEPT !.success = @ + 1]
              IN  /\ h \in Sent /\ h.total = g.total
                  /\ h.success = g.success + 1 /\ h.failed = g.failed
           /\ LET h == [g EXCEPT !.failed = @ + 1]
              IN  /\ h \in Sent /\ h.total = g.total
                  /\ h.success = g.success /\ h.failed = g.failed + 1
BY DEF Sent

\* The sums after a step.
Sums3(total, success, failed) ==
    /\ global' \in Sent
    /\ global'.total = total /\ global'.success = success /\ global'.failed = failed

LEMMA StartCounts ==
    ASSUME TypeInv, Start
    PROVE  Sums3(global.total + 1, global.success, global.failed)
<1>1. global \in Sent
  BY DEF TypeInv, Sent
<1>2. global' = [global EXCEPT !.total = @ + 1]
  BY DEF Start
<1> QED
  BY <1>1, <1>2, SentSet DEF Sums3

LEMMA EndCounts ==
    ASSUME TypeInv, NEW pair, NEW success \in BOOLEAN, Ends(pair, success)
    PROVE  /\ success => Sums3(global.total, global.success + 1, global.failed)
           /\ ~success => Sums3(global.total, global.success, global.failed + 1)
<1>1. global \in Sent
  BY DEF TypeInv, Sent
<1>2. CASE success
  <2>1. global' = [global EXCEPT !.success = @ + 1]
    BY <1>2 DEF Ends
  <2> QED
    BY <1>1, <1>2, <2>1, SentSet DEF Sums3
<1>3. CASE ~success
  <2>1. global' = [global EXCEPT !.failed = @ + 1]
    BY <1>3 DEF Ends
  <2> QED
    BY <1>1, <1>3, <2>1, SentSet DEF Sums3
<1> QED
  BY <1>2, <1>3

LEMMA TypeNext ==
    ASSUME TypeInv, [Next]_vars
    PROVE  TypeInv'
<1>1. CASE Start
  <2>1. global' \in [total : Nat, success : Nat, failed : Nat]
    BY <1>1, StartCounts DEF Sums3, Sent
  <2> QED
    BY <1>1, <2>1 DEF Start, TypeInv, All
<1>2. CASE End
  <2>1. PICK pair \in Pairs, success \in BOOLEAN : Ends(pair, success)
    BY <1>2, EndIs
  <2>2. Key(pair) \in Keys /\ stats[Key(pair)] \in Counts /\ ended[pair] \in Counts
    BY DEF Keys, TypeInv
  <2>3. /\ Counted(stats[Key(pair)], success) \in Counts
        /\ [requests |-> ended[pair].requests + 1,
            failures |-> IF success THEN ended[pair].failures
                         ELSE ended[pair].failures + 1] \in Counts
    BY <2>2, CountedIs DEF Counts
  <2>4. global' \in [total : Nat, success : Nat, failed : Nat]
    BY <2>1, EndCounts DEF Sums3, Sent
  <2>5. stats' \in [Keys -> Counts] /\ ended' \in [Pairs -> Counts]
    BY <2>1, <2>2, <2>3, Zenon DEF Ends, TypeInv
  <2> QED
    BY <2>1, <2>4, <2>5 DEF Ends, TypeInv, All
<1>3. CASE Tick
  <2>1. recent' \in [All -> Seq(Samples)] /\ series' \in [All -> Seq(Points)]
    <3>1. recent' = [key \in All |-> recent'[key]] /\ series' = [key \in All |-> series'[key]]
      BY <1>3 DEF Tick, TypeInv
    <3> QED
      BY <1>3, <3>1, TickDoes, Zenon
  <2>2. ticks' \in Seq(Snapshots)
    <3>1. [clock |-> clock, now |-> now, total |-> global.total, failed |-> global.failed]
             \in Snapshots
      BY DEF TypeInv, Snapshots
    <3> QED
      BY <1>3, <3>1 DEF Tick, TypeInv
  <2> QED
    BY <1>3, <2>1, <2>2 DEF Tick, TypeInv, All
<1>4. CASE Second
  BY <1>4 DEF Second, TypeInv, All
<1>5. CASE SetClock
  BY <1>5, BoundsAre DEF SetClock, TypeInv, All
<1>6. CASE UNCHANGED vars
  BY <1>6 DEF vars, TypeInv, All
<1> QED
  BY <1>1, <1>2, <1>3, <1>4, <1>5, <1>6 DEF Next

LEMMA AlwaysTyped == Spec => []TypeInv
BY TypeInit, TypeNext, PTL DEF Spec

-----------------------------------------------------------------------------
(* The rate.                                                               *)

\* The samples of the snapshots.
Sampled == [k \in DOMAIN ticks |-> [at |-> ticks[k].clock, requests |-> ticks[k].total]]

\* The snapshots that were in the window ever since.
InWindow ==
    {k \in DOMAIN ticks :
        \A j \in k .. Len(ticks) : ticks[k].clock >= Minus(ticks[j].clock, Window)}

\* Time and requests do not go back.
Grow ==
    /\ \A k \in DOMAIN ticks : ticks[k].now <= now /\ ticks[k].total <= global.total
    /\ \A k, j \in DOMAIN ticks :
          k <= j => ticks[k].now <= ticks[j].now /\ ticks[k].total <= ticks[j].total

RateInv ==
    /\ Lists(recent[Total], InWindow, Sampled)
    /\ Grow
    /\ ticks # <<>> => shown.rate = Rate(recent[Total])

LEMMA RateInit == Init => RateInv
<1> SUFFICES ASSUME Init PROVE RateInv
  OBVIOUS
<1>1. ticks = <<>> /\ DOMAIN ticks = {} /\ recent[Total] = <<>>
  BY DEF Init
<1>2. InWindow = {}
  BY <1>1 DEF InWindow
<1>3. Lists(<<>>, {}, Sampled)
  <2>1. <<>> \in Seq(Samples) /\ Len(<<>>) = 0 /\ 1 .. 0 = {}
    OBVIOUS
  <2>2. [i \in 1 .. 0 |-> 0] \in [1 .. 0 -> {}]
    BY <2>1
  <2> QED
    BY <2>1, <2>2 DEF Lists
<1> QED
  BY <1>1, <1>2, <1>3 DEF RateInv, Grow

\* The sequence of the snapshots after one more.
TickAdds ==
    /\ Len(ticks') = Len(ticks) + 1 /\ Len(ticks) \in Nat
    /\ DOMAIN ticks = 1 .. Len(ticks) /\ DOMAIN ticks' = 1 .. Len(ticks) + 1
    /\ \A k \in 1 .. Len(ticks) : ticks'[k] = ticks[k]
    /\ ticks'[Len(ticks) + 1]
          = [clock |-> clock, now |-> now, total |-> global.total, failed |-> global.failed]
    /\ \A k \in 1 .. Len(ticks) + 1 : k \in 1 .. Len(ticks) \/ k = Len(ticks) + 1
    /\ \A k \in 1 .. Len(ticks) : k \in 1 .. Len(ticks) + 1 /\ k < Len(ticks) + 1
    /\ Len(ticks) + 1 \in 1 .. Len(ticks) + 1

LEMMA TickAppends ==
    ASSUME TypeInv, Tick
    PROVE  TickAdds
<1> DEFINE e == [clock |-> clock, now |-> now, total |-> global.total,
                 failed |-> global.failed]
           n == Len(ticks)
<1>1. e \in Snapshots /\ ticks \in Seq(Snapshots) /\ ticks' = Append(ticks, e)
  BY DEF Tick, TypeInv, Snapshots
<1> HIDE DEF e
<1>2. /\ Len(ticks') = n + 1 /\ n \in Nat
      /\ DOMAIN ticks = 1 .. n /\ DOMAIN ticks' = 1 .. n + 1
      /\ \A k \in 1 .. n : ticks'[k] = ticks[k]
      /\ ticks'[n + 1] = e
  BY <1>1
<1> HIDE DEF n
<1>3. /\ \A k \in 1 .. n + 1 : k \in 1 .. n \/ k = n + 1
      /\ \A k \in 1 .. n : k \in 1 .. n + 1 /\ k < n + 1
      /\ n + 1 \in 1 .. n + 1
  BY <1>2
<1> QED
  BY <1>2, <1>3 DEF e, n, TickAdds

LEMMA TotalIn ==
    /\ Total \in Present /\ Total \in All
    /\ Sums(Total) = [requests |-> global.total, failures |-> global.failed]
    /\ Sample(Total) = [at |-> clock, requests |-> global.total]
BY DEF Present, All, Sums, Sample

LEMMA WindowMoves ==
    ASSUME TypeInv, RateInv, Tick
    PROVE  /\ Lists(recent'[Total], InWindow', Sampled')
           /\ shown'.rate = Rate(recent'[Total])
<1> DEFINE n == Len(ticks)
           K == InWindow
           t == Sampled'
           q == recent[Total]
           young == {k \in K \cup {n + 1} : t[k].at >= Minus(clock, Window)}
<1>1. TickAdds
  BY TickAppends
<1>2. /\ n \in Nat /\ n + 1 \in Nat /\ K \subseteq 1 .. n
  BY <1>1 DEF TickAdds, InWindow
<1>3. /\ t[n + 1] = Sample(Total) /\ Sample(Total) \in Samples
      /\ \A k \in 1 .. n : t[k] = Sampled[k]
      /\ \A k \in 1 .. n + 1 : t[k].at = ticks'[k].clock
      /\ t[n + 1].at = clock
  <2>1. Sample(Total) = [at |-> clock, requests |-> global.total]
    BY TotalIn
  <2>2. Sample(Total) \in Samples
    BY TotalIn, AddedTyped
  <2>3. t = [k \in 1 .. n + 1 |-> [at |-> ticks'[k].clock, requests |-> ticks'[k].total]]
    BY <1>1 DEF Sampled, TickAdds
  <2>4. Sampled = [k \in 1 .. n |-> [at |-> ticks[k].clock, requests |-> ticks[k].total]]
    BY <1>1 DEF Sampled, TickAdds
  <2> HIDE DEF n, t
  <2>5. \A k \in 1 .. n : t[k] = Sampled[k]
    BY <1>1, <2>3, <2>4 DEF TickAdds, n
  <2>6. t[n + 1] = [at |-> clock, requests |-> global.total]
    BY <1>1, <2>3 DEF TickAdds, n
  <2> QED
    BY <2>1, <2>2, <2>3, <2>5, <2>6
<1>4. Lists(q, K, t)
  <2>1. Lists(q, K, Sampled)
    BY DEF RateInv
  <2>2. \A k \in K : Sampled[k] = t[k]
    BY <1>2, <1>3
  <2> HIDE DEF K, t, q
  <2> QED
    BY <2>1, <2>2, ListsSame
<1> HIDE DEF t, K
<1>5. Lists(Append(q, t[n + 1]), K \cup {n + 1}, t)
  <2>1. \A k \in K : k < n + 1
    BY <1>2
  <2>2. t[n + 1] \in Samples
    BY <1>3
  <2> HIDE DEF q, n
  <2> QED
    BY <1>2, <1>4, <2>1, <2>2, ListsAppended
<1>6. Lists(Kept(Append(q, t[n + 1])), young, t)
  <2> HIDE DEF q, n
  <2> QED
    BY <1>5, KeptLists
<1>7. recent'[Total] = Kept(Append(q, t[n + 1]))
  BY <1>3, TickDoes, TotalIn DEF TickOn
<1>8. InWindow' = young
  <2>0. \A k \in 1 .. n + 1 : t[k].at = ticks'[k].clock
    BY <1>3
  <2>1. InWindow' = {k \in 1 .. n + 1 :
                        \A j \in k .. n + 1 :
                            ticks'[k].clock >= Minus(ticks'[j].clock, Window)}
    BY <1>1 DEF InWindow, TickAdds
  <2>2. K = {k \in 1 .. n :
                \A j \in k .. n : ticks[k].clock >= Minus(ticks[j].clock, Window)}
    BY <1>1 DEF K, InWindow, TickAdds
  <2>3. ticks'[n + 1].clock = clock /\ clock \in Nat
    BY <1>1 DEF TickAdds, TypeInv
  <2>4. Minus(clock, Window) <= clock
    BY <2>3, BoundsAre DEF Minus
  <2>5. \A k \in 1 .. n : ticks'[k] = ticks[k]
    BY <1>1 DEF TickAdds
  <2> HIDE DEF n
  <2>6. \A k \in 1 .. n : \A j : j \in k .. n + 1 <=> j \in k .. n \/ j = n + 1
    BY <1>2
  <2>7. \A k \in 1 .. n : \A j \in k .. n : j \in 1 .. n
    BY <1>2
  <2>8. \A j \in n + 1 .. n + 1 : j = n + 1
    BY <1>2
  <2>9. ASSUME NEW k \in 1 .. n
        PROVE  k \in InWindow' <=> k \in young
    <3>1. k \in InWindow' <=> /\ \A j \in k .. n : ticks[k].clock >= Minus(ticks[j].clock, Window)
                              /\ ticks[k].clock >= Minus(clock, Window)
      <4>1. k \in 1 .. n + 1
        BY <1>2
      <4> QED
        BY <2>1, <2>3, <2>5, <2>6, <2>7, <4>1
    <3>2. k # n + 1 /\ t[k].at = ticks[k].clock
      BY <1>2, <2>0, <2>5
    <3> QED
      BY <2>2, <3>1, <3>2
  <2>10. n + 1 \in InWindow' /\ n + 1 \in young
    <3>1. n + 1 \in 1 .. n + 1
      BY <1>2
    <3>2. \A j \in n + 1 .. n + 1 :
              ticks'[n + 1].clock >= Minus(ticks'[j].clock, Window)
      BY <2>3, <2>4, <2>8
    <3>3. n + 1 \in InWindow'
      BY <2>1, <3>1, <3>2
    <3> QED
      BY <2>0, <2>3, <2>4, <3>1, <3>3, BoundsAre DEF Minus
  <2>11. InWindow' \subseteq 1 .. n \cup {n + 1} /\ young \subseteq 1 .. n \cup {n + 1}
    <3>1. \A k \in 1 .. n + 1 : k \in 1 .. n \/ k = n + 1
      BY <1>2
    <3>2. InWindow' \subseteq 1 .. n + 1
      BY <2>1
    <3> QED
      BY <1>2, <3>1, <3>2
  <2> HIDE DEF young
  <2>12. \A k \in 1 .. n \cup {n + 1} : k \in InWindow' <=> k \in young
    BY <2>9, <2>10
  <2> QED
    BY <2>11, <2>12, Zenon
<1>9. Lists(recent'[Total], InWindow', t)
  BY <1>6, <1>7, <1>8
<1>10. shown'.rate = Rate(recent'[Total])
  BY DEF Tick
<1> QED
  BY <1>9, <1>10 DEF t

LEMMA RateNext ==
    ASSUME TypeInv, RateInv, [Next]_vars
    PROVE  RateInv'
<1>1. ASSUME UNCHANGED <<recent, shown, ticks>>, Grow' PROVE RateInv'
  <2>1. InWindow' = InWindow /\ Sampled' = Sampled
    BY <1>1 DEF InWindow, Sampled
  <2> QED
    BY <1>1, <2>1 DEF RateInv, Lists, Rate
<1>2. ASSUME ticks' = ticks, now' >= now, now' \in Nat, global'.total \in Nat,
             global'.total >= global.total
      PROVE  Grow'
  <2>1. \A k \in DOMAIN ticks : ticks[k] \in Snapshots
    BY DEF TypeInv
  <2>2. \A k \in DOMAIN ticks : ticks[k].now \in Nat /\ ticks[k].total \in Nat
    BY <2>1 DEF Snapshots
  <2>3. now \in Nat /\ global.total \in Nat
    BY DEF TypeInv
  <2>4. \A k \in DOMAIN ticks : ticks[k].now <= now' /\ ticks[k].total <= global'.total
    BY <1>2, <2>2, <2>3 DEF RateInv, Grow
  <2> QED
    BY <1>2, <2>4 DEF RateInv, Grow
<1>3. now \in Nat /\ global.total \in Nat /\ now >= now /\ global.total >= global.total
  BY DEF TypeInv
<1>4. CASE Start
  <2>1. global'.total = global.total + 1
    BY <1>4, StartCounts DEF Sums3
  <2>2. global'.total \in Nat /\ global'.total >= global.total
    BY <1>3, <2>1
  <2> QED
    BY <1>1, <1>2, <1>3, <1>4, <2>2 DEF Start
<1>5. CASE End
  <2>1. PICK pair \in Pairs, success \in BOOLEAN : Ends(pair, success)
    BY <1>5, EndIs
  <2>2. global'.total = global.total
    BY <2>1, EndCounts DEF Sums3
  <2> QED
    BY <1>1, <1>2, <1>3, <2>1, <2>2 DEF Ends
<1>6. CASE Tick
  <2>1. TickAdds /\ global' = global /\ now' = now
    BY <1>6, TickAppends DEF Tick
  <2> DEFINE n == Len(ticks)
  <2>2. /\ DOMAIN ticks = 1 .. n /\ DOMAIN ticks' = 1 .. n + 1
        /\ \A k \in 1 .. n : ticks'[k] = ticks[k]
        /\ ticks'[n + 1].now = now /\ ticks'[n + 1].total = global.total
        /\ \A k \in 1 .. n + 1 : k \in 1 .. n \/ k = n + 1
        /\ n \in Nat
    BY <2>1 DEF TickAdds
  <2> HIDE DEF n
  <2>3. \A k \in 1 .. n + 1 : ticks'[k].now <= now /\ ticks'[k].total <= global.total
    BY <1>3, <2>2 DEF RateInv, Grow
  <2>4. ASSUME NEW k \in 1 .. n + 1, NEW j \in 1 .. n + 1, k <= j
        PROVE  ticks'[k].now <= ticks'[j].now /\ ticks'[k].total <= ticks'[j].total
    <3>1. CASE j = n + 1
      BY <2>2, <2>3, <3>1
    <3>2. CASE j \in 1 .. n
      <4>1. k \in 1 .. n
        BY <2>2, <2>4, <3>2
      <4> QED
        BY <2>2, <2>4, <3>2, <4>1 DEF RateInv, Grow
    <3> QED
      BY <2>2, <3>1, <3>2
  <2>5. Grow'
    BY <2>1, <2>2, <2>3, <2>4 DEF Grow
  <2>6. /\ Lists(recent'[Total], InWindow', Sampled')
        /\ shown'.rate = Rate(recent'[Total])
    BY <1>6, WindowMoves
  <2> QED
    BY <2>5, <2>6 DEF RateInv, Lists, Rate
<1>7. CASE Second
  <2>1. now' \in Nat /\ now' >= now
    BY <1>3, <1>7 DEF Second
  <2> QED
    BY <1>1, <1>2, <1>3, <1>7, <2>1 DEF Second
<1>8. CASE SetClock
  BY <1>1, <1>2, <1>3, <1>8 DEF SetClock
<1>9. CASE UNCHANGED vars
  BY <1>1, <1>2, <1>3, <1>9 DEF vars
<1> QED
  BY <1>4, <1>5, <1>6, <1>7, <1>8, <1>9 DEF Next

LEMMA AlwaysRated == Spec => []RateInv
BY AlwaysTyped, RateInit, RateNext, PTL DEF Spec

\* The first and the last sample of a list.
LEMMA ListEnds ==
    ASSUME NEW q, NEW K, NEW t, Lists(q, K, t), NEW low \in K, NEW high \in K,
           \A k \in K : low <= k /\ k <= high
    PROVE  /\ Len(q) \in Nat /\ Len(q) >= 1
           /\ q[1] = t[low] /\ q[Len(q)] = t[high]
           /\ Len(q) = 1 => low = high
<1> DEFINE n == Len(q)
<1>1. n \in Nat /\ K \subseteq Nat
  BY DEF Lists
<1>2. PICK f \in [1 .. n -> K] :
          /\ \A i, j \in 1 .. n : i < j => f[i] < f[j]
          /\ \A m \in K : \E i \in 1 .. n : f[i] = m
          /\ \A i \in 1 .. n : q[i] = t[f[i]]
  BY DEF Lists
<1> HIDE DEF n
<1>3. PICK a \in 1 .. n : f[a] = low
  BY <1>2
<1>4. PICK b \in 1 .. n : f[b] = high
  BY <1>2
<1>5. 1 \in 1 .. n /\ n \in 1 .. n /\ n >= 1
  BY <1>1, <1>3
<1>6. f[1] \in K /\ f[n] \in K /\ f[1] \in Nat /\ f[n] \in Nat
  BY <1>1, <1>2, <1>5
<1>7. f[1] = low
  <2>1. low <= f[1] /\ low \in Nat
    BY <1>1, <1>6
  <2>2. a = 1 \/ 1 < a
    BY <1>1
  <2>3. 1 < a => f[1] < f[a]
    BY <1>2, <1>5
  <2> QED
    BY <1>3, <1>6, <2>1, <2>2, <2>3
<1>8. f[n] = high
  <2>1. f[n] <= high /\ high \in Nat
    BY <1>1, <1>6
  <2>2. b = n \/ b < n
    BY <1>1
  <2>3. b < n => f[b] < f[n]
    BY <1>2, <1>5
  <2> QED
    BY <1>4, <1>6, <2>1, <2>2, <2>3
<1>9. q[1] = t[low] /\ q[n] = t[high]
  BY <1>2, <1>5, <1>7, <1>8
<1> QED
  BY <1>1, <1>5, <1>7, <1>8, <1>9 DEF n

LEMMA LowestIs ==
    ASSUME NEW S, S \subseteq Nat, S # {}
    PROVE  Lowest(S) \in S /\ \A k \in S : Lowest(S) <= k
<1>1. \E n \in S : \A m \in S : n <= m
  BY Least
<1> QED
  BY <1>1 DEF Lowest

\* The rate that is shown is that of the requests since the first snapshot of
\* the last minute, by true time, unless a sample from before the clock was set
\* is still in the window; whatever the clock was set to, and whenever.
THEOREM RateAlwaysHeals == Spec => []RateHeals
<1>1. ASSUME TypeInv, RateInv PROVE RateHeals
  <2> DEFINE n == Len(ticks)
             within == {k \in Since : ticks[k].now + Window >= ticks[n].now}
             low == Lowest(within)
             first == ticks[low]
             last == ticks[n]
             seconds == last.now - first.now
             q == recent[Total]
  <2> SUFFICES ASSUME ticks # <<>>,
                      \A k \in DOMAIN ticks \ Since : ticks[k].clock + Window < last.clock
               PROVE  shown.rate
                        = IF seconds = 0 THEN NoRate
                          ELSE [requests |-> last.total - first.total,
                                seconds |-> seconds]
    BY DEF RateHeals
  <2>1. /\ n \in Nat /\ n >= 1 /\ DOMAIN ticks = 1 .. n /\ n \in 1 .. n
        /\ \A k \in 1 .. n : ticks[k] \in Snapshots
    BY <1>1 DEF TypeInv
  <2>2. \A k \in 1 .. n : /\ ticks[k].clock \in Nat /\ ticks[k].now \in Nat
                          /\ ticks[k].total \in Nat
    BY <2>1 DEF Snapshots
  <2>3. \A k, j \in 1 .. n :
            k <= j => ticks[k].now <= ticks[j].now /\ ticks[k].total <= ticks[j].total
    BY <1>1, <2>1 DEF RateInv, Grow
  <2>4. /\ InWindow = {k \in 1 .. n :
                          \A j \in k .. n : ticks[k].clock >= Minus(ticks[j].clock, Window)}
        /\ Since = {k \in 1 .. n :
                       \A j \in k .. n :
                           ticks[j].clock + ticks[k].now = ticks[k].clock + ticks[j].now}
    BY <2>1 DEF InWindow, Since
  <2> HIDE DEF n
  <2>5. \A k \in 1 .. n : \A j \in k .. n : j \in 1 .. n /\ k <= j /\ j <= n
    BY <2>1
  <2>6. \A k \in 1 .. n : n \in k .. n /\ k <= n
    BY <2>1
  <2>7. ASSUME NEW k \in within PROVE k \in InWindow
    <3>1. k \in 1 .. n /\ ticks[k].now + Window >= ticks[n].now
      BY <2>4
    <3>2. ASSUME NEW j \in k .. n
          PROVE  ticks[k].clock >= Minus(ticks[j].clock, Window)
      <4>1. j \in 1 .. n /\ ticks[j].now <= ticks[n].now
        BY <2>1, <2>3, <2>5, <3>1
      <4>2. ticks[j].clock + ticks[k].now = ticks[k].clock + ticks[j].now
        BY <2>4
      <4>3. ticks[j].clock <= ticks[k].clock + Window
        <5> DEFINE cj == ticks[j].clock
                   ck == ticks[k].clock
                   tj == ticks[j].now
                   tk == ticks[k].now
                   tn == ticks[n].now
        <5>1. cj \in Nat /\ ck \in Nat /\ tj \in Nat /\ tk \in Nat /\ tn \in Nat
          BY <2>1, <2>2, <3>1, <4>1
        <5>2. cj + tk = ck + tj /\ tk + Window >= tn /\ tj <= tn
          BY <3>1, <4>1, <4>2
        <5> HIDE DEF cj, ck, tj, tk, tn
        <5>3. cj <= ck + Window
          BY <5>1, <5>2, BoundsAre
        <5> QED
          BY <5>3 DEF cj, ck
      <4> QED
        BY <2>2, <3>1, <4>1, <4>3, BoundsAre DEF Minus
    <3> QED
      BY <2>4, <3>1, <3>2
  <2>8. ASSUME NEW k \in InWindow PROVE k \in within
    <3>1. k \in 1 .. n /\ ticks[k].clock >= Minus(ticks[n].clock, Window)
      BY <2>4, <2>6
    <3>2. ticks[k].clock + Window >= ticks[n].clock
      BY <2>1, <2>2, <3>1, BoundsAre DEF Minus
    <3>3. k \in Since
      <4>1. ~(ticks[k].clock + Window < ticks[n].clock)
        BY <2>1, <2>2, <3>1, <3>2, BoundsAre
      <4> QED
        BY <2>1, <3>1, <4>1 DEF n
    <3>4. ticks[n].clock + ticks[k].now = ticks[k].clock + ticks[n].now
      BY <2>4, <2>6, <3>1, <3>3
    <3>5. ticks[k].now + Window >= ticks[n].now
      BY <2>1, <2>2, <3>1, <3>2, <3>4, BoundsAre
    <3> QED
      BY <3>3, <3>5
  <2>9. InWindow = within
    <3> HIDE DEF within
    <3> QED
      BY <2>7, <2>8
  <2>10. n \in within
    <3>1. \A j \in n .. n : j = n
      BY <2>1
    <3>2. n \in Since
      BY <2>1, <2>4, <3>1
    <3> QED
      BY <2>1, <2>2, <3>2, BoundsAre
  <2>11. within \subseteq 1 .. n /\ within \subseteq Nat
    BY <2>1, <2>4
  <2>12. low \in within /\ \A k \in within : low <= k
    <3> HIDE DEF within
    <3> QED
      BY <2>10, <2>11, LowestIs
  <2>13. low \in 1 .. n /\ low \in Since
    BY <2>11, <2>12
  <2> HIDE DEF within, low
  <2>14. Lists(q, within, Sampled)
    BY <1>1, <2>9 DEF RateInv
  <2>15. /\ Len(q) \in Nat /\ Len(q) >= 1
         /\ q[1] = Sampled[low] /\ q[Len(q)] = Sampled[n]
         /\ Len(q) = 1 => low = n
    <3>1. \A k \in within : low <= k /\ k <= n
      BY <2>6, <2>11, <2>12
    <3> HIDE DEF q
    <3> QED
      BY <2>10, <2>12, <2>14, <3>1, ListEnds
  <2>16. /\ q[1] = [at |-> first.clock, requests |-> first.total]
         /\ q[Len(q)] = [at |-> last.clock, requests |-> last.total]
    BY <2>1, <2>13, <2>15 DEF Sampled
  <2>17. /\ first.clock \in Nat /\ first.now \in Nat /\ first.total \in Nat
         /\ last.clock \in Nat /\ last.now \in Nat /\ last.total \in Nat
         /\ first.now <= last.now /\ first.total <= last.total
         /\ last.clock + first.now = first.clock + last.now
    BY <2>1, <2>2, <2>3, <2>4, <2>6, <2>13
  <2> HIDE DEF first, last, q
  <2>18. /\ Minus(last.clock, first.clock) = last.now - first.now
         /\ Minus(last.total, first.total) = last.total - first.total
    BY <2>17 DEF Minus
  <2>19. shown.rate = Rate(q)
    BY <1>1 DEF RateInv, q
  <2>20. Rate(q) = IF Len(q) < 2 \/ last.now - first.now = 0 THEN NoRate
                   ELSE [requests |-> last.total - first.total,
                         seconds |-> last.now - first.now]
    BY <2>16, <2>18 DEF Rate
  <2>21. CASE Len(q) = 1
    <3>1. first = last
      BY <2>15, <2>21 DEF first, last
    <3>2. last.now - first.now = 0
      BY <2>17, <3>1
    <3> QED
      BY <2>19, <2>20, <3>2
  <2>22. CASE Len(q) # 1
    <3>1. ~(Len(q) < 2)
      <4>1. \A m \in Nat : m >= 1 /\ m # 1 => ~(m < 2)
        OBVIOUS
      <4> QED
        BY <2>15, <2>22, <4>1
    <3> QED
      BY <2>19, <2>20, <3>1
  <2> QED
    BY <2>21, <2>22
<1> QED
  BY <1>1, AlwaysTyped, AlwaysRated, PTL

-----------------------------------------------------------------------------
(* The series.                                                             *)

LEMMA LowestOfTwo ==
    ASSUME NEW a \in Nat, NEW b \in Nat
    PROVE  Lowest({a, b}) = IF a <= b THEN a ELSE b
<1>1. {a, b} \subseteq Nat /\ {a, b} # {}
  OBVIOUS
<1>2. Lowest({a, b}) \in {a, b} /\ Lowest({a, b}) <= a /\ Lowest({a, b}) <= b
  BY <1>1, LowestIs
<1> QED
  BY <1>2

LEMMA SeriesInit == Init => SeriesIsLast
<1> SUFFICES ASSUME Init PROVE SeriesIsLast
  OBVIOUS
<1>1. series[Total] = <<>> /\ ticks = <<>> /\ Len(<<>>) = 0 /\ DOMAIN <<>> = {}
  BY DEF Init
<1>2. Lowest({0, MaxPoints}) = 0
  BY BoundsAre, LowestOfTwo
<1> QED
  BY <1>1, <1>2 DEF SeriesIsLast

\* c is the end of p, which has n elements, without the first d.
EndOf(c, S, p, n, d) ==
    /\ d \in Nat /\ d < n /\ c \in Seq(S) /\ Len(c) = n - d
    /\ \A i \in 1 .. n - d : c[i] = p[d + i]

LEMMA SeriesNext ==
    ASSUME TypeInv, TypeInv', SeriesIsLast, [Next]_vars
    PROVE  SeriesIsLast'
<1>1. CASE Tick
  <2> DEFINE n == Len(ticks)
             s == series[Total]
             m == Len(s)
             z == Point(Total, Rate(recent'[Total]))
             p == Append(s, z)
             c == series'[Total]
             d == Minus(m + 1, MaxPoints)
  <2>1. TickAdds
    BY <1>1, TickAppends
  <2>2. /\ n \in Nat /\ Len(ticks') = n + 1
        /\ \A k \in 1 .. n : ticks'[k] = ticks[k]
        /\ ticks'[n + 1].clock = clock /\ ticks'[n + 1].total = global.total
        /\ ticks'[n + 1].failed = global.failed
    BY <2>1 DEF TickAdds
  <2>3. s \in Seq(Points) /\ m \in Nat /\ DOMAIN s = 1 .. m
    BY TotalIn DEF TypeInv
  <2>4. /\ m = Lowest({n, MaxPoints})
        /\ \A i \in 1 .. m : /\ s[i].at = ticks[n - m + i].clock
                             /\ s[i].requests = ticks[n - m + i].total
                             /\ s[i].failures = ticks[n - m + i].failed
    BY <2>3 DEF SeriesIsLast
  <2>5. z \in Points /\ z.at = clock /\ z.requests = global.total
        /\ z.failures = global.failed
    <3>1. Rate(recent'[Total]) \in Rates
      BY <1>1, TickDoes, TotalIn, RateTyped
    <3>2. z \in Points
      BY <3>1, AddedTyped, TotalIn
    <3> QED
      BY <3>2, TotalIn DEF Point
  <2>6. c = Capped(p)
    BY <1>1, TickDoes, TotalIn DEF TickOn
  <2> HIDE DEF z
  <2>7. /\ p \in Seq(Points) /\ Len(p) = m + 1 /\ p[m + 1] = z
        /\ \A i \in 1 .. m : p[i] = s[i]
    BY <2>3, <2>5
  <2> HIDE DEF p
  <2>8. EndOf(c, Points, p, m + 1, d)
    <3>1. Len(p) = m + 1 /\ Len(p) > 0
      BY <2>3, <2>7
    <3>2. EndOf(Capped(p), Points, p, Len(p), Minus(Len(p), MaxPoints))
      BY <2>7, <3>1, CappedIs DEF EndOf
    <3> QED
      BY <2>6, <3>1, <3>2, Zenon
  <2>9. /\ d \in Nat /\ d < m + 1 /\ c \in Seq(Points) /\ Len(c) = m + 1 - d
        /\ \A i \in 1 .. m + 1 - d : c[i] = p[d + i]
    BY <2>8 DEF EndOf
  <2>10. m = IF n <= MaxPoints THEN n ELSE MaxPoints
    <3>1. Lowest({n, MaxPoints}) = IF n <= MaxPoints THEN n ELSE MaxPoints
      BY <2>2, BoundsAre, LowestOfTwo
    <3> HIDE DEF n, m
    <3> QED
      BY <2>4, <3>1
  <2>11. d = IF n + 1 <= MaxPoints THEN 0 ELSE 1
    BY <2>2, <2>10, BoundsAre DEF Minus
  <2> HIDE DEF n, s, m, c, d
  <2>12. Len(c) = IF n + 1 <= MaxPoints THEN n + 1 ELSE MaxPoints
    BY <2>2, <2>9, <2>10, <2>11, BoundsAre
  <2>13. Len(c) = Lowest({n + 1, MaxPoints})
    BY <2>2, <2>12, BoundsAre, LowestOfTwo
  <2>14. DOMAIN c = 1 .. m + 1 - d
    BY <2>9
  <2> DEFINE e == Len(ticks') - Len(series'[Total])
  <2>15. e = n - m + d
    <3>1. Len(ticks') = n + 1 /\ Len(series'[Total]) = m + 1 - d
      BY <2>2, <2>9 DEF c
    <3>2. e = (n + 1) - (m + 1 - d)
      BY <3>1, Zenon
    <3> HIDE DEF e
    <3> QED
      BY <2>2, <2>3, <2>9, <3>2
  <2>16. /\ Len(series'[Total]) = Lowest({Len(ticks'), MaxPoints})
         /\ DOMAIN series'[Total] = 1 .. m + 1 - d
    BY <2>2, <2>13, <2>14 DEF c
  <2> HIDE DEF e
  <2>17. ASSUME NEW i \in 1 .. m + 1 - d
         PROVE  /\ c[i].at = ticks'[e + i].clock
                /\ c[i].requests = ticks'[e + i].total
                /\ c[i].failures = ticks'[e + i].failed
    <3>1. c[i] = p[d + i] /\ e + i = n - m + (d + i)
      BY <2>2, <2>3, <2>9, <2>15
    <3>2. CASE d + i \in 1 .. m
      <4>1. n - m + (d + i) \in 1 .. n
        BY <2>2, <2>3, <2>10, <3>2, BoundsAre
      <4>2. c[i] = s[d + i]
        BY <2>7, <3>1, <3>2
      <4>3. ticks'[e + i] = ticks[n - m + (d + i)]
        BY <2>2, <3>1, <4>1
      <4>4. /\ s[d + i].at = ticks[n - m + (d + i)].clock
            /\ s[d + i].requests = ticks[n - m + (d + i)].total
            /\ s[d + i].failures = ticks[n - m + (d + i)].failed
        BY <2>4, <3>2
      <4> QED
        BY <4>2, <4>3, <4>4, Zenon
    <3>3. CASE d + i = m + 1
      <4>1. e + i = n + 1
        BY <2>2, <2>3, <3>1, <3>3
      <4>2. c[i] = z
        BY <2>7, <3>1, <3>3
      <4> QED
        BY <2>2, <2>5, <4>1, <4>2
    <3>4. d + i \in 1 .. m \/ d + i = m + 1
      BY <2>3, <2>9
    <3> QED
      BY <3>2, <3>3, <3>4
  <2>18. ASSUME NEW i \in DOMAIN series'[Total]
         PROVE  LET k == Len(ticks') - Len(series'[Total]) + i
                IN  /\ series'[Total][i].at = ticks'[k].clock
                    /\ series'[Total][i].requests = ticks'[k].total
                    /\ series'[Total][i].failures = ticks'[k].failed
    <3>1. i \in 1 .. m + 1 - d
      BY <2>16
    <3> QED
      BY <2>17, <3>1, Zenon DEF c, e
  <2> QED
    BY <2>16, <2>18, Zenon DEF SeriesIsLast
<1>2. ASSUME series' = series, ticks' = ticks PROVE SeriesIsLast'
  BY <1>2 DEF SeriesIsLast
<1>3. CASE End
  <2>1. PICK pair \in Pairs, success \in BOOLEAN : Ends(pair, success)
    BY <1>3, EndIs
  <2> QED
    BY <1>2, <2>1 DEF Ends
<1> QED
  BY <1>1, <1>2, <1>3 DEF Next, Start, Second, SetClock, vars

\* The series is that of the last snapshots, in the order they were made, up to
\* the newest, and no more than its bound; whatever the clock was set to.
THEOREM SeriesAlwaysLast == Spec => []SeriesIsLast
BY AlwaysTyped, SeriesInit, SeriesNext, PTL DEF Spec

-----------------------------------------------------------------------------
(* The numbers of the pairs.                                               *)

\* A pair that has its key for itself is counted under it.
PairInv ==
    \A pair \in Pairs : Unmistakable(pair) => stats[Key(pair)] = ended[pair]

LEMMA PairInit == Init => PairInv
BY DEF Init, PairInv, Keys

LEMMA PairNext ==
    ASSUME TypeInv, PairInv, [Next]_vars
    PROVE  PairInv'
<1>1. ASSUME UNCHANGED <<stats, ended>> PROVE PairInv'
  BY <1>1 DEF PairInv, Unmistakable, Key
<1>2. CASE End
  <2>1. PICK ending \in Pairs, success \in BOOLEAN : Ends(ending, success)
    BY <1>2, EndIs
  <2> DEFINE key == Key(ending)
             more == [requests |-> ended[ending].requests + 1,
                      failures |-> IF success THEN ended[ending].failures
                                   ELSE ended[ending].failures + 1]
  <2>2. /\ key \in Keys /\ stats \in [Keys -> Counts] /\ ended \in [Pairs -> Counts]
        /\ stats[key] \in Counts
    BY DEF Keys, TypeInv
  <2>3. /\ stats' = [stats EXCEPT ![key] = Counted(stats[key], success)]
        /\ ended' = [ended EXCEPT ![ending] = more]
    BY <2>1, Zenon DEF Ends
  <2> HIDE DEF more, key
  <2>4. /\ stats'[key] = Counted(stats[key], success)
        /\ \A k \in Keys : k # key => stats'[k] = stats[k]
        /\ ended'[ending] = more
        /\ \A pair \in Pairs : pair # ending => ended'[pair] = ended[pair]
    BY <2>2, <2>3
  <2>5. ASSUME NEW pair \in Pairs, Unmistakable(pair)
        PROVE  stats'[Key(pair)] = ended'[pair]
    <3>1. Key(pair) \in Keys /\ stats[Key(pair)] = ended[pair]
      BY <2>5 DEF Keys, PairInv
    <3>2. CASE pair = ending
      <4>1. stats[key] = ended[ending] /\ key = Key(pair)
        BY <3>1, <3>2 DEF key
      <4>2. Counted(stats[key], success) = more
        BY <2>2, <4>1, CountedIs DEF more
      <4> QED
        BY <2>4, <3>2, <4>1, <4>2
    <3>3. CASE pair # ending
      <4>1. Key(pair) # key
        BY <2>5, <3>3 DEF Unmistakable, key
      <4> QED
        BY <2>4, <3>1, <3>3, <4>1
    <3> QED
      BY <3>2, <3>3
  <2> QED
    BY <2>5 DEF PairInv, Unmistakable, Key
<1> QED
  BY <1>1, <1>2 DEF Next, Start, Tick, Second, SetClock, vars

LEMMA AlwaysPaired == Spec => []PairInv
BY AlwaysTyped, PairInit, PairNext, PTL DEF Spec

\* The rows that a snapshot shows.
LEMMA RowsAre ==
    ASSUME Tick
    PROVE  /\ shown'.rows = {Row(key) : key \in Present \ {Total}}
           /\ Present \ {Total} = {key \in Keys : stats[key].requests > 0}
<1>1. shown'.rows = {Row(key) : key \in Present \ {Total}}
  BY DEF Tick
<1>2. \A key \in Keys : key # Total
  BY KeyOfSplit
<1> QED
  BY <1>1, <1>2 DEF Present

\* Every snapshot shows what ended under the provider and the model it ended
\* with, and nothing else under these; also if there are colons in the name of
\* the model.
THEOREM StatsAlwaysAttributed == Spec => StatsAttributed
<1>1. ASSUME PairInv, Tick PROVE RowsTell
  <2> SUFFICES ASSUME NEW pair \in Pairs, Unmistakable(pair),
                      \A i \in DOMAIN pair.provider : pair.provider[i] # ":",
                      ended[pair].requests > 0
               PROVE  {row \in shown'.rows : row.pair = pair}
                         = {[pair |-> pair, requests |-> ended[pair].requests,
                             failures |-> ended[pair].failures]}
    BY DEF RowsTell
  <2> DEFINE here == Present \ {Total}
             mine == [pair |-> pair, requests |-> ended[pair].requests,
                      failures |-> ended[pair].failures]
  <2>1. /\ shown'.rows = {Row(key) : key \in here}
        /\ here = {key \in Keys : stats[key].requests > 0}
    BY <1>1, RowsAre
  <2>2. stats[Key(pair)] = ended[pair] /\ Split(Key(pair)) = pair
    BY <1>1, SplitOfKey DEF PairInv
  <2>3. Key(pair) \in here
    BY <2>1, <2>2 DEF Keys
  <2>4. Row(Key(pair)) = mine /\ mine.pair = pair
    BY <2>2 DEF Row
  <2>5. ASSUME NEW key \in here, Row(key).pair = pair PROVE key = Key(pair)
    <3>1. Split(key) = pair
      BY <2>5 DEF Row
    <3>2. key \in Keys
      BY <2>1
    <3> QED
      BY <3>1, <3>2, KeyOfSplit
  <2> HIDE DEF here, mine
  <2>6. {row \in shown'.rows : row.pair = pair} = {mine}
    BY <2>1, <2>3, <2>4, <2>5
  <2> QED
    BY <2>6 DEF mine
<1>2. PairInv /\ [Next]_vars => [Tick => RowsTell]_vars
  BY <1>1
<1> QED
  BY <1>2, AlwaysPaired, PTL DEF Spec, StatsAttributed

-----------------------------------------------------------------------------
(* Sums.                                                                   *)

LEMMA UnitsAre ==
    ASSUME NEW S, NEW f \in [S -> Nat]
    PROVE  \A u : u \in Units(f) <=> \E x \in S, i \in Nat :
                                         i >= 1 /\ i <= f[x] /\ u = <<x, i>>
<1>1. DOMAIN f = S
  OBVIOUS
<1>2. ASSUME NEW u, u \in Units(f)
      PROVE  \E x \in S, i \in Nat : i >= 1 /\ i <= f[x] /\ u = <<x, i>>
  <2>1. PICK x \in S : u \in {x} \X (1 .. f[x])
    BY <1>1, <1>2 DEF Units
  <2>2. PICK i \in 1 .. f[x] : u = <<x, i>>
    BY <2>1
  <2>3. i \in Nat /\ i >= 1 /\ i <= f[x]
    BY <2>2
  <2> QED
    BY <2>2, <2>3
<1>3. ASSUME NEW x \in S, NEW i \in Nat, i >= 1, i <= f[x]
      PROVE  <<x, i>> \in Units(f)
  <2>1. i \in 1 .. f[x]
    BY <1>3
  <2>2. <<x, i>> \in {x} \X (1 .. f[x])
    BY <2>1
  <2> QED
    BY <1>1, <2>2 DEF Units
<1> QED
  BY <1>2, <1>3

\* One more at one place is one more in the sum.
LEMMA OneMore ==
    ASSUME NEW S, NEW f \in [S -> Nat], NEW g \in [S -> Nat], NEW x \in S,
           g[x] = f[x] + 1, \A y \in S : y # x => g[y] = f[y],
           IsFiniteSet(Units(f))
    PROVE  IsFiniteSet(Units(g)) /\ SumOver(g) = SumOver(f) + 1
<1> DEFINE new == <<x, f[x] + 1>>
<1>1. f[x] \in Nat
  OBVIOUS
<1>2. new \notin Units(f)
  <2> SUFFICES ASSUME new \in Units(f) PROVE FALSE
    OBVIOUS
  <2>1. PICK y \in S, i \in Nat : i >= 1 /\ i <= f[y] /\ new = <<y, i>>
    BY UnitsAre
  <2>2. y = x /\ i = f[x] + 1
    BY <2>1
  <2> QED
    BY <1>1, <2>1, <2>2
<1>3. Units(g) = Units(f) \cup {new}
  <2>1. ASSUME NEW u \in Units(g) PROVE u \in Units(f) \cup {new}
    <3>1. PICK y \in S, i \in Nat : i >= 1 /\ i <= g[y] /\ u = <<y, i>>
      BY <2>1, UnitsAre
    <3>2. CASE y = x /\ i = f[x] + 1
      BY <3>1, <3>2
    <3>3. CASE ~(y = x /\ i = f[x] + 1)
      <4>1. i <= f[y]
        BY <1>1, <3>1, <3>3
      <4> QED
        BY <3>1, <4>1, UnitsAre
    <3> QED
      BY <3>2, <3>3
  <2>2. ASSUME NEW u \in Units(f) PROVE u \in Units(g)
    <3>1. PICK y \in S, i \in Nat : i >= 1 /\ i <= f[y] /\ u = <<y, i>>
      BY <2>2, UnitsAre
    <3>2. i <= g[y]
      BY <1>1, <3>1
    <3> QED
      BY <3>1, <3>2, UnitsAre
  <2>3. new \in Units(g)
    <3>1. f[x] + 1 \in Nat /\ f[x] + 1 >= 1 /\ f[x] + 1 <= g[x]
      BY <1>1
    <3> QED
      BY <3>1, UnitsAre
  <2> HIDE DEF new
  <2> QED
    BY <2>1, <2>2, <2>3
<1> HIDE DEF new
<1>4. /\ IsFiniteSet(Units(f) \cup {new})
      /\ Cardinality(Units(f) \cup {new}) = Cardinality(Units(f)) + 1
  BY <1>2, FS_AddElement
<1> QED
  BY <1>3, <1>4 DEF SumOver

\* Zeros add up to zero.
LEMMA NoUnits ==
    ASSUME NEW S, NEW f \in [S -> Nat], \A x \in S : f[x] = 0
    PROVE  IsFiniteSet(Units(f)) /\ SumOver(f) = 0
<1>1. ASSUME NEW u \in Units(f) PROVE FALSE
  <2>1. PICK x \in S, i \in Nat : i >= 1 /\ i <= f[x] /\ u = <<x, i>>
    BY <1>1, UnitsAre
  <2> QED
    BY <2>1
<1>2. Units(f) = {}
  BY <1>1
<1> QED
  BY <1>2, FS_EmptySet DEF SumOver

\* The sum is the same if each t of T has the number of a place h[t], no two of
\* them have the same, and every place with a number that is not 0 is taken.
LEMMA SameSum ==
    ASSUME NEW S, NEW f \in [S -> Nat], IsFiniteSet(Units(f)),
           NEW T, NEW g \in [T -> Nat], NEW h \in [T -> S],
           \A t \in T : g[t] = f[h[t]],
           \A t, u \in T : h[t] = h[u] => t = u,
           \A x \in S : f[x] > 0 => \E t \in T : h[t] = x
    PROVE  SumOver(g) = SumOver(f)
<1> DEFINE m == [u \in Units(g) |-> <<h[u[1]], u[2]>>]
<1>1. ASSUME NEW u \in Units(g)
      PROVE  /\ u[1] \in T /\ u[2] \in Nat /\ u = <<u[1], u[2]>>
             /\ m[u] = <<h[u[1]], u[2]>> /\ m[u] \in Units(f)
  <2>1. PICK t \in T, i \in Nat : i >= 1 /\ i <= g[t] /\ u = <<t, i>>
    BY <1>1, UnitsAre
  <2>2. u[1] = t /\ u[2] = i
    BY <2>1
  <2>3. h[t] \in S /\ i <= f[h[t]]
    BY <2>1
  <2>4. <<h[t], i>> \in Units(f)
    BY <2>1, <2>3, UnitsAre
  <2>5. m[u] = <<h[t], i>>
    BY <2>2
  <2> QED
    BY <2>1, <2>2, <2>4, <2>5
<1>2. m \in [Units(g) -> Units(f)]
  BY <1>1
<1> HIDE DEF m
<1>3. ASSUME NEW u \in Units(g), NEW v \in Units(g), m[u] = m[v] PROVE u = v
  <2>1. h[u[1]] = h[v[1]] /\ u[2] = v[2]
    BY <1>1, <1>3
  <2>2. u[1] = v[1]
    BY <1>1, <2>1
  <2> QED
    BY <1>1, <2>1, <2>2
<1>4. ASSUME NEW w \in Units(f) PROVE \E u \in Units(g) : m[u] = w
  <2>1. PICK x \in S, i \in Nat : i >= 1 /\ i <= f[x] /\ w = <<x, i>>
    BY <1>4, UnitsAre
  <2>2. PICK t \in T : h[t] = x
    <3>1. f[x] \in Nat
      OBVIOUS
    <3> QED
      BY <2>1, <3>1
  <2>3. <<t, i>> \in Units(g)
    BY <2>1, <2>2, UnitsAre
  <2>4. m[<<t, i>>] = <<h[<<t, i>>[1]], <<t, i>>[2]>>
    BY <1>1, <2>3
  <2> QED
    BY <2>1, <2>2, <2>3, <2>4
<1>5. m \in Bijection(Units(g), Units(f))
  BY <1>2, <1>3, <1>4, Fun_IsBij
<1>6. ExistsBijection(Units(f), Units(g))
  BY <1>5, Fun_ExistsBij, Fun_ExistsBijSymmetric
<1> QED
  BY <1>6, FS_Bijection DEF SumOver

Requests == [key \in Keys |-> stats[key].requests]
Failures == [key \in Keys |-> stats[key].failures]

SumInv ==
    /\ IsFiniteSet(Units(Requests))
    /\ SumOver(Requests) = global.success + global.failed
    /\ IsFiniteSet(Units(Failures))
    /\ SumOver(Failures) = global.failed
    /\ \A key \in Keys : stats[key].failures <= stats[key].requests

LEMMA SumsTyped ==
    ASSUME TypeInv
    PROVE  /\ Requests \in [Keys -> Nat] /\ Failures \in [Keys -> Nat]
           /\ \A key \in Keys : /\ Requests[key] = stats[key].requests
                                /\ Failures[key] = stats[key].failures
<1>1. ASSUME NEW key \in Keys
      PROVE  stats[key].requests \in Nat /\ stats[key].failures \in Nat
  <2>1. stats[key] \in Counts
    BY DEF TypeInv
  <2> QED
    BY <2>1 DEF Counts
<1> QED
  BY <1>1 DEF Requests, Failures

\* The same of the next state.
LEMMA SumsThen ==
    ASSUME TypeInv'
    PROVE  /\ Requests' \in [Keys -> Nat] /\ Failures' \in [Keys -> Nat]
           /\ \A key \in Keys : /\ Requests'[key] = stats'[key].requests
                                /\ Failures'[key] = stats'[key].failures
<1>1. ASSUME NEW key \in Keys
      PROVE  stats'[key].requests \in Nat /\ stats'[key].failures \in Nat
  <2>1. stats'[key] \in Counts
    BY DEF TypeInv, Keys, Key, Counts
  <2> QED
    BY <2>1 DEF Counts
<1> QED
  BY <1>1 DEF Requests, Failures, Keys, Key

LEMMA SumThen ==
    ASSUME IsFiniteSet(Units(Requests')),
           SumOver(Requests') = global'.success + global'.failed,
           IsFiniteSet(Units(Failures')), SumOver(Failures') = global'.failed,
           \A key \in Keys : stats'[key].failures <= stats'[key].requests
    PROVE  SumInv'
BY DEF SumInv, Keys, Key, SumOver, Units

LEMMA SumInit == Init => SumInv
<1> SUFFICES ASSUME Init PROVE SumInv
  OBVIOUS
<1>1. /\ Requests \in [Keys -> Nat] /\ \A key \in Keys : Requests[key] = 0
      /\ Failures \in [Keys -> Nat] /\ \A key \in Keys : Failures[key] = 0
  BY DEF Init, Requests, Failures
<1>2. /\ IsFiniteSet(Units(Requests)) /\ SumOver(Requests) = 0
      /\ IsFiniteSet(Units(Failures)) /\ SumOver(Failures) = 0
  BY <1>1, NoUnits
<1>3. global.success + global.failed = 0 /\ global.failed = 0
  BY DEF Init
<1>4. \A key \in Keys : stats[key].failures <= stats[key].requests
  BY DEF Init
<1> QED
  BY <1>2, <1>3, <1>4 DEF SumInv

\* The end of a request is one more of its key, and of all.
LEMMA SumEnd ==
    ASSUME TypeInv, TypeInv', SumInv, End
    PROVE  SumInv'
<1>0. IsFiniteSet(Units(Requests)) /\ IsFiniteSet(Units(Failures))
  BY DEF SumInv
<1>1. PICK ending \in Pairs, success \in BOOLEAN : Ends(ending, success)
  BY EndIs
<1> DEFINE key == Key(ending)
<1>2. key \in Keys /\ stats \in [Keys -> Counts] /\ stats[key] \in Counts
  BY DEF Keys, TypeInv
<1>3. stats' = [stats EXCEPT ![key] = Counted(stats[key], success)]
  BY <1>1, Zenon DEF Ends
<1> HIDE DEF key
<1>4. /\ stats'[key] = Counted(stats[key], success)
      /\ \A k \in Keys : k # key => stats'[k] = stats[k]
  BY <1>2, <1>3
<1>5. stats[key].requests \in Nat /\ stats[key].failures \in Nat
  BY <1>2 DEF Counts
<1>6. /\ stats'[key].requests = stats[key].requests + 1
      /\ success => stats'[key].failures = stats[key].failures
      /\ ~success => stats'[key].failures = stats[key].failures + 1
  BY <1>2, <1>4, CountedIs
<1>7. /\ Requests \in [Keys -> Nat] /\ Requests' \in [Keys -> Nat]
      /\ Failures \in [Keys -> Nat] /\ Failures' \in [Keys -> Nat]
      /\ \A k \in Keys : /\ Requests[k] = stats[k].requests
                         /\ Failures[k] = stats[k].failures
                         /\ Requests'[k] = stats'[k].requests
                         /\ Failures'[k] = stats'[k].failures
  BY SumsTyped, SumsThen
<1>8. global.success \in Nat /\ global.failed \in Nat
  BY DEF TypeInv
<1>9. /\ IsFiniteSet(Units(Requests')) /\ SumOver(Requests') = SumOver(Requests) + 1
  <2>1. /\ Requests'[key] = Requests[key] + 1
        /\ \A k \in Keys : k # key => Requests'[k] = Requests[k]
    BY <1>2, <1>4, <1>6, <1>7
  <2> QED
    BY <1>2, <1>7, <2>1, <1>0, OneMore
<1>10. \A k \in Keys : stats'[k].failures <= stats'[k].requests
  <2>1. stats'[key].failures <= stats'[key].requests
    BY <1>2, <1>5, <1>6 DEF SumInv
  <2> QED
    BY <1>4, <2>1 DEF SumInv
<1>11. CASE success
  <2>1. \A k \in Keys : Failures'[k] = Failures[k]
    BY <1>4, <1>6, <1>7, <1>11
  <2>2. Failures' = Failures
    BY <1>7, <2>1
  <2>3. global'.success = global.success + 1 /\ global'.failed = global.failed
    BY <1>1, <1>11, EndCounts DEF Sums3
  <2>4. SumOver(Requests') = global'.success + global'.failed
    BY <1>8, <1>9, <2>3 DEF SumInv
  <2>5. IsFiniteSet(Units(Failures')) /\ SumOver(Failures') = global'.failed
    BY <2>2, <2>3 DEF SumInv
  <2> QED
    BY <1>9, <1>10, <2>4, <2>5, SumThen
<1>12. CASE ~success
  <2>1. /\ Failures'[key] = Failures[key] + 1
        /\ \A k \in Keys : k # key => Failures'[k] = Failures[k]
    BY <1>2, <1>4, <1>6, <1>7, <1>12
  <2>2. IsFiniteSet(Units(Failures')) /\ SumOver(Failures') = SumOver(Failures) + 1
    BY <1>2, <1>7, <2>1, <1>0, OneMore
  <2>3. global'.success = global.success /\ global'.failed = global.failed + 1
    BY <1>1, <1>12, EndCounts DEF Sums3
  <2>4. /\ SumOver(Requests') = global'.success + global'.failed
        /\ SumOver(Failures') = global'.failed
    BY <1>8, <1>9, <2>2, <2>3 DEF SumInv
  <2> QED
    BY <1>9, <1>10, <2>2, <2>4, SumThen
<1> QED
  BY <1>11, <1>12

LEMMA SumNext ==
    ASSUME TypeInv, TypeInv', SumInv, [Next]_vars
    PROVE  SumInv'
<1>1. CASE End
  BY <1>1, SumEnd
<1>2. CASE ~End
  <2>1. stats' = stats
    BY <1>2 DEF Next, Start, Tick, Second, SetClock, vars
  <2>2. global'.success = global.success /\ global'.failed = global.failed
    <3>1. CASE Start
      BY <3>1, StartCounts DEF Sums3
    <3>2. CASE ~Start
      BY <1>2, <3>2 DEF Next, Tick, Second, SetClock, vars
    <3> QED
      BY <3>1, <3>2
  <2>3. Requests' = Requests /\ Failures' = Failures
    BY <2>1 DEF Requests, Failures, Keys, Key
  <2> QED
    BY <2>1, <2>2, <2>3, SumThen DEF SumInv
<1> QED
  BY <1>1, <1>2

LEMMA AlwaysSummed == Spec => [](TypeInv /\ SumInv)
<1>1. Init => SumInv
  BY SumInit
<1>2. TypeInv /\ TypeInv' /\ SumInv /\ [Next]_vars => SumInv'
  BY SumNext
<1> QED
  BY <1>1, <1>2, AlwaysTyped, PTL DEF Spec

\* The rows of a snapshot are those of the keys that are there.
LEMMA RowsAddedUp ==
    ASSUME TypeInv, SumInv, Tick
    PROVE  RowsAddUp
<1>0. IsFiniteSet(Units(Requests)) /\ IsFiniteSet(Units(Failures))
  BY DEF SumInv
<1> DEFINE rows == shown'.rows
           here == Present \ {Total}
           h == [row \in rows |-> Key(row.pair)]
           g == [row \in rows |-> row.requests]
           f == [row \in rows |-> row.failures]
<1>1. rows = {Row(key) : key \in here} /\ here = {key \in Keys : stats[key].requests > 0}
  BY RowsAre
<1>2. ASSUME NEW key \in here
      PROVE  /\ key \in Keys /\ Key(Row(key).pair) = key
             /\ Row(key).requests = Requests[key] /\ Row(key).failures = Failures[key]
             /\ Requests[key] \in Nat /\ Failures[key] \in Nat
             /\ Failures[key] <= Requests[key]
  <2>1. key \in Keys
    BY <1>1
  <2>2. Key(Split(key)) = key
    BY <2>1, KeyOfSplit
  <2> QED
    BY <2>1, <2>2, SumsTyped DEF Row, SumInv
<1>3. Requests \in [Keys -> Nat] /\ Failures \in [Keys -> Nat]
  BY SumsTyped
<1>4. ASSUME NEW key \in Keys, Requests[key] > 0 \/ Failures[key] > 0
      PROVE  key \in here
  <2>1. /\ Requests[key] \in Nat /\ Failures[key] \in Nat
        /\ Failures[key] <= Requests[key] /\ Requests[key] = stats[key].requests
    BY SumsTyped DEF SumInv
  <2> QED
    BY <1>1, <1>4, <2>1
<1> HIDE DEF rows, here
<1>5. ASSUME NEW row \in rows
      PROVE  /\ h[row] \in here /\ h[row] \in Keys /\ row = Row(h[row])
             /\ g[row] = Requests[h[row]] /\ f[row] = Failures[h[row]]
             /\ g[row] \in Nat /\ f[row] \in Nat /\ f[row] <= g[row]
  <2>1. PICK key \in here : row = Row(key)
    BY <1>1
  <2>2. h[row] = key
    BY <1>2, <2>1
  <2> QED
    BY <1>2, <2>1, <2>2
<1>6. h \in [rows -> Keys] /\ g \in [rows -> Nat] /\ f \in [rows -> Nat]
  BY <1>5
<1>7. \A row \in rows : row.failures <= row.requests
  BY <1>5
<1> HIDE DEF h, g, f
<1>8. \A row, other \in rows : h[row] = h[other] => row = other
  BY <1>5
<1>9. ASSUME NEW key \in here PROVE \E row \in rows : h[row] = key
  <2>1. Row(key) \in rows
    BY <1>1
  <2>2. h[Row(key)] = key
    BY <1>2, <2>1 DEF h
  <2> QED
    BY <2>1, <2>2
<1>10. SumOver(g) = SumOver(Requests)
  <2>1. \A row \in rows : g[row] = Requests[h[row]]
    BY <1>5
  <2>2. \A key \in Keys : Requests[key] > 0 => \E row \in rows : h[row] = key
    BY <1>4, <1>9
  <2> QED
    BY <1>3, <1>6, <1>8, <2>1, <2>2, <1>0, SameSum
<1>11. SumOver(f) = SumOver(Failures)
  <2>1. \A row \in rows : f[row] = Failures[h[row]]
    BY <1>5
  <2>2. \A key \in Keys : Failures[key] > 0 => \E row \in rows : h[row] = key
    BY <1>4, <1>9
  <2> QED
    BY <1>3, <1>6, <1>8, <2>1, <2>2, <1>0, SameSum
<1> QED
  BY <1>7, <1>10, <1>11 DEF RowsAddUp, SumInv, g, f, rows

\* The last point of a series is that of the snapshot.
LEMMA LastPoint ==
    ASSUME TypeInv, Tick, NEW key \in Present
    PROVE  series'[key][Len(series'[key])].requests = Sums(key).requests
<1> DEFINE z == Point(key, Rate(recent'[key]))
           p == Append(series[key], z)
<1>1. key \in All /\ recent'[key] \in Seq(Samples)
  BY AddedTyped, TickDoes
<1>2. z \in Points /\ z.requests = Sums(key).requests
  BY <1>1, RateTyped, AddedTyped DEF Point
<1>3. series'[key] = Capped(p) /\ series[key] \in Seq(Points)
  BY <1>1, TickDoes DEF TickOn, TypeInv
<1> HIDE DEF z
<1>4. p \in Seq(Points) /\ Len(p) \in Nat /\ Len(p) > 0 /\ p[Len(p)] = z
  BY <1>2, <1>3
<1> HIDE DEF p
<1> DEFINE d == Minus(Len(p), MaxPoints)
<1>5. /\ d \in Nat /\ d < Len(p) /\ Len(Capped(p)) = Len(p) - d
      /\ \A i \in 1 .. Len(p) - d : Capped(p)[i] = p[d + i]
  BY <1>4, CappedIs
<1> HIDE DEF d
<1>6. Len(p) - d \in 1 .. Len(p) - d /\ d + (Len(p) - d) = Len(p)
  BY <1>4, <1>5
<1>7. Capped(p)[Len(Capped(p))] = z
  BY <1>4, <1>5, <1>6
<1> QED
  BY <1>2, <1>3, <1>7

LEMMA PointsAddedUp ==
    ASSUME TypeInv, SumInv, Tick
    PROVE  PointsAddUp
<1>0. IsFiniteSet(Units(Requests))
  BY DEF SumInv
<1> DEFINE here == Present \ {Total}
           g == [key \in here |-> series'[key][Len(series'[key])].requests]
           h == [key \in here |-> key]
<1>1. here = {key \in Keys : stats[key].requests > 0}
  BY RowsAre
<1>2. /\ Requests \in [Keys -> Nat]
      /\ \A key \in Keys : Requests[key] = stats[key].requests
  BY SumsTyped
<1>3. ASSUME NEW key \in here
      PROVE  key \in Keys /\ h[key] = key /\ g[key] = Requests[key]
  <2>1. key \in Present /\ key # Total /\ key \in Keys
    BY <1>1
  <2>2. series'[key][Len(series'[key])].requests = stats[key].requests
    BY <2>1, LastPoint DEF Sums
  <2> QED
    BY <1>2, <2>1, <2>2
<1> HIDE DEF here
<1>4. h \in [here -> Keys]
  BY <1>3
<1>5. g \in [here -> Nat]
  BY <1>2, <1>3
<1> HIDE DEF g, h
<1>6. \A key \in here : g[key] = Requests[h[key]]
  BY <1>3
<1>7. \A key, other \in here : h[key] = h[other] => key = other
  BY <1>3
<1>8. \A key \in Keys : Requests[key] > 0 => \E k \in here : h[k] = key
  BY <1>1, <1>2, <1>3
<1>9. SumOver(g) = SumOver(Requests)
  BY <1>2, <1>4, <1>5, <1>6, <1>7, <1>8, <1>0, SameSum
<1> QED
  BY <1>9 DEF PointsAddUp, SumInv, g, here

\* The rows of every snapshot add up to the requests that ended and to those
\* that failed, and the last points of the series to those that ended, whatever
\* the names of providers and models are.
THEOREM SumsAlwaysAgree == Spec => SumsAgree
<1>1. ASSUME TypeInv, SumInv, Tick PROVE RowsAddUp /\ PointsAddUp
  BY <1>1, RowsAddedUp, PointsAddedUp
<1>2. TypeInv /\ SumInv /\ [Next]_vars => [Tick => RowsAddUp /\ PointsAddUp]_vars
  BY <1>1
<1> QED
  BY <1>2, AlwaysSummed, PTL DEF Spec, SumsAgree
=============================================================================
