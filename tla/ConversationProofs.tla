------------------------- MODULE ConversationProofs -------------------------
(***************************************************************************)
(* Proofs about Conversation, for conversations of any length and answers  *)
(* with any number of calls.                                               *)
(***************************************************************************)
EXTENDS Conversation, Induction, TLAPS

-----------------------------------------------------------------------------
(* Sequences.                                                              *)

LEMMA SameSeq ==
    ASSUME NEW S, NEW s \in Seq(S), NEW t \in Seq(S), Len(s) = Len(t),
           \A i \in 1 .. Len(s) : s[i] = t[i]
    PROVE  s = t
OBVIOUS

LEMMA Joined ==
    ASSUME NEW S, NEW s \in Seq(S), NEW t \in Seq(S)
    PROVE  /\ s \o t \in Seq(S)
           /\ Len(s \o t) = Len(s) + Len(t)
           /\ \A i \in 1 .. Len(s) : (s \o t)[i] = s[i]
           /\ \A i \in 1 .. Len(t) : (s \o t)[Len(s) + i] = t[i]
OBVIOUS

LEMMA JoinedNext ==
    ASSUME NEW S, NEW s \in Seq(S), NEW t \in Seq(S), Len(t) > 0
    PROVE  (s \o t)[Len(s) + 1] = t[1]
<1>1. 1 \in 1 .. Len(t)
  OBVIOUS
<1> QED
  BY <1>1, Joined

LEMMA JoinedNone ==
    ASSUME NEW S, NEW s \in Seq(S)
    PROVE  s \o <<>> = s /\ <<>> \o s = s
OBVIOUS

LEMMA JoinedTwice ==
    ASSUME NEW S
    PROVE  \A s, t, u \in Seq(S) : (s \o t) \o u = s \o (t \o u)
OBVIOUS

LEMMA AppendIs ==
    ASSUME NEW S, NEW s \in Seq(S), NEW e \in S
    PROVE  /\ Append(s, e) \in Seq(S) /\ Len(Append(s, e)) = Len(s) + 1
           /\ \A i \in 1 .. Len(s) : Append(s, e)[i] = s[i]
           /\ Append(s, e)[Len(s) + 1] = e
           /\ Append(s, e) = s \o <<e>>
OBVIOUS

LEMMA NoneIs ==
    ASSUME NEW S
    PROVE  /\ <<>> \in Seq(S) /\ Len(<<>>) = 0 /\ DOMAIN <<>> = {}
           /\ \A s \in Seq(S) : Len(s) = 0 => s = <<>>
OBVIOUS

LEMMA OneIs ==
    ASSUME NEW S, NEW e \in S
    PROVE  <<e>> \in Seq(S) /\ Len(<<e>>) = 1 /\ <<e>>[1] = e
OBVIOUS

LEMMA TwoIs ==
    ASSUME NEW S, NEW d \in S, NEW e \in S
    PROVE  /\ Append(<<d>>, e) = <<d, e>> /\ <<d>> \o <<e>> = <<d, e>>
           /\ <<d, e>> # <<>>
<1> DEFINE a == Append(<<d>>, e)
           b == <<d, e>>
<1>1. a \in Seq(S) /\ b \in Seq(S)
  OBVIOUS
<1>2. Len(a) = 2 /\ Len(b) = 2 /\ Len(<<>>) = 0
  OBVIOUS
<1>3. a[1] = d /\ b[1] = d /\ a[2] = e /\ b[2] = e
  OBVIOUS
<1>4. a = <<d>> \o <<e>>
  <2> DEFINE s == <<d>>
  <2>1. s \in Seq(S)
    OBVIOUS
  <2> HIDE DEF s
  <2>2. Append(s, e) = s \o <<e>>
    BY <2>1, AppendIs
  <2> QED
    BY <2>2 DEF s
<1> HIDE DEF a, b
<1>5. \A i \in 1 .. Len(a) : a[i] = b[i]
  <2>1. \A i \in 1 .. Len(a) : i = 1 \/ i = 2
    BY <1>2
  <2> QED
    BY <1>3, <2>1
<1>6. a = b
  BY <1>1, <1>2, <1>5, SameSeq
<1>7. b # <<>>
  BY <1>2
<1> QED
  BY <1>4, <1>6, <1>7 DEF a, b

LEMMA SeqIs ==
    ASSUME NEW S, NEW s \in Seq(S)
    PROVE  /\ Len(s) \in Nat /\ DOMAIN s = 1 .. Len(s)
           /\ \A i \in 1 .. Len(s) : s[i] \in S
OBVIOUS

\* A sequence that is not empty, from its end.
LEMMA FromEnd ==
    ASSUME NEW S, NEW s \in Seq(S), Len(s) > 0
    PROVE  \E r \in Seq(S), e \in S : s = Append(r, e) /\ Len(r) = Len(s) - 1
<1> DEFINE n == Len(s)
           r == [i \in 1 .. n - 1 |-> s[i]]
<1>1. n \in Nat /\ n >= 1 /\ n \in 1 .. n
  OBVIOUS
<1>2. r \in Seq(S) /\ Len(r) = n - 1 /\ \A i \in 1 .. n - 1 : r[i] = s[i]
  <2>1. r \in Seq(S)
    BY <1>1
  <2>2. Len(r) = n - 1
    BY <1>1
  <2>3. \A i \in 1 .. n - 1 : r[i] = s[i]
    BY <1>1
  <2> QED
    BY <2>1, <2>2, <2>3
<1>3. s[n] \in S
  BY <1>1
<1> HIDE DEF r
<1>4. Append(r, s[n]) \in Seq(S) /\ Len(Append(r, s[n])) = n
  BY <1>1, <1>2, <1>3
<1>5. ASSUME NEW i \in 1 .. n PROVE Append(r, s[n])[i] = s[i]
  <2>1. CASE i = n
    BY <1>1, <1>2, <1>3, <2>1, AppendIs
  <2>2. CASE i # n
    <3>1. i \in 1 .. n - 1
      BY <1>1, <2>2
    <3> QED
      BY <1>2, <1>3, <3>1, AppendIs
  <2> QED
    BY <2>1, <2>2
<1>6. Append(r, s[n]) = s
  BY <1>4, <1>5, SameSeq
<1> QED
  BY <1>2, <1>3, <1>6

\* Induction over sequences, from their end.
LEMMA InductionOnSeq ==
    ASSUME NEW S, NEW P, <<>> \in P,
           \A s \in Seq(S), e \in S : s \in P => Append(s, e) \in P
    PROVE  Seq(S) \subseteq P
<1> DEFINE Q == {n \in Nat : \A s \in Seq(S) : Len(s) = n => s \in P}
<1>1. 0 \in Q
  BY NoneIs
<1>2. ASSUME NEW n \in Nat \cap Q PROVE n + 1 \in Q
  <2> SUFFICES ASSUME NEW s \in Seq(S), Len(s) = n + 1 PROVE s \in P
    OBVIOUS
  <2>0. Len(s) > 0
    OBVIOUS
  <2>1. PICK r \in Seq(S), e \in S : s = Append(r, e) /\ Len(r) = Len(s) - 1
    BY <2>0, FromEnd
  <2>2. Len(r) = n
    BY <2>1
  <2>3. r \in P
    BY <1>2, <2>2
  <2> QED
    BY <2>1, <2>3
<1> HIDE DEF Q
<1>3. Nat \subseteq Q
  BY <1>1, <1>2, InductionOnNat
<1> QED
  BY <1>3 DEF Q

-----------------------------------------------------------------------------
(* One sequence after another.                                             *)

\* The sequences up to n are of elements of S.
Lists(ss, n, S) == n \in Nat /\ \A i \in 1 .. n : ss[i] \in Seq(S)

\* f goes on as Flat does.
Flats(ss, n, S, f) ==
    /\ f \in [0 .. n -> Seq(S)]
    /\ f[0] = <<>>
    /\ \A i \in 1 .. n : f[i] = f[i - 1] \o ss[i]

LEMMA FlatExists ==
    ASSUME NEW S, NEW n, NEW ss, Lists(ss, n, S)
    PROVE  \E f : Flats(ss, n, S, f)
<1> DEFINE Step == [z \in Seq(S) \X (1 .. n) |-> z[1] \o ss[z[2]]]
<1>1. n \in Nat /\ \A i \in 1 .. n : ss[i] \in Seq(S)
  BY DEF Lists
<1>2. IsStep(Step, Seq(S), n)
  <2>1. ASSUME NEW z \in Seq(S) \X (1 .. n) PROVE z[1] \o ss[z[2]] \in Seq(S)
    <3>1. z[1] \in Seq(S) /\ ss[z[2]] \in Seq(S)
      BY <1>1
    <3> QED
      BY <3>1
  <2> QED
    BY <2>1 DEF IsStep
<1>3. <<>> \in Seq(S)
  OBVIOUS
<1>4. ASSUME NEW s \in Seq(S), NEW i \in 1 .. n PROVE Step[<<s, i>>] = s \o ss[i]
  OBVIOUS
<1> HIDE DEF Step
<1>5. PICK f : Follows(f, Seq(S), <<>>, n, Step)
  BY <1>1, <1>2, <1>3, Recursion
<1>6. f \in [0 .. n -> Seq(S)] /\ f[0] = <<>>
  BY <1>5 DEF Follows
<1>7. ASSUME NEW i \in 1 .. n PROVE f[i] = f[i - 1] \o ss[i]
  <2>1. i - 1 \in 0 .. n
    BY <1>1
  <2>2. f[i - 1] \in Seq(S)
    BY <1>6, <2>1
  <2> QED
    BY <1>4, <1>5, <2>2 DEF Follows
<1> QED
  BY <1>6, <1>7 DEF Flats

\* Flat is the last value of what goes on so.
LEMMA FlatIs ==
    ASSUME NEW S, NEW n, NEW ss, Lists(ss, n, S), NEW f, Flats(ss, n, S, f)
    PROVE  Flat(ss, n) = f[n]
<1> DEFINE Is(g) == g = [i \in 0 .. n |-> IF i = 0 THEN <<>> ELSE g[i - 1] \o ss[i]]
           flat == CHOOSE g : Is(g)
<1>1. n \in Nat
  BY DEF Lists
<1>2. Is(f)
  <2> DEFINE h == [i \in 0 .. n |-> IF i = 0 THEN <<>> ELSE f[i - 1] \o ss[i]]
  <2>1. ASSUME NEW i \in 0 .. n PROVE f[i] = h[i]
    <3>1. CASE i = 0
      BY <3>1 DEF Flats
    <3>2. CASE i # 0
      <4>1. i \in 1 .. n
        BY <1>1, <3>2
      <4> QED
        BY <3>2, <4>1 DEF Flats
    <3> QED
      BY <3>1, <3>2
  <2>2. h = [i \in 0 .. n |-> h[i]] /\ f = [i \in 0 .. n |-> f[i]]
    BY DEF Flats
  <2> HIDE DEF h
  <2>3. [i \in 0 .. n |-> f[i]] = [i \in 0 .. n |-> h[i]]
    BY <2>1
  <2>4. f = h
    BY <2>2, <2>3, Zenon
  <2> QED
    BY <2>4, Zenon DEF h
<1>3. Flat(ss, n) = flat[n]
  BY DEF Flat
<1>4. Is(flat)
  BY <1>2, Zenon
<1> HIDE DEF flat
<1>5. flat[0] = <<>> /\ \A i \in 1 .. n : flat[i] = flat[i - 1] \o ss[i]
  <2>1. flat[0] = <<>>
    BY <1>1, <1>4
  <2>2. ASSUME NEW i \in 1 .. n PROVE flat[i] = flat[i - 1] \o ss[i]
    <3>1. i \in 0 .. n /\ i # 0
      BY <1>1
    <3> QED
      BY <1>4, <3>1
  <2> QED
    BY <2>1, <2>2
<1> HIDE DEF Is
<1> DEFINE P == {i \in Nat : flat[i] = f[i]}
<1>6. 0 \in P
  BY <1>5 DEF Flats
<1>7. ASSUME NEW i \in 1 .. n, i - 1 \in P PROVE i \in P
  <2>1. i \in Nat /\ flat[i - 1] = f[i - 1]
    BY <1>1, <1>7
  <2>2. flat[i] = flat[i - 1] \o ss[i] /\ f[i] = f[i - 1] \o ss[i]
    BY <1>5 DEF Flats
  <2> QED
    BY <2>1, <2>2
<1> HIDE DEF P
<1>8. n \in P
  BY <1>1, <1>6, <1>7, InductionUpTo
<1> QED
  BY <1>3, <1>8 DEF P

LEMMA FlatNone ==
    ASSUME NEW ss
    PROVE  Flat(ss, 0) = <<>>
<1>1. Lists(ss, 0, {})
  BY DEF Lists
<1>2. PICK f : Flats(ss, 0, {}, f)
  BY <1>1, FlatExists
<1> QED
  BY <1>1, <1>2, FlatIs DEF Flats

LEMMA FlatNext ==
    ASSUME NEW S, NEW n \in Nat, NEW ss, Lists(ss, n + 1, S)
    PROVE  /\ Flat(ss, n) \in Seq(S)
           /\ Flat(ss, n + 1) = Flat(ss, n) \o ss[n + 1]
<1>1. PICK f : Flats(ss, n + 1, S, f)
  BY FlatExists
<1> DEFINE g == [i \in 0 .. n |-> f[i]]
<1>2. Lists(ss, n, S)
  BY DEF Lists
<1>3. Flats(ss, n, S, g)
  <2>1. \A i \in 0 .. n : i \in 0 .. n + 1
    OBVIOUS
  <2>2. \A i \in 1 .. n : i \in 1 .. n + 1 /\ i \in 0 .. n /\ i - 1 \in 0 .. n
    OBVIOUS
  <2>3. g \in [0 .. n -> Seq(S)] /\ g[0] = <<>>
    BY <1>1, <2>1 DEF Flats
  <2>4. \A i \in 1 .. n : g[i] = g[i - 1] \o ss[i]
    BY <1>1, <2>2 DEF Flats
  <2> QED
    BY <2>3, <2>4 DEF Flats
<1>4. Flat(ss, n) = g[n] /\ Flat(ss, n + 1) = f[n + 1]
  BY <1>1, <1>2, <1>3, FlatIs
<1>5. n \in 0 .. n /\ n \in 0 .. n + 1 /\ n + 1 \in 1 .. n + 1 /\ (n + 1) - 1 = n
  OBVIOUS
<1>6. g[n] = f[n] /\ f[n] \in Seq(S)
  BY <1>1, <1>5 DEF Flats
<1>7. f[n + 1] = f[n] \o ss[n + 1]
  BY <1>1, <1>5 DEF Flats
<1> QED
  BY <1>4, <1>6, <1>7

\* Only what comes in counts.
LEMMA FlatSame ==
    ASSUME NEW S, NEW n, NEW ss, NEW tt, Lists(ss, n, S), \A i \in 1 .. n : tt[i] = ss[i]
    PROVE  Flat(tt, n) = Flat(ss, n)
<1>1. PICK f : Flats(ss, n, S, f)
  BY FlatExists
<1>2. Lists(tt, n, S) /\ Flats(tt, n, S, f)
  BY <1>1 DEF Lists, Flats
<1> QED
  BY <1>1, <1>2, FlatIs

-----------------------------------------------------------------------------
(* What a function gives for each element, all of it in one sequence.      *)

Maps(G, S, T) == G \in [S -> Seq(T)]

Lots(G, s) == [i \in DOMAIN s |-> G[s[i]]]

Gather(G, s) == Flat(Lots(G, s), Len(s))

LEMMA GatherLists ==
    ASSUME NEW S, NEW T, NEW G, Maps(G, S, T), NEW s \in Seq(S)
    PROVE  /\ Lists(Lots(G, s), Len(s), T)
           /\ \A i \in 1 .. Len(s) : Lots(G, s)[i] = G[s[i]]
BY SeqIs DEF Lists, Maps, Lots

LEMMA GatherNone ==
    ASSUME NEW G
    PROVE  Gather(G, <<>>) = <<>>
<1>1. Len(<<>>) = 0
  OBVIOUS
<1> QED
  BY <1>1, FlatNone DEF Gather

LEMMA GatherAppend ==
    ASSUME NEW S, NEW T, NEW G, Maps(G, S, T), NEW s \in Seq(S), NEW e \in S
    PROVE  /\ Gather(G, s) \in Seq(T)
           /\ Gather(G, Append(s, e)) = Gather(G, s) \o G[e]
<1> DEFINE a == Append(s, e)
           ss == Lots(G, s)
           aa == Lots(G, a)
<1>1. a \in Seq(S) /\ Len(a) = Len(s) + 1 /\ a[Len(s) + 1] = e /\ Len(s) \in Nat
      /\ \A i \in 1 .. Len(s) : a[i] = s[i]
  OBVIOUS
<1>2. Lists(aa, Len(s) + 1, T) /\ Lists(ss, Len(s), T)
      /\ aa[Len(s) + 1] = G[e] /\ \A i \in 1 .. Len(s) : aa[i] = ss[i]
  <2>1. Lists(aa, Len(a), T) /\ \A i \in 1 .. Len(a) : aa[i] = G[a[i]]
    <3> HIDE DEF a
    <3> QED
      BY <1>1, GatherLists
  <2>2. Lists(ss, Len(s), T) /\ \A i \in 1 .. Len(s) : ss[i] = G[s[i]]
    BY GatherLists
  <2> HIDE DEF aa, ss, a
  <2>3. Len(s) + 1 \in 1 .. Len(a) /\ \A i \in 1 .. Len(s) : i \in 1 .. Len(a)
    BY <1>1
  <2> QED
    BY <1>1, <2>1, <2>2, <2>3
<1>3. Gather(G, a) = Flat(aa, Len(s) + 1) /\ Gather(G, s) = Flat(ss, Len(s))
  BY <1>1 DEF Gather
<1> HIDE DEF a, aa, ss
<1>4. Flat(aa, Len(s)) = Flat(ss, Len(s))
  BY <1>2, FlatSame
<1>5. Flat(aa, Len(s)) \in Seq(T) /\ Flat(aa, Len(s) + 1) = Flat(aa, Len(s)) \o aa[Len(s) + 1]
  <2> DEFINE n == Len(s)
  <2>1. n \in Nat /\ Lists(aa, n + 1, T)
    BY <1>1, <1>2
  <2> HIDE DEF n
  <2>2. Flat(aa, n) \in Seq(T) /\ Flat(aa, n + 1) = Flat(aa, n) \o aa[n + 1]
    BY <2>1, FlatNext
  <2> QED
    BY <2>2 DEF n
<1>6. Gather(G, s) \in Seq(T) /\ Gather(G, a) = Gather(G, s) \o G[e]
  <2>1. aa[Len(s) + 1] = G[e]
    BY <1>2
  <2>2. Flat(aa, Len(s)) \in Seq(T) /\ Gather(G, a) = Flat(aa, Len(s)) \o aa[Len(s) + 1]
    BY <1>3, <1>5, Zenon
  <2>3. Flat(aa, Len(s)) = Gather(G, s)
    BY <1>3, <1>4, Zenon
  <2> QED
    BY <2>1, <2>2, <2>3, Zenon
<1> QED
  BY <1>6, Zenon DEF a

LEMMA GatherTyped ==
    ASSUME NEW S, NEW T, NEW G, Maps(G, S, T), NEW s \in Seq(S)
    PROVE  Gather(G, s) \in Seq(T)
<1> DEFINE P == {x \in Seq(S) : Gather(G, x) \in Seq(T)}
<1>1. <<>> \in P
  <2>1. <<>> \in Seq(S) /\ <<>> \in Seq(T)
    OBVIOUS
  <2> QED
    BY <2>1, GatherNone, Zenon
<1>2. ASSUME NEW x \in Seq(S), NEW e \in S, x \in P PROVE Append(x, e) \in P
  <2>1. Gather(G, Append(x, e)) = Gather(G, x) \o G[e]
    <3> HIDE DEF P
    <3> QED
      BY GatherAppend
  <2>2. G[e] \in Seq(T)
    BY DEF Maps
  <2>3. Gather(G, x) \in Seq(T)
    BY <1>2, Zenon
  <2>4. Gather(G, x) \o G[e] \in Seq(T)
    BY <2>2, <2>3
  <2>5. Append(x, e) \in Seq(S)
    OBVIOUS
  <2> QED
    BY <2>1, <2>4, <2>5, Zenon
<1> HIDE DEF P
<1>3. Seq(S) \subseteq P
  BY <1>1, <1>2, InductionOnSeq
<1> QED
  BY <1>3 DEF P

LEMMA GatherOne ==
    ASSUME NEW S, NEW T, NEW G, Maps(G, S, T), NEW e \in S
    PROVE  Gather(G, <<e>>) = G[e]
<1>1. <<e>> = Append(<<>>, e) /\ <<>> \in Seq(S)
  OBVIOUS
<1>2. Gather(G, <<e>>) = Gather(G, <<>>) \o G[e]
  <2> DEFINE s == <<>>
  <2>1. s \in Seq(S)
    BY <1>1
  <2>3. Append(s, e) = <<e>>
    BY <1>1
  <2> HIDE DEF s
  <2>2. Gather(G, Append(s, e)) = Gather(G, s) \o G[e]
    BY <2>1, GatherAppend
  <2> QED
    BY <2>2, <2>3, Zenon DEF s
<1>3. G[e] \in Seq(T)
  BY DEF Maps
<1>4. <<>> \o G[e] = G[e]
  BY <1>3
<1> QED
  BY <1>2, <1>4, GatherNone, Zenon

LEMMA GatherJoined ==
    ASSUME NEW S, NEW T, NEW G, Maps(G, S, T), NEW s \in Seq(S), NEW t \in Seq(S)
    PROVE  Gather(G, s \o t) = Gather(G, s) \o Gather(G, t)
<1> DEFINE P == {x \in Seq(S) : Gather(G, s \o x) = Gather(G, s) \o Gather(G, x)}
<1>0. Gather(G, s) \in Seq(T)
  BY GatherTyped
<1>1. <<>> \in P
  <2>1. s \o <<>> = s /\ Gather(G, s) \o <<>> = Gather(G, s)
    BY <1>0, JoinedNone
  <2>2. s \in Seq(S) /\ <<>> \in Seq(S)
    OBVIOUS
  <2> QED
    BY <2>1, <2>2, GatherNone, Zenon
<1>9. \A a, b, c \in Seq(T) : (a \o b) \o c = a \o (b \o c)
  BY JoinedTwice, SMTT(20)
<1>2. ASSUME NEW x \in Seq(S), NEW e \in S, x \in P PROVE Append(x, e) \in P
  <2>1. s \o Append(x, e) = Append(s \o x, e) /\ s \o x \in Seq(S) /\ Append(x, e) \in Seq(S)
    OBVIOUS
  <2>2. Gather(G, Append(s \o x, e)) = Gather(G, s \o x) \o G[e]
        /\ Gather(G, Append(x, e)) = Gather(G, x) \o G[e]
    <3> DEFINE y == s \o x
    <3>1. y \in Seq(S)
      BY <2>1
    <3> HIDE DEF P, y
    <3>2. Gather(G, Append(y, e)) = Gather(G, y) \o G[e]
      BY <3>1, GatherAppend
    <3>3. Gather(G, Append(x, e)) = Gather(G, x) \o G[e]
      BY GatherAppend
    <3> QED
      BY <3>2, <3>3, Zenon DEF y
  <2>3. Gather(G, x) \in Seq(T) /\ G[e] \in Seq(T)
    BY GatherTyped, Zenon DEF Maps
  <2>4. (Gather(G, s) \o Gather(G, x)) \o G[e] = Gather(G, s) \o (Gather(G, x) \o G[e])
    <3> DEFINE a == Gather(G, s)
               b == Gather(G, x)
               c == G[e]
    <3>1. a \in Seq(T) /\ b \in Seq(T) /\ c \in Seq(T)
      BY <1>0, <2>3, Zenon
    <3> HIDE DEF P, a, b, c
    <3>2. (a \o b) \o c = a \o (b \o c)
      BY <1>9, <3>1, Zenon
    <3> QED
      BY <3>2, Zenon DEF a, b, c
  <2>5. Gather(G, s \o x) = Gather(G, s) \o Gather(G, x)
    BY <1>2
  <2>6. Gather(G, s \o Append(x, e)) = Gather(G, s) \o Gather(G, Append(x, e))
    BY <2>1, <2>2, <2>4, <2>5
  <2> QED
    BY <2>1, <2>6
<1> HIDE DEF P
<1>3. Seq(S) \subseteq P
  BY <1>1, <1>2, InductionOnSeq
<1> QED
  BY <1>3 DEF P

\* G makes the same of s as H of t, element by element.
Agree(G, s, H, t) == Len(t) = Len(s) /\ \A i \in 1 .. Len(s) : H[t[i]] = G[s[i]]

\* Only what the function gives counts.
LEMMA GatherAlike ==
    ASSUME NEW S, NEW T, NEW R, NEW G, NEW H, Maps(G, S, T), NEW s \in Seq(S), NEW t \in Seq(R),
           Agree(G, s, H, t)
    PROVE  Gather(H, t) = Gather(G, s)
<1>0. Len(t) = Len(s) /\ \A i \in 1 .. Len(s) : H[t[i]] = G[s[i]]
  BY DEF Agree
<1>1. Lists(Lots(G, s), Len(s), T) /\ \A i \in 1 .. Len(s) : Lots(G, s)[i] = G[s[i]]
  BY GatherLists
<1>2. \A i \in 1 .. Len(s) : Lots(H, t)[i] = H[t[i]]
  BY <1>0, SeqIs DEF Lots
<1>3. \A i \in 1 .. Len(s) : Lots(H, t)[i] = Lots(G, s)[i]
  BY <1>0, <1>1, <1>2
<1>4. Flat(Lots(H, t), Len(s)) = Flat(Lots(G, s), Len(s))
  BY <1>1, <1>3, FlatSame
<1> QED
  BY <1>0, <1>4 DEF Gather

LEMMA GatherSame ==
    ASSUME NEW S, NEW T, NEW R, NEW G, NEW H, Maps(G, S, T), NEW s \in Seq(S), NEW t \in Seq(R),
           Len(t) = Len(s), \A i \in 1 .. Len(s) : H[t[i]] = G[s[i]]
    PROVE  Gather(H, t) = Gather(G, s)
<1>1. Agree(G, s, H, t)
  BY DEF Agree
<1> QED
  BY <1>1, GatherAlike

\* Two functions that agree on S.
LEMMA GatherAgree ==
    ASSUME NEW S, NEW T, NEW G, NEW H, Maps(G, S, T), NEW s \in Seq(S),
           \A e \in S : H[e] = G[e]
    PROVE  Gather(H, s) = Gather(G, s)
<1>1. \A i \in 1 .. Len(s) : H[s[i]] = G[s[i]]
  BY SeqIs
<1> QED
  BY <1>1, GatherSame

Through(G, F, S) == [e \in S |-> Gather(G, F[e])]

\* What G gives of what F gives.
LEMMA GatherTwice ==
    ASSUME NEW S, NEW T, NEW U, NEW F, NEW G, Maps(F, S, T), Maps(G, T, U), NEW s \in Seq(S)
    PROVE  /\ Maps(Through(G, F, S), S, U)
           /\ Gather(G, Gather(F, s)) = Gather(Through(G, F, S), s)
<1> DEFINE H == Through(G, F, S)
           P == {x \in Seq(S) : Gather(G, Gather(F, x)) = Gather(H, x)}
<1>1. Maps(H, S, U) /\ \A e \in S : H[e] = Gather(G, F[e])
  <2>1. ASSUME NEW e \in S PROVE Gather(G, F[e]) \in Seq(U)
    <3>1. F[e] \in Seq(T)
      BY DEF Maps
    <3> QED
      BY <3>1, GatherTyped, Zenon
  <2> QED
    BY <2>1 DEF Maps, Through
<1> HIDE DEF H
<1>2. <<>> \in P
  BY GatherNone
<1>3. ASSUME NEW x \in Seq(S), NEW e \in S, x \in P PROVE Append(x, e) \in P
  <2>1. Gather(G, Gather(F, x)) = Gather(H, x)
    BY <1>3
  <2> HIDE DEF P
  <2>2. Gather(F, Append(x, e)) = Gather(F, x) \o F[e]
    BY GatherAppend
  <2>3. Gather(H, Append(x, e)) = Gather(H, x) \o H[e]
    BY <1>1, GatherAppend
  <2>4. Gather(F, x) \in Seq(T)
    BY GatherTyped, Zenon
  <2>5. F[e] \in Seq(T)
    BY DEF Maps
  <2>6. Gather(G, Gather(F, x) \o F[e]) = Gather(G, Gather(F, x)) \o Gather(G, F[e])
    <3> DEFINE a == Gather(F, x)
               b == F[e]
    <3>1. a \in Seq(T) /\ b \in Seq(T)
      BY <2>4, <2>5, Zenon
    <3> HIDE DEF a, b
    <3>2. Gather(G, a \o b) = Gather(G, a) \o Gather(G, b)
      BY <3>1, GatherJoined
    <3> QED
      BY <3>2, Zenon DEF a, b
  <2>7. Append(x, e) \in Seq(S)
    OBVIOUS
  <2>8. Gather(G, Gather(F, Append(x, e))) = Gather(H, Append(x, e))
    BY <1>1, <2>1, <2>2, <2>3, <2>6, Zenon
  <2> QED
    BY <2>7, <2>8, Zenon DEF P
<1> HIDE DEF P
<1>4. Seq(S) \subseteq P
  BY <1>2, <1>3, InductionOnSeq
<1> QED
  BY <1>1, <1>4 DEF P, H

\* Nothing gives nothing.
LEMMA GatherEmpty ==
    ASSUME NEW S, NEW T, NEW G, Maps(G, S, T), NEW s \in Seq(S),
           \A i \in 1 .. Len(s) : G[s[i]] = <<>>
    PROVE  Gather(G, s) = <<>>
<1> DEFINE P == {x \in Seq(S) : (\A i \in 1 .. Len(x) : G[x[i]] = <<>>) => Gather(G, x) = <<>>}
<1>1. <<>> \in P
  BY GatherNone
<1>2. ASSUME NEW x \in Seq(S), NEW e \in S, x \in P PROVE Append(x, e) \in P
  <2> DEFINE y == Append(x, e)
  <2>0. y \in Seq(S)
    OBVIOUS
  <2> SUFFICES ASSUME \A i \in 1 .. Len(y) : G[y[i]] = <<>> PROVE Gather(G, y) = <<>>
    BY <2>0
  <2>1. Len(y) = Len(x) + 1 /\ Len(x) \in Nat /\ y[Len(x) + 1] = e /\ \A i \in 1 .. Len(x) : y[i] = x[i]
    OBVIOUS
  <2>2. G[e] = <<>> /\ \A i \in 1 .. Len(x) : G[x[i]] = <<>>
    <3> HIDE DEF y, P
    <3>1. Len(x) + 1 \in 1 .. Len(y) /\ \A i \in 1 .. Len(x) : i \in 1 .. Len(y)
      BY <2>1
    <3> QED
      BY <2>1, <3>1
  <2>3. Gather(G, x) = <<>>
    BY <1>2, <2>2, Zenon
  <2> HIDE DEF P
  <2>4. Gather(G, y) = Gather(G, x) \o G[e]
    BY GatherAppend
  <2> QED
    BY <2>2, <2>3, <2>4
<1> HIDE DEF P
<1>3. Seq(S) \subseteq P
  BY <1>1, <1>2, InductionOnSeq
<1> QED
  BY <1>3 DEF P

\* If only one element gives anything, that is all there is.
LEMMA GatherOnly ==
    ASSUME NEW S, NEW T, NEW G, Maps(G, S, T), NEW s \in Seq(S), NEW k \in 1 .. Len(s),
           \A i \in 1 .. Len(s) : i # k => G[s[i]] = <<>>
    PROVE  Gather(G, s) = G[s[k]]
<1> DEFINE Here(x, j) == \A i \in 1 .. Len(x) : i # j => G[x[i]] = <<>>
           P == {x \in Seq(S) : \A j \in 1 .. Len(x) : Here(x, j) => Gather(G, x) = G[x[j]]}
<1>1. <<>> \in P
  OBVIOUS
<1>2. ASSUME NEW x \in Seq(S), NEW e \in S, x \in P PROVE Append(x, e) \in P
  <2> DEFINE y == Append(x, e)
  <2>0. y \in Seq(S)
    OBVIOUS
  <2> SUFFICES ASSUME NEW j \in 1 .. Len(y), Here(y, j) PROVE Gather(G, y) = G[y[j]]
    BY <2>0
  <2>1. Len(y) = Len(x) + 1 /\ Len(x) \in Nat /\ y[Len(x) + 1] = e /\ \A i \in 1 .. Len(x) : y[i] = x[i]
    OBVIOUS
  <2>2. \A i \in 1 .. Len(x) : i \in 1 .. Len(y) /\ i # Len(x) + 1
    <3> HIDE DEF y, P
    <3> QED
      BY <2>1
  <2>3. G[e] \in Seq(T) /\ \A i \in 1 .. Len(x) : G[x[i]] \in Seq(T)
    BY SeqIs DEF Maps
  <2>4. Gather(G, y) = Gather(G, x) \o G[e]
    <3> HIDE DEF P
    <3> QED
      BY GatherAppend
  <2>5. CASE j = Len(x) + 1
    <3>1. \A i \in 1 .. Len(x) : G[x[i]] = <<>>
      <4> HIDE DEF y, P
      <4> QED
        BY <2>1, <2>2, <2>5
    <3>2. Gather(G, x) = <<>>
      BY <3>1, GatherEmpty, Zenon
    <3> HIDE DEF P, y
    <3>3. y[j] = e
      BY <2>1, <2>5
    <3>4. <<>> \o G[e] = G[e]
      BY <2>3
    <3> QED
      BY <2>4, <3>2, <3>3, <3>4, Zenon
  <2>6. CASE j \in 1 .. Len(x)
    <3>1. Here(x, j) /\ G[e] = <<>>
      <4> HIDE DEF y, P
      <4>1. Len(x) + 1 \in 1 .. Len(y) /\ Len(x) + 1 # j
        BY <2>1, <2>2, <2>6
      <4> QED
        BY <2>1, <2>2, <4>1
    <3>2. Gather(G, x) = G[x[j]]
      <4> HIDE DEF Here
      <4> QED
        BY <1>2, <2>6, <3>1, Zenon
    <3> HIDE DEF P, y, Here
    <3>3. y[j] = x[j]
      BY <2>1, <2>6
    <3>4. G[x[j]] \o <<>> = G[x[j]]
      BY <2>3, <2>6
    <3> QED
      BY <2>4, <3>1, <3>2, <3>3, <3>4, Zenon
  <2>7. j = Len(x) + 1 \/ j \in 1 .. Len(x)
    <3> HIDE DEF P, y, Here
    <3> QED
      BY <2>1
  <2> QED
    BY <2>5, <2>6, <2>7
<1> HIDE DEF P
<1>3. Seq(S) \subseteq P
  BY <1>1, <1>2, InductionOnSeq
<1> QED
  BY <1>3, SeqIs DEF P

\* If every element gives one, there are as many, in order.
LEMMA GatherEach ==
    ASSUME NEW S, NEW T, NEW G, Maps(G, S, T), NEW s \in Seq(S),
           \A i \in 1 .. Len(s) : Len(G[s[i]]) = 1
    PROVE  /\ Len(Gather(G, s)) = Len(s)
           /\ \A i \in 1 .. Len(s) : Gather(G, s)[i] = G[s[i]][1]
<1> DEFINE Ones(x) == \A i \in 1 .. Len(x) : Len(G[x[i]]) = 1
           Made(x) == /\ Len(Gather(G, x)) = Len(x)
                      /\ \A i \in 1 .. Len(x) : Gather(G, x)[i] = G[x[i]][1]
           P == {x \in Seq(S) : Ones(x) => Made(x)}
<1>1. <<>> \in P
  BY GatherNone
<1>2. ASSUME NEW x \in Seq(S), NEW e \in S, x \in P PROVE Append(x, e) \in P
  <2> DEFINE y == Append(x, e)
  <2>0. y \in Seq(S)
    OBVIOUS
  <2> SUFFICES ASSUME Ones(y) PROVE Made(y)
    BY <2>0
  <2>1. Len(y) = Len(x) + 1 /\ Len(x) \in Nat /\ y[Len(x) + 1] = e /\ \A i \in 1 .. Len(x) : y[i] = x[i]
    OBVIOUS
  <2>2. \A i \in 1 .. Len(x) : i \in 1 .. Len(y)
    <3> HIDE DEF y, P
    <3> QED
      BY <2>1
  <2>3. G[e] \in Seq(T) /\ Gather(G, x) \in Seq(T)
    BY GatherTyped, Zenon DEF Maps
  <2>4. Gather(G, y) = Gather(G, x) \o G[e]
    <3> HIDE DEF P
    <3> QED
      BY GatherAppend
  <2>5. Len(G[e]) = 1 /\ Ones(x)
    <3> HIDE DEF y, P
    <3>1. Len(x) + 1 \in 1 .. Len(y)
      BY <2>1
    <3> QED
      BY <2>1, <2>2, <3>1
  <2>6. Made(x)
    <3> HIDE DEF Ones, Made
    <3> QED
      BY <1>2, <2>5, Zenon
  <2>7. Len(Gather(G, y)) = Len(x) + 1 /\ Gather(G, y)[Len(x) + 1] = G[e][1]
        /\ \A i \in 1 .. Len(x) : Gather(G, y)[i] = Gather(G, x)[i]
    <3> DEFINE a == Gather(G, x)
               b == G[e]
    <3>1. a \in Seq(T) /\ b \in Seq(T) /\ Len(a) = Len(x) /\ Len(b) = 1 /\ Gather(G, y) = a \o b
      BY <2>3, <2>4, <2>5, <2>6
    <3> HIDE DEF a, b, y, P, Ones, Made
    <3>2. Len(a \o b) = Len(x) + 1 /\ (a \o b)[Len(x) + 1] = b[1]
          /\ \A i \in 1 .. Len(x) : (a \o b)[i] = a[i]
      <4>1. Len(a \o b) = Len(a) + Len(b) /\ \A i \in 1 .. Len(a) : (a \o b)[i] = a[i]
        BY <3>1, Joined
      <4>0. a \in Seq(T) /\ b \in Seq(T) /\ Len(b) > 0
        BY <3>1
      <4>2. (a \o b)[Len(a) + 1] = b[1]
        BY <4>0, JoinedNext
      <4> QED
        BY <3>1, <4>1, <4>2
    <3> QED
      BY <3>1, <3>2, Zenon DEF a, b
  <2> QED
    <3>1. ASSUME NEW i \in 1 .. Len(y) PROVE Gather(G, y)[i] = G[y[i]][1]
      <4> HIDE DEF y, P, Ones
      <4>1. CASE i = Len(x) + 1
        BY <2>1, <2>7, <4>1
      <4>2. CASE i \in 1 .. Len(x)
        BY <2>1, <2>6, <2>7, <4>2
      <4> QED
        BY <2>1, <4>1, <4>2
    <3> QED
      BY <2>1, <2>7, <3>1, Zenon
<1> HIDE DEF P
<1>3. Seq(S) \subseteq P
  BY <1>1, <1>2, InductionOnSeq
<1> QED
  BY <1>3 DEF P

LEMMA GatherSelf ==
    ASSUME NEW S, NEW G, Maps(G, S, S), NEW s \in Seq(S), \A i \in 1 .. Len(s) : G[s[i]] = <<s[i]>>
    PROVE  Gather(G, s) = s
<1>1. \A i \in 1 .. Len(s) : Len(G[s[i]]) = 1 /\ G[s[i]][1] = s[i]
  BY SeqIs, OneIs
<1>2. Len(Gather(G, s)) = Len(s) /\ \A i \in 1 .. Len(s) : Gather(G, s)[i] = G[s[i]][1]
  BY <1>1, GatherEach
<1>3. Gather(G, s) \in Seq(S)
  BY GatherTyped, Zenon
<1> QED
  BY <1>1, <1>2, <1>3, SameSeq

\* What comes out is of the kind that each element gives.
LEMMA GatherKind ==
    ASSUME NEW S, NEW T, NEW U, NEW G, Maps(G, S, T), NEW s \in Seq(S),
           \A i \in 1 .. Len(s) : G[s[i]] \in Seq(U)
    PROVE  Gather(G, s) \in Seq(U)
<1> DEFINE P == {x \in Seq(S) : (\A i \in 1 .. Len(x) : G[x[i]] \in Seq(U)) => Gather(G, x) \in Seq(U)}
<1>1. <<>> \in P
  <2>1. <<>> \in Seq(S) /\ <<>> \in Seq(U)
    OBVIOUS
  <2> QED
    BY <2>1, GatherNone, Zenon
<1>2. ASSUME NEW x \in Seq(S), NEW e \in S, x \in P PROVE Append(x, e) \in P
  <2> DEFINE y == Append(x, e)
  <2>0. y \in Seq(S)
    OBVIOUS
  <2> SUFFICES ASSUME \A i \in 1 .. Len(y) : G[y[i]] \in Seq(U) PROVE Gather(G, y) \in Seq(U)
    BY <2>0
  <2>1. Len(y) = Len(x) + 1 /\ Len(x) \in Nat /\ y[Len(x) + 1] = e /\ \A i \in 1 .. Len(x) : y[i] = x[i]
    OBVIOUS
  <2>2. G[e] \in Seq(U) /\ \A i \in 1 .. Len(x) : G[x[i]] \in Seq(U)
    <3> HIDE DEF y, P
    <3>1. Len(x) + 1 \in 1 .. Len(y) /\ \A i \in 1 .. Len(x) : i \in 1 .. Len(y)
      BY <2>1
    <3> QED
      BY <2>1, <3>1
  <2>3. Gather(G, x) \in Seq(U)
    BY <1>2, <2>2, Zenon
  <2> HIDE DEF P
  <2>4. Gather(G, y) = Gather(G, x) \o G[e]
    BY GatherAppend
  <2> QED
    BY <2>2, <2>3, <2>4
<1> HIDE DEF P
<1>3. Seq(S) \subseteq P
  BY <1>1, <1>2, InductionOnSeq
<1> QED
  BY <1>3 DEF P

-----------------------------------------------------------------------------
(* What is said.                                                           *)

\* The kinds of atoms: what the parts of a history may be, the texts that a
\* message is parsed to, and the others.
SaidKinds == {"text", "image", "reasoning", "call", "result", "system"}

TextKinds == SaidKinds \cup {"prompt"}

AtomKinds == TextKinds \cup {"none", "default", "tools", "garbled", "id", "call_emulated",
                             "toolu", "call_gw", ""}

SaidSet == SaidKinds \X Nat \X Nat

TextSet == TextKinds \X Nat \X Nat

AtomSet == AtomKinds \X Nat \X Nat

PartKinds == {"text", "image", "link", "thinking", "tool_use", "tool_result"}

PartSet == [kind : PartKinds, what : SaidSet, id : AtomSet]

CallSet == [id : AtomSet, what : SaidSet]

LEMMA Atomic ==
    /\ SaidSet \subseteq TextSet /\ TextSet \subseteq AtomSet /\ NoId \in AtomSet
    /\ \A k \in AtomKinds, r \in Nat, i \in Nat : Atom(k, r, i) \in AtomSet
    /\ \A k \in SaidKinds, r \in Nat, i \in Nat : Atom(k, r, i) \in SaidSet
    /\ \A k \in AtomKinds, r \in Nat, i \in Nat :
          Atom(k, r, i)[1] = k /\ Atom(k, r, i)[2] = r /\ Atom(k, r, i)[3] = i
    /\ \A w \in AtomSet : w[1] \in AtomKinds /\ w[2] \in Nat /\ w[3] \in Nat
    /\ \A w \in TextSet : w[1] # "tools"
<1>0. SaidKinds \subseteq TextKinds /\ TextKinds \subseteq AtomKinds /\ "none" \in AtomKinds
      /\ "tools" \notin TextKinds
  BY DEF SaidKinds, TextKinds, AtomKinds
<1>1. SaidSet \subseteq TextSet /\ TextSet \subseteq AtomSet
  BY <1>0 DEF SaidSet, TextSet, AtomSet
<1>2. NoId \in AtomSet
  BY <1>0 DEF AtomSet, NoId
<1>3. /\ \A k \in AtomKinds, r \in Nat, i \in Nat : Atom(k, r, i) \in AtomSet
      /\ \A k \in SaidKinds, r \in Nat, i \in Nat : Atom(k, r, i) \in SaidSet
  BY DEF AtomSet, SaidSet, Atom
<1>4. \A w \in AtomSet : w[1] \in AtomKinds /\ w[2] \in Nat /\ w[3] \in Nat
  BY DEF AtomSet
<1>5. \A w \in TextSet : w[1] # "tools"
  BY <1>0 DEF TextSet
<1>6. \A k \in AtomKinds, r \in Nat, i \in Nat :
          Atom(k, r, i)[1] = k /\ Atom(k, r, i)[2] = r /\ Atom(k, r, i)[3] = i
  BY DEF Atom
<1> QED
  BY <1>1, <1>2, <1>3, <1>4, <1>5, <1>6

LEMMA PartIs ==
    ASSUME NEW p \in PartSet
    PROVE  /\ p.kind \in PartKinds /\ p.what \in SaidSet /\ p.id \in AtomSet
           /\ Call(p.id, p.what) \in CallSet
           /\ Call(p.id, p.what).id = p.id /\ Call(p.id, p.what).what = p.what
BY DEF PartSet, CallSet, Call

LEMMA PartMade ==
    ASSUME NEW kind \in PartKinds, NEW what \in SaidSet, NEW id \in AtomSet
    PROVE  /\ Part(kind, what, id) \in PartSet
           /\ Part(kind, what, id).kind = kind
           /\ Part(kind, what, id).what = what
           /\ Part(kind, what, id).id = id
BY DEF PartSet, Part

\* The functions behind Kinds, Whats and Calls.
OfKinds(kinds) == [p \in PartSet |-> IF p.kind \in kinds THEN <<p>> ELSE <<>>]

WhatsOf(kinds) == [p \in PartSet |-> IF p.kind \in kinds THEN <<p.what>> ELSE <<>>]

CallsOf == [p \in PartSet |-> IF p.kind = "tool_use" THEN <<Call(p.id, p.what)>> ELSE <<>>]

LEMMA KindsMaps ==
    ASSUME NEW kinds
    PROVE  /\ Maps(OfKinds(kinds), PartSet, PartSet)
           /\ Maps(WhatsOf(kinds), PartSet, SaidSet)
           /\ Maps(CallsOf, PartSet, CallSet)
<1>1. ASSUME NEW p \in PartSet
      PROVE  /\ (IF p.kind \in kinds THEN <<p>> ELSE <<>>) \in Seq(PartSet)
             /\ (IF p.kind \in kinds THEN <<p.what>> ELSE <<>>) \in Seq(SaidSet)
             /\ (IF p.kind = "tool_use" THEN <<Call(p.id, p.what)>> ELSE <<>>) \in Seq(CallSet)
  <2>1. p.what \in SaidSet /\ Call(p.id, p.what) \in CallSet
    BY PartIs
  <2>2. <<p>> \in Seq(PartSet) /\ <<p.what>> \in Seq(SaidSet)
        /\ <<Call(p.id, p.what)>> \in Seq(CallSet)
    BY <2>1, OneIs
  <2>3. <<>> \in Seq(PartSet) /\ <<>> \in Seq(SaidSet) /\ <<>> \in Seq(CallSet)
    BY NoneIs
  <2> QED
    BY <2>2, <2>3
<1> QED
  BY <1>1 DEF Maps, OfKinds, WhatsOf, CallsOf

LEMMA KindsIs ==
    ASSUME NEW s \in Seq(PartSet), NEW kinds
    PROVE  /\ Kinds(s, kinds) = Gather(OfKinds(kinds), s)
           /\ Kinds(s, kinds) \in Seq(PartSet)
<1> DEFINE a == Each(LAMBDA p : IF p.kind \in kinds THEN <<p>> ELSE <<>>, s)
           b == Lots(OfKinds(kinds), s)
<1>1. \A i \in DOMAIN s : s[i] \in PartSet
  BY SeqIs
<1>2. \A i \in DOMAIN s : OfKinds(kinds)[s[i]] = IF s[i].kind \in kinds THEN <<s[i]>> ELSE <<>>
  BY <1>1 DEF OfKinds
<1>3. a = b
  BY <1>2 DEF Each, Lots
<1>4. Kinds(s, kinds) = Flat(a, Len(s)) /\ Gather(OfKinds(kinds), s) = Flat(b, Len(s))
  BY DEF Kinds, Only, All, Each, Gather
<1>5. Gather(OfKinds(kinds), s) \in Seq(PartSet)
  BY KindsMaps, GatherTyped, Zenon
<1> HIDE DEF a, b
<1> QED
  BY <1>3, <1>4, <1>5, Zenon

EachIn(h, s) == [i \in DOMAIN s |-> h[s[i]]]

EachOf(h, kinds) == [p \in PartSet |-> IF p.kind \in kinds THEN <<h[p]>> ELSE <<>>]

\* h of each of what Kinds takes.
LEMMA EachKind ==
    ASSUME NEW s \in Seq(PartSet), NEW kinds, NEW T, NEW h, \A p \in PartSet : h[p] \in T
    PROVE  EachIn(h, Kinds(s, kinds)) = Gather(EachOf(h, kinds), s)
<1> DEFINE e == EachIn(h, Kinds(s, kinds))
           F == OfKinds(kinds)
           H == [p \in PartSet |-> <<h[p]>>]
           J == EachOf(h, kinds)
           k == Kinds(s, kinds)
<1>1. Maps(F, PartSet, PartSet)
  BY KindsMaps
<1>2. Maps(H, PartSet, T) /\ \A p \in PartSet : H[p] = <<h[p]>>
  BY OneIs DEF Maps
<1>3. k = Gather(F, s) /\ k \in Seq(PartSet)
  BY KindsIs
<1>4. \A p \in PartSet : J[p] = IF p.kind \in kinds THEN <<h[p]>> ELSE <<>>
  BY DEF EachOf
<1>5. \A p \in PartSet : F[p] = IF p.kind \in kinds THEN <<p>> ELSE <<>>
  BY DEF OfKinds
<1> HIDE DEF F, H, J, k
<1>6. Gather(H, k) = Gather(Through(H, F, PartSet), s) /\ Maps(Through(H, F, PartSet), PartSet, T)
  <2>1. Gather(H, Gather(F, s)) = Gather(Through(H, F, PartSet), s)
        /\ Maps(Through(H, F, PartSet), PartSet, T)
    BY <1>1, <1>2, GatherTwice
  <2> QED
    BY <1>3, <2>1, Zenon
<1>7. ASSUME NEW p \in PartSet PROVE J[p] = Through(H, F, PartSet)[p]
  <2>1. Through(H, F, PartSet)[p] = Gather(H, F[p])
    BY DEF Through
  <2>2. Gather(H, <<p>>) = <<h[p]>> /\ Gather(H, <<>>) = <<>>
    BY <1>2, GatherOne, GatherNone, Zenon
  <2> QED
    BY <1>4, <1>5, <2>1, <2>2
<1>8. Gather(J, s) = Gather(Through(H, F, PartSet), s)
  BY <1>6, <1>7, GatherAgree
<1>9. e = Gather(H, k)
  <2>1. \A i \in 1 .. Len(k) : k[i] \in PartSet
    BY <1>3, SeqIs
  <2>2. \A i \in 1 .. Len(k) : H[k[i]] = <<h[k[i]]>> /\ h[k[i]] \in T
    BY <1>2, <2>1
  <2>3. \A i \in 1 .. Len(k) : Len(H[k[i]]) = 1 /\ H[k[i]][1] = h[k[i]]
    BY <2>2, OneIs
  <2>4. Len(Gather(H, k)) = Len(k) /\ \A i \in 1 .. Len(k) : Gather(H, k)[i] = H[k[i]][1]
    BY <1>2, <1>3, <2>3, GatherEach
  <2>5. Gather(H, k) \in Seq(T)
    BY <1>2, <1>3, GatherTyped, Zenon
  <2>6. e = [i \in DOMAIN k |-> h[k[i]]]
    BY DEF k, EachIn
  <2>7. Len(k) \in Nat /\ DOMAIN k = 1 .. Len(k)
    BY <1>3, SeqIs
  <2>8. e \in Seq(T) /\ Len(e) = Len(k) /\ \A i \in 1 .. Len(k) : e[i] = h[k[i]]
    BY <2>2, <2>6, <2>7
  <2>9. Len(Gather(H, k)) = Len(e) /\ \A i \in 1 .. Len(e) : e[i] = Gather(H, k)[i]
    BY <2>3, <2>4, <2>8
  <2> QED
    BY <2>5, <2>8, <2>9, SameSeq
<1> QED
  BY <1>6, <1>8, <1>9, Zenon DEF J

LEMMA WhatsIs ==
    ASSUME NEW s \in Seq(PartSet), NEW kinds
    PROVE  /\ Whats(s, kinds) = Gather(WhatsOf(kinds), s)
           /\ Whats(s, kinds) \in Seq(SaidSet)
<1> DEFINE h == [p \in PartSet |-> p.what]
           k == Kinds(s, kinds)
<1>1. \A p \in PartSet : h[p] = p.what /\ h[p] \in SaidSet
  BY PartIs
<1>2. k \in Seq(PartSet)
  BY KindsIs
<1>3. \A i \in DOMAIN k : k[i] \in PartSet
  <2> HIDE DEF k
  <2> QED
    BY <1>2, SeqIs
<1>4. Whats(s, kinds) = EachIn(h, k)
  <2>1. Whats(s, kinds) = [i \in DOMAIN k |-> k[i].what]
    BY DEF Whats, Each
  <2> HIDE DEF h, k
  <2> QED
    BY <1>1, <1>3, <2>1 DEF EachIn
<1>5. EachIn(h, Kinds(s, kinds)) = Gather(EachOf(h, kinds), s)
  <2> HIDE DEF h
  <2> QED
    BY <1>1, EachKind
<1>6. EachOf(h, kinds) = WhatsOf(kinds)
  BY DEF WhatsOf, EachOf
<1>7. Gather(WhatsOf(kinds), s) \in Seq(SaidSet)
  BY KindsMaps, GatherTyped, Zenon
<1> HIDE DEF h
<1> QED
  BY <1>4, <1>5, <1>6, <1>7, Zenon

LEMMA CallsIs ==
    ASSUME NEW s \in Seq(PartSet)
    PROVE  Calls(s) = Gather(CallsOf, s) /\ Calls(s) \in Seq(CallSet)
<1> DEFINE h == [p \in PartSet |-> Call(p.id, p.what)]
           k == Kinds(s, {"tool_use"})
<1>1. \A p \in PartSet : h[p] = Call(p.id, p.what) /\ h[p] \in CallSet
  BY PartIs
<1>2. k \in Seq(PartSet)
  BY KindsIs
<1>3. \A i \in DOMAIN k : k[i] \in PartSet
  <2> HIDE DEF k
  <2> QED
    BY <1>2, SeqIs
<1>4. Calls(s) = EachIn(h, k)
  <2>1. Calls(s) = [i \in DOMAIN k |-> Call(k[i].id, k[i].what)]
    BY DEF Calls, Each
  <2> HIDE DEF h, k
  <2> QED
    BY <1>1, <1>3, <2>1 DEF EachIn
<1>5. EachIn(h, Kinds(s, {"tool_use"})) = Gather(EachOf(h, {"tool_use"}), s)
  <2> HIDE DEF h
  <2> QED
    BY <1>1, EachKind
<1>6. EachOf(h, {"tool_use"}) = CallsOf
  BY DEF CallsOf, EachOf
<1>7. Gather(CallsOf, s) \in Seq(CallSet)
  BY KindsMaps, GatherTyped, Zenon
<1> HIDE DEF h
<1> QED
  BY <1>4, <1>5, <1>6, <1>7, Zenon

LEMMA KindsNone ==
    ASSUME NEW s \in Seq(PartSet), NEW kinds, \A i \in 1 .. Len(s) : s[i].kind \notin kinds
    PROVE  Kinds(s, kinds) = <<>> /\ Whats(s, kinds) = <<>>
<1>1. \A i \in 1 .. Len(s) : s[i] \in PartSet
  BY SeqIs
<1>2. \A i \in 1 .. Len(s) : OfKinds(kinds)[s[i]] = <<>> /\ WhatsOf(kinds)[s[i]] = <<>>
  BY <1>1 DEF OfKinds, WhatsOf
<1>3. Maps(OfKinds(kinds), PartSet, PartSet) /\ Maps(WhatsOf(kinds), PartSet, SaidSet)
  BY KindsMaps
<1>4. Gather(OfKinds(kinds), s) = <<>> /\ Gather(WhatsOf(kinds), s) = <<>>
  BY <1>2, <1>3, GatherEmpty
<1> QED
  BY <1>4, KindsIs, WhatsIs, Zenon

LEMMA CallsNone ==
    ASSUME NEW s \in Seq(PartSet), \A i \in 1 .. Len(s) : s[i].kind # "tool_use"
    PROVE  Calls(s) = <<>>
<1>1. \A i \in 1 .. Len(s) : s[i] \in PartSet
  BY SeqIs
<1>2. \A i \in 1 .. Len(s) : CallsOf[s[i]] = <<>>
  BY <1>1 DEF CallsOf
<1>3. Maps(CallsOf, PartSet, CallSet)
  BY KindsMaps
<1>4. Gather(CallsOf, s) = <<>>
  BY <1>2, <1>3, GatherEmpty
<1> QED
  BY <1>4, CallsIs, Zenon

LEMMA KindsAll ==
    ASSUME NEW s \in Seq(PartSet), NEW kinds, \A i \in 1 .. Len(s) : s[i].kind \in kinds
    PROVE  Kinds(s, kinds) = s
<1>1. \A i \in 1 .. Len(s) : s[i] \in PartSet
  BY SeqIs
<1>2. \A i \in 1 .. Len(s) : OfKinds(kinds)[s[i]] = <<s[i]>>
  BY <1>1 DEF OfKinds
<1>3. Maps(OfKinds(kinds), PartSet, PartSet)
  BY KindsMaps
<1>4. Gather(OfKinds(kinds), s) = s
  BY <1>2, <1>3, GatherSelf
<1> QED
  BY <1>4, KindsIs, Zenon

LEMMA KindsOne ==
    ASSUME NEW p \in PartSet, NEW kinds
    PROVE  /\ Kinds(<<p>>, kinds) = IF p.kind \in kinds THEN <<p>> ELSE <<>>
           /\ Whats(<<p>>, kinds) = IF p.kind \in kinds THEN <<p.what>> ELSE <<>>
           /\ Calls(<<p>>) = IF p.kind = "tool_use" THEN <<Call(p.id, p.what)>> ELSE <<>>
<1>1. <<p>> \in Seq(PartSet)
  BY OneIs
<1>2. /\ Kinds(<<p>>, kinds) = Gather(OfKinds(kinds), <<p>>)
      /\ Whats(<<p>>, kinds) = Gather(WhatsOf(kinds), <<p>>)
      /\ Calls(<<p>>) = Gather(CallsOf, <<p>>)
  BY <1>1, KindsIs, WhatsIs, CallsIs, Zenon
<1>3. /\ Gather(OfKinds(kinds), <<p>>) = OfKinds(kinds)[p]
      /\ Gather(WhatsOf(kinds), <<p>>) = WhatsOf(kinds)[p]
      /\ Gather(CallsOf, <<p>>) = CallsOf[p]
  BY KindsMaps, GatherOne, Zenon
<1>4. /\ OfKinds(kinds)[p] = IF p.kind \in kinds THEN <<p>> ELSE <<>>
      /\ WhatsOf(kinds)[p] = IF p.kind \in kinds THEN <<p.what>> ELSE <<>>
      /\ CallsOf[p] = IF p.kind = "tool_use" THEN <<Call(p.id, p.what)>> ELSE <<>>
  BY DEF OfKinds, WhatsOf, CallsOf
<1> QED
  BY <1>2, <1>3, <1>4, Zenon

LEMMA KindsJoined ==
    ASSUME NEW s \in Seq(PartSet), NEW t \in Seq(PartSet), NEW kinds
    PROVE  /\ Kinds(s \o t, kinds) = Kinds(s, kinds) \o Kinds(t, kinds)
           /\ Whats(s \o t, kinds) = Whats(s, kinds) \o Whats(t, kinds)
           /\ Calls(s \o t) = Calls(s) \o Calls(t)
<1> DEFINE u == s \o t
<1>1. u \in Seq(PartSet)
  BY Joined
<1>2. /\ Gather(OfKinds(kinds), u) = Gather(OfKinds(kinds), s) \o Gather(OfKinds(kinds), t)
      /\ Gather(WhatsOf(kinds), u) = Gather(WhatsOf(kinds), s) \o Gather(WhatsOf(kinds), t)
      /\ Gather(CallsOf, u) = Gather(CallsOf, s) \o Gather(CallsOf, t)
  <2> DEFINE F == OfKinds(kinds)
             G == WhatsOf(kinds)
             H == CallsOf
  <2>1. Maps(F, PartSet, PartSet) /\ Maps(G, PartSet, SaidSet) /\ Maps(H, PartSet, CallSet)
    BY KindsMaps, Zenon
  <2> HIDE DEF F, G, H
  <2>2. Gather(F, u) = Gather(F, s) \o Gather(F, t)
    BY <2>1, GatherJoined
  <2>3. Gather(G, u) = Gather(G, s) \o Gather(G, t)
    BY <2>1, GatherJoined
  <2>4. Gather(H, u) = Gather(H, s) \o Gather(H, t)
    BY <2>1, GatherJoined
  <2> QED
    BY <2>2, <2>3, <2>4, Zenon DEF F, G, H
<1> HIDE DEF u
<1>3. /\ Kinds(u, kinds) = Gather(OfKinds(kinds), u)
      /\ Kinds(s, kinds) = Gather(OfKinds(kinds), s)
      /\ Kinds(t, kinds) = Gather(OfKinds(kinds), t)
  BY <1>1, KindsIs, Zenon
<1>4. /\ Whats(u, kinds) = Gather(WhatsOf(kinds), u)
      /\ Whats(s, kinds) = Gather(WhatsOf(kinds), s)
      /\ Whats(t, kinds) = Gather(WhatsOf(kinds), t)
  BY <1>1, WhatsIs, Zenon
<1>5. Calls(u) = Gather(CallsOf, u) /\ Calls(s) = Gather(CallsOf, s) /\ Calls(t) = Gather(CallsOf, t)
  BY <1>1, CallsIs, Zenon
<1> QED
  BY <1>2, <1>3, <1>4, <1>5, Zenon DEF u

\* Kinds of more kinds first makes no difference.
LEMMA KindsTwice ==
    ASSUME NEW s \in Seq(PartSet), NEW kinds, NEW more, kinds \subseteq more
    PROVE  Kinds(Kinds(s, more), kinds) = Kinds(s, kinds)
<1> DEFINE F == OfKinds(more)
           G == OfKinds(kinds)
<1>1. Maps(F, PartSet, PartSet) /\ Maps(G, PartSet, PartSet)
  BY KindsMaps
<1>2. Kinds(s, more) = Gather(F, s) /\ Kinds(s, more) \in Seq(PartSet) /\ Kinds(s, kinds) = Gather(G, s)
  BY KindsIs
<1>3. Kinds(Kinds(s, more), kinds) = Gather(G, Gather(F, s))
  BY <1>2, KindsIs, Zenon
<1>4. \A p \in PartSet : /\ F[p] = IF p.kind \in more THEN <<p>> ELSE <<>>
                         /\ G[p] = IF p.kind \in kinds THEN <<p>> ELSE <<>>
  BY DEF OfKinds
<1> HIDE DEF F, G
<1>5. Gather(G, Gather(F, s)) = Gather(Through(G, F, PartSet), s)
      /\ Maps(Through(G, F, PartSet), PartSet, PartSet)
  BY <1>1, GatherTwice
<1>6. ASSUME NEW p \in PartSet PROVE G[p] = Through(G, F, PartSet)[p]
  <2>1. Through(G, F, PartSet)[p] = Gather(G, F[p])
    BY DEF Through
  <2>2. Gather(G, <<p>>) = G[p] /\ Gather(G, <<>>) = <<>>
    BY <1>1, GatherOne, GatherNone, Zenon
  <2> QED
    BY <1>4, <2>1, <2>2
<1>7. Gather(G, s) = Gather(Through(G, F, PartSet), s)
  BY <1>5, <1>6, GatherAgree
<1> QED
  BY <1>2, <1>3, <1>5, <1>7, Zenon

LEMMA WhatsTwice ==
    ASSUME NEW s \in Seq(PartSet), NEW kinds, NEW more, kinds \subseteq more
    PROVE  Whats(Kinds(s, more), kinds) = Whats(s, kinds)
BY KindsTwice, Zenon DEF Whats

LEMMA CallsTwice ==
    ASSUME NEW s \in Seq(PartSet), NEW more, "tool_use" \in more
    PROVE  Calls(Kinds(s, more)) = Calls(s)
<1>1. {"tool_use"} \subseteq more
  OBVIOUS
<1> QED
  BY <1>1, KindsTwice, Zenon DEF Calls

-----------------------------------------------------------------------------
(* What a history can hold.                                                *)

Protocols == {"openai", "anthropic", "responses"}

Roles == {"system", "user", "assistant", "tool", ""}

TextPart(r) == Part("text", Atom("text", r, 0), NoId)

ImagePart(kind, r, i) == Part(kind, Atom("image", r, i), NoId)

\* What a user may ask.
AskParts(r) == {<<TextPart(r)>>,
                <<ImagePart("image", r, 0)>>,
                <<ImagePart("image", r, 0), TextPart(r), ImagePart("link", r, 1)>>,
                <<ImagePart("image", r, 0), ImagePart("image", r, 1)>>}

ResultSet == {p \in PartSet : p.kind = "tool_result" /\ p.what[1] = "result"}

SystemShape(e) ==
    e.role = "system" /\ \E r \in Nat : e.parts = <<Part("text", Atom("system", r, 0), NoId)>>

AskShape(e) == e.role = "user" /\ \E r \in Nat : e.parts \in AskParts(r)

\* Results of an Anthropic client, with or without text.
ResultsShape(e) ==
    /\ e.role = "user"
    /\ \E r \in Nat, results \in Seq(ResultSet) :
          e.parts = results \/ e.parts = <<TextPart(r)>> \o results

AnswerShape(e) ==
    /\ e.role = "assistant"
    /\ \A i \in 1 .. Len(e.parts) : e.parts[i].kind \in {"thinking", "text", "tool_use"}

ToolShape(e) == e.role = "tool" /\ \E p \in ResultSet : e.parts = <<p>>

\* The items of a Responses client.
ItemShape(e) == e.role = "" \/ e.role = "assistant"

EntrySet(protocol) ==
    {e \in [role : Roles, parts : Seq(PartSet)] :
        \/ SystemShape(e)
        \/ AskShape(e)
        \/ protocol = "anthropic" /\ ResultsShape(e)
        \/ protocol # "responses" /\ AnswerShape(e)
        \/ protocol = "openai" /\ ToolShape(e)
        \/ protocol = "responses" /\ ItemShape(e)}

\* Messages as parsed, and as sent.
InSet(texts) == [role : Roles, text : Seq(texts), images : Seq(PartSet), calls : Seq(CallSet),
                 of : AtomSet, reasoning : Seq(SaidSet)]

OutSet == [role : Roles, text : Seq(AtomSet), images : Seq(AtomSet), calls : Seq(CallSet),
           of : AtomSet, reasoning : Seq(SaidSet)]

LEMMA MessageMade ==
    ASSUME NEW texts, NEW role \in Roles, NEW text \in Seq(texts), NEW images \in Seq(PartSet),
           NEW calls \in Seq(CallSet), NEW of \in AtomSet, NEW reasoning \in Seq(SaidSet)
    PROVE  Message(role, text, images, calls, of, reasoning) \in InSet(texts)
BY DEF Message, InSet

LEMMA MessageIs ==
    ASSUME NEW role, NEW text, NEW images, NEW calls, NEW of, NEW reasoning,
           NEW m, m = Message(role, text, images, calls, of, reasoning)
    PROVE  /\ m.role = role /\ m.text = text /\ m.images = images /\ m.calls = calls
           /\ m.of = of /\ m.reasoning = reasoning
BY DEF Message

LEMMA SeqLarger ==
    ASSUME NEW S, NEW T, S \subseteq T
    PROVE  Seq(S) \subseteq Seq(T)
OBVIOUS

LEMMA InLarger == InSet(TextSet) \subseteq InSet(AtomSet)
<1>1. Seq(TextSet) \subseteq Seq(AtomSet)
  BY Atomic, SeqLarger
<1> QED
  BY <1>1 DEF InSet

LEMMA SaysMade ==
    ASSUME NEW texts, NEW role \in Roles, NEW text \in Seq(texts)
    PROVE  Says(role, text) \in InSet(texts)
<1>1. <<>> \in Seq(PartSet) /\ <<>> \in Seq(CallSet) /\ <<>> \in Seq(SaidSet) /\ NoId \in AtomSet
  BY NoneIs, Atomic
<1> QED
  BY <1>1, MessageMade, Zenon DEF Says

\* A result as a message of its own.
Told(p) == [Says("tool", <<p.what>>) EXCEPT !.of = p.id]

LEMMA ToldMade ==
    ASSUME NEW p \in PartSet
    PROVE  /\ Told(p) = Message("tool", <<p.what>>, <<>>, <<>>, p.id, <<>>)
           /\ Told(p) \in InSet(TextSet)
<1>1. Told(p) = Message("tool", <<p.what>>, <<>>, <<>>, p.id, <<>>)
  BY DEF Told, Says, Message
<1>2. <<>> \in Seq(PartSet) /\ <<>> \in Seq(CallSet) /\ <<>> \in Seq(SaidSet) /\ "tool" \in Roles
  BY NoneIs DEF Roles
<1>3. p.what \in TextSet /\ p.id \in AtomSet
  BY PartIs, Atomic
<1>4. <<p.what>> \in Seq(TextSet)
  BY <1>3
<1> QED
  BY <1>1, <1>2, <1>3, <1>4, MessageMade, Zenon

-----------------------------------------------------------------------------
(* Parsing.                                                                *)

RawSet == [role : Roles, parts : Seq(PartSet)]

\* What parse_openai_message makes of an entry.
MadeOpenAI(e) ==
    Message(e.role, Whats(e.parts, {"text", "tool_result"}), Kinds(e.parts, {"image", "link"}),
            Calls(e.parts), IF e.role = "tool" THEN e.parts[1].id ELSE NoId,
            Whats(e.parts, {"thinking"}))

\* What parse_anthropic_messages makes of what is not a tool's result.
RestKinds == {"text", "image", "thinking", "tool_use"}

MadeAnthropic(e) ==
    Message(e.role, Whats(e.parts, {"text"}), Kinds(e.parts, {"image"}), Calls(e.parts), NoId,
            Whats(e.parts, {"thinking"}))

RestOf(e) ==
    IF Kinds(e.parts, RestKinds) = <<>> /\ Kinds(e.parts, {"tool_result"}) # <<>>
    THEN <<>>
    ELSE <<MadeAnthropic(e)>>

Tellings == [p \in PartSet |-> IF p.kind \in {"tool_result"} THEN <<Told(p)>> ELSE <<>>]

LEMMA EntryIs ==
    ASSUME NEW protocol
    PROVE  /\ EntrySet(protocol) \subseteq RawSet
           /\ \A e \in RawSet : e.role \in Roles /\ e.parts \in Seq(PartSet)
BY DEF EntrySet, RawSet

LEMMA TellingsMaps == Maps(Tellings, PartSet, InSet(TextSet))
<1>1. ASSUME NEW p \in PartSet
      PROVE  (IF p.kind \in {"tool_result"} THEN <<Told(p)>> ELSE <<>>) \in Seq(InSet(TextSet))
  <2>1. Told(p) \in InSet(TextSet)
    BY ToldMade
  <2>2. <<Told(p)>> \in Seq(InSet(TextSet)) /\ <<>> \in Seq(InSet(TextSet))
    BY <2>1
  <2> QED
    BY <2>2
<1> QED
  BY <1>1 DEF Maps, Tellings

LEMMA ParseAnthropicIs ==
    ASSUME NEW e \in RawSet
    PROVE  ParseAnthropic(e) = Gather(Tellings, e.parts) \o RestOf(e)
<1> DEFINE results == Kinds(e.parts, {"tool_result"})
           rest == Kinds(e.parts, RestKinds)
           h == [p \in PartSet |-> Told(p)]
           told == Each(LAMBDA p : [Says("tool", <<p.what>>) EXCEPT !.of = p.id], results)
           made == Message(e.role, Whats(rest, {"text"}), Kinds(rest, {"image"}),
                           Calls(rest), NoId, Whats(rest, {"thinking"}))
<1>1. e.parts \in Seq(PartSet)
  BY EntryIs
<1>2. /\ Whats(rest, {"text"}) = Whats(e.parts, {"text"})
      /\ Kinds(rest, {"image"}) = Kinds(e.parts, {"image"})
      /\ Calls(rest) = Calls(e.parts)
      /\ Whats(rest, {"thinking"}) = Whats(e.parts, {"thinking"})
  <2>1. /\ {"text"} \subseteq RestKinds /\ {"image"} \subseteq RestKinds
        /\ {"thinking"} \subseteq RestKinds /\ "tool_use" \in RestKinds
    BY DEF RestKinds
  <2> QED
    BY <1>1, <2>1, WhatsTwice, KindsTwice, CallsTwice, Zenon
<1>3. made = MadeAnthropic(e)
  BY <1>2, Zenon DEF MadeAnthropic
<1>4. ParseAnthropic(e) = told \o (IF rest = <<>> /\ results # <<>> THEN <<>> ELSE <<made>>)
  BY Zenon DEF ParseAnthropic, RestKinds
<1>5. told = Gather(Tellings, e.parts)
  <2>1. \A p \in PartSet : h[p] = Told(p) /\ h[p] \in InSet(TextSet)
    BY ToldMade
  <2>2. EachOf(h, {"tool_result"}) = Tellings
    BY DEF EachOf, Tellings
  <2>3. results \in Seq(PartSet)
    BY <1>1, KindsIs
  <2>4. told = [i \in DOMAIN results |-> Told(results[i])]
    BY Zenon DEF Each, Told
  <2>5. told = EachIn(h, results)
    <3> HIDE DEF h, results, told
    <3>1. \A i \in DOMAIN results : results[i] \in PartSet
      BY <2>3, SeqIs
    <3> QED
      BY <2>1, <2>4, <3>1 DEF EachIn
  <2> HIDE DEF h, told
  <2>6. EachIn(h, results) = Gather(EachOf(h, {"tool_result"}), e.parts)
    BY <1>1, <2>1, EachKind, Zenon
  <2> QED
    BY <2>2, <2>5, <2>6, Zenon
<1> HIDE DEF told, made
<1>6. RestOf(e) = IF rest = <<>> /\ results # <<>> THEN <<>> ELSE <<made>>
  BY <1>3, Zenon DEF RestOf
<1> QED
  BY <1>4, <1>5, <1>6, Zenon

LEMMA MadeTyped ==
    ASSUME NEW e \in RawSet
    PROVE  /\ MadeAnthropic(e) \in InSet(TextSet) /\ RestOf(e) \in Seq(InSet(TextSet))
           /\ (e.role = "tool" => Len(e.parts) > 0) => MadeOpenAI(e) \in InSet(TextSet)
           /\ Says(e.role, Whats(e.parts, {"text"})) \in InSet(TextSet)
<1>1. e.parts \in Seq(PartSet) /\ e.role \in Roles
  BY EntryIs
<1>2. Seq(SaidSet) \subseteq Seq(TextSet)
  BY Atomic, SeqLarger
<1>3. \A kinds : Whats(e.parts, kinds) \in Seq(SaidSet) /\ Whats(e.parts, kinds) \in Seq(TextSet)
                 /\ Kinds(e.parts, kinds) \in Seq(PartSet)
  BY <1>1, <1>2, WhatsIs, KindsIs
<1>4. Calls(e.parts) \in Seq(CallSet) /\ NoId \in AtomSet
  BY <1>1, CallsIs, Atomic
<1>5. MadeAnthropic(e) \in InSet(TextSet)
  BY <1>1, <1>3, <1>4, MessageMade, Zenon DEF MadeAnthropic
<1>6. RestOf(e) \in Seq(InSet(TextSet))
  <2>1. <<MadeAnthropic(e)>> \in Seq(InSet(TextSet)) /\ <<>> \in Seq(InSet(TextSet))
    BY <1>5
  <2> QED
    BY <2>1 DEF RestOf
<1>7. ASSUME e.role = "tool" => Len(e.parts) > 0 PROVE MadeOpenAI(e) \in InSet(TextSet)
  <2>1. (IF e.role = "tool" THEN e.parts[1].id ELSE NoId) \in AtomSet
    <3>1. CASE e.role = "tool"
      <4>1. e.parts[1] \in PartSet
        BY <1>1, <1>7, <3>1
      <4> QED
        BY <3>1, <4>1, PartIs
    <3>2. CASE e.role # "tool"
      BY <1>4, <3>2
    <3> QED
      BY <3>1, <3>2
  <2> QED
    BY <1>1, <1>3, <1>4, <2>1, MessageMade, Zenon DEF MadeOpenAI
<1>8. Says(e.role, Whats(e.parts, {"text"})) \in InSet(TextSet)
  BY <1>1, <1>3, SaysMade, Zenon
<1> QED
  BY <1>5, <1>6, <1>7, <1>8

\* What an entry becomes.
ParsedTo(protocol, e) ==
    IF protocol = "openai" THEN <<MadeOpenAI(e)>>
    ELSE IF protocol = "anthropic" THEN Gather(Tellings, e.parts) \o RestOf(e)
    ELSE IF e.role = "" THEN <<>> ELSE <<Says(e.role, Whats(e.parts, {"text"}))>>

Parse(protocol) == [e \in EntrySet(protocol) |-> ParsedTo(protocol, e)]

LEMMA ParseMaps ==
    ASSUME NEW protocol \in Protocols
    PROVE  Maps(Parse(protocol), EntrySet(protocol), InSet(TextSet))
<1>1. ASSUME NEW e \in EntrySet(protocol) PROVE ParsedTo(protocol, e) \in Seq(InSet(TextSet))
  <2>1. e \in RawSet /\ e.parts \in Seq(PartSet)
    BY EntryIs
  <2>2. CASE protocol = "openai"
    <3>1. e.role = "tool" => Len(e.parts) > 0
      <4>1. e.role = "tool" => ToolShape(e)
        BY <2>2 DEF EntrySet, SystemShape, AskShape, AnswerShape
      <4>2. ASSUME e.role = "tool" PROVE Len(e.parts) > 0
        <5>1. PICK p \in ResultSet : e.parts = <<p>>
          BY <4>1, <4>2 DEF ToolShape
        <5>2. Len(<<p>>) = 1
          OBVIOUS
        <5> QED
          BY <5>1, <5>2
      <4> QED
        BY <4>2
    <3>2. MadeOpenAI(e) \in InSet(TextSet)
      BY <2>1, <3>1, MadeTyped
    <3>3. <<MadeOpenAI(e)>> \in Seq(InSet(TextSet))
      BY <3>2, OneIs
    <3> QED
      BY <2>2, <3>3, Zenon DEF ParsedTo
  <2>3. CASE protocol = "anthropic"
    <3> DEFINE a == Gather(Tellings, e.parts)
               b == RestOf(e)
    <3>1. a \in Seq(InSet(TextSet)) /\ b \in Seq(InSet(TextSet))
      BY <2>1, TellingsMaps, GatherTyped, MadeTyped, Zenon
    <3> HIDE DEF a, b
    <3>2. a \o b \in Seq(InSet(TextSet))
      BY <3>1
    <3> QED
      BY <2>3, <3>2, Zenon DEF ParsedTo, a, b
  <2>4. CASE protocol = "responses"
    <3>1. Says(e.role, Whats(e.parts, {"text"})) \in InSet(TextSet)
      BY <2>1, MadeTyped
    <3>2. <<Says(e.role, Whats(e.parts, {"text"}))>> \in Seq(InSet(TextSet))
          /\ <<>> \in Seq(InSet(TextSet))
      BY <3>1, OneIs, NoneIs
    <3> QED
      BY <2>4, <3>2 DEF ParsedTo
  <2> QED
    BY <2>2, <2>3, <2>4 DEF Protocols
<1> QED
  BY <1>1 DEF Maps, Parse

\* The messages of a history, as the client's protocol has them.
LEMMA ParseIs ==
    ASSUME NEW protocol \in Protocols, NEW entries \in Seq(EntrySet(protocol))
    PROVE  /\ protocol = "openai" =>
                  All(ParseOpenAI, entries) = Gather(Parse(protocol), entries)
           /\ protocol = "anthropic" =>
                  All(ParseAnthropic, entries) = Gather(Parse(protocol), entries)
           /\ protocol = "responses" =>
                  All(ParseResponses, entries) = Gather(Parse(protocol), entries)
<1> DEFINE lots == Lots(Parse(protocol), entries)
<1>1. \A i \in DOMAIN entries : entries[i] \in EntrySet(protocol)
  BY SeqIs
<1>2. \A i \in DOMAIN entries : Parse(protocol)[entries[i]] = ParsedTo(protocol, entries[i])
  BY <1>1 DEF Parse
<1>3. lots = [i \in DOMAIN entries |-> ParsedTo(protocol, entries[i])]
  BY <1>2 DEF Lots
<1>4. Gather(Parse(protocol), entries) = Flat(lots, Len(entries))
  BY DEF Gather
<1> HIDE DEF lots
<1>5. ASSUME protocol = "openai" PROVE All(ParseOpenAI, entries) = Gather(Parse(protocol), entries)
  <2>1. \A e : ParsedTo(protocol, e) = ParseOpenAI(e)
    BY <1>5, Zenon DEF ParsedTo, ParseOpenAI, MadeOpenAI
  <2>2. Each(ParseOpenAI, entries) = lots
    BY <1>3, <2>1 DEF Each
  <2> QED
    BY <1>4, <2>2, Zenon DEF All
<1>6. ASSUME protocol = "anthropic"
      PROVE  All(ParseAnthropic, entries) = Gather(Parse(protocol), entries)
  <2>1. \A e \in EntrySet(protocol) : ParsedTo(protocol, e) = ParseAnthropic(e)
    <3> TAKE e \in EntrySet(protocol)
    <3>1. e \in RawSet
      BY EntryIs
    <3>2. ParseAnthropic(e) = Gather(Tellings, e.parts) \o RestOf(e)
      BY <3>1, ParseAnthropicIs
    <3>3. ParsedTo(protocol, e) = Gather(Tellings, e.parts) \o RestOf(e)
      BY <1>6 DEF ParsedTo
    <3> QED
      BY <3>2, <3>3
  <2>2. Each(ParseAnthropic, entries) = lots
    BY <1>1, <1>3, <2>1 DEF Each
  <2> QED
    BY <1>4, <2>2, Zenon DEF All
<1>7. ASSUME protocol = "responses"
      PROVE  All(ParseResponses, entries) = Gather(Parse(protocol), entries)
  <2>1. \A e : ParsedTo(protocol, e) = ParseResponses(e)
    BY <1>7 DEF ParsedTo, ParseResponses
  <2>2. Each(ParseResponses, entries) = lots
    BY <1>3, <2>1 DEF Each
  <2> QED
    BY <1>4, <2>2, Zenon DEF All
<1> QED
  BY <1>5, <1>6, <1>7

-----------------------------------------------------------------------------
(* Building, and what goes out as it came in.                              *)

\* A message as it goes out, and an image of it.
Ready(m) == IF Raw THEN Written(m) ELSE Built(m)

ImageOut(p) == IF Raw THEN p.what ELSE ImageUrl(p)

Urls(m) == Each(ImageOut, m.images)

\* A single image without text, where a body is built.
Alone(m) == ~Raw /\ Len(m.images) = 1 /\ m.text = <<>>

\* Calls, those without an id given one where a body is built.
Named(calls) ==
    [i \in DOMAIN calls |->
        IF ~Raw /\ calls[i].id = NoId
        THEN [calls[i] EXCEPT !.id = Atom("call", 0, i)] ELSE calls[i]]

LEMMA InIs ==
    ASSUME NEW texts, NEW m \in InSet(texts)
    PROVE  /\ m.role \in Roles /\ m.text \in Seq(texts) /\ m.images \in Seq(PartSet)
           /\ m.calls \in Seq(CallSet) /\ m.of \in AtomSet /\ m.reasoning \in Seq(SaidSet)
BY DEF InSet

LEMMA UrlsTyped ==
    ASSUME NEW texts, NEW m \in InSet(texts)
    PROVE  /\ Urls(m) \in Seq(AtomSet) /\ Len(Urls(m)) = Len(m.images)
           /\ \A i \in 1 .. Len(m.images) : m.images[i] \in PartSet /\ Urls(m)[i] = ImageOut(m.images[i])
<1>1. ASSUME NEW p \in PartSet PROVE ImageOut(p) \in AtomSet
  <2>1. p.what \in AtomSet
    BY PartIs, Atomic
  <2>2. p.what[2] \in Nat /\ p.what[3] \in Nat /\ "garbled" \in AtomKinds
    BY <2>1, Atomic DEF AtomKinds
  <2>3. <<"garbled", p.what[2], p.what[3]>> \in AtomSet
    BY <2>2 DEF AtomSet
  <2> QED
    BY <2>1, <2>3 DEF ImageOut, ImageUrl
<1> DEFINE s == m.images
<1>2. s \in Seq(PartSet)
  BY InIs
<1>3. Urls(m) = [i \in DOMAIN s |-> ImageOut(s[i])]
  BY DEF Urls, Each
<1> HIDE DEF s
<1>4. Len(s) \in Nat /\ DOMAIN s = 1 .. Len(s) /\ \A i \in 1 .. Len(s) : s[i] \in PartSet
  BY <1>2, SeqIs
<1>5. Urls(m) \in Seq(AtomSet) /\ Len(Urls(m)) = Len(s)
      /\ \A i \in 1 .. Len(s) : Urls(m)[i] = ImageOut(s[i])
  BY <1>1, <1>3, <1>4
<1> QED
  BY <1>4, <1>5 DEF s

LEMMA NamedTyped ==
    ASSUME NEW calls \in Seq(CallSet)
    PROVE  /\ Named(calls) \in Seq(CallSet) /\ Len(Named(calls)) = Len(calls)
           /\ \A i \in 1 .. Len(calls) :
                 /\ calls[i] \in CallSet
                 /\ Named(calls)[i].what = calls[i].what
                 /\ Named(calls)[i].id = IF ~Raw /\ calls[i].id = NoId THEN Atom("call", 0, i) ELSE calls[i].id
<1> DEFINE f(i) == IF ~Raw /\ calls[i].id = NoId THEN [calls[i] EXCEPT !.id = Atom("call", 0, i)] ELSE calls[i]
<1>1. Len(calls) \in Nat /\ DOMAIN calls = 1 .. Len(calls)
      /\ \A i \in 1 .. Len(calls) : calls[i] \in CallSet
  BY SeqIs
<1>2. ASSUME NEW i \in 1 .. Len(calls)
      PROVE  /\ f(i) \in CallSet /\ f(i).what = calls[i].what
             /\ f(i).id = IF ~Raw /\ calls[i].id = NoId THEN Atom("call", 0, i) ELSE calls[i].id
  <2>1. Atom("call", 0, i) \in AtomSet
    <3>1. "call" \in AtomKinds /\ 0 \in Nat /\ i \in Nat
      BY <1>1 DEF AtomKinds, TextKinds, SaidKinds
    <3> QED
      BY <3>1, Atomic
  <2>2. calls[i] \in CallSet
    BY <1>1
  <2> QED
    BY <2>1, <2>2 DEF CallSet
<1>3. Named(calls) = [i \in DOMAIN calls |-> f(i)]
  BY DEF Named
<1> HIDE DEF f
<1> QED
  BY <1>1, <1>2, <1>3

LEMMA ReadyIs ==
    ASSUME NEW m \in InSet(AtomSet)
    PROVE  /\ Ready(m) \in OutSet
           /\ Ready(m).role = m.role /\ Ready(m).of = m.of /\ Ready(m).reasoning = m.reasoning
           /\ Ready(m).text = IF Alone(m) THEN Urls(m) ELSE m.text
           /\ Ready(m).images = IF Alone(m) THEN <<>> ELSE Urls(m)
           /\ Ready(m).calls = Named(m.calls)
<1> DEFINE urls == Each(ImageOut, m.images)
           alone == ~Raw /\ Len(urls) = 1 /\ m.text = <<>>
           text == IF alone THEN urls ELSE m.text
           images == IF alone THEN <<>> ELSE urls
           calls == Named(m.calls)
<1>1. /\ m.role \in Roles /\ m.text \in Seq(AtomSet) /\ m.of \in AtomSet
      /\ m.reasoning \in Seq(SaidSet) /\ m.calls \in Seq(CallSet)
  BY InIs
<1>2. urls \in Seq(AtomSet) /\ Len(urls) = Len(m.images) /\ urls = Urls(m)
  BY UrlsTyped, Zenon DEF Urls
<1>3. calls \in Seq(CallSet)
  BY <1>1, NamedTyped
<1>4. Ready(m) = [m EXCEPT !.text = text, !.images = images, !.calls = calls]
  <2>1. CASE ~Raw
    <3>1. urls = Each(ImageUrl, m.images)
      BY <2>1 DEF ImageOut, Each
    <3>2. calls = [i \in DOMAIN m.calls |->
                     IF m.calls[i].id = NoId
                     THEN [m.calls[i] EXCEPT !.id = Atom("call", 0, i)] ELSE m.calls[i]]
      BY <2>1 DEF Named
    <3> HIDE DEF urls, calls
    <3> QED
      BY <2>1, <3>1, <3>2 DEF Ready, Built
  <2>2. CASE Raw
    <3>1. urls = Each(LAMBDA p : p.what, m.images)
      BY <2>2 DEF ImageOut, Each
    <3>2. calls = m.calls
      BY <1>1, <2>2 DEF Named
    <3>3. text = m.text /\ images = urls
      BY <2>2
    <3>4. Ready(m) = [m EXCEPT !.images = urls]
      BY <2>2, <3>1 DEF Ready, Written
    <3> HIDE DEF urls, calls, text, images
    <3> QED
      BY <3>2, <3>3, <3>4 DEF InSet
  <2> QED
    BY <2>1, <2>2
<1>5. DOMAIN m = {"role", "text", "images", "calls", "of", "reasoning"}
      /\ m = [role |-> m.role, text |-> m.text, images |-> m.images, calls |-> m.calls,
              of |-> m.of, reasoning |-> m.reasoning]
  BY DEF InSet
<1>6. <<>> \in Seq(AtomSet)
  BY NoneIs
<1> HIDE DEF urls
<1>7. text \in Seq(AtomSet) /\ images \in Seq(AtomSet)
  BY <1>1, <1>2, <1>6
<1>8. alone <=> Alone(m)
  BY <1>2 DEF Alone
<1> HIDE DEF alone, text, images, calls
<1>9. Ready(m) = [role |-> m.role, text |-> text, images |-> images, calls |-> calls,
                  of |-> m.of, reasoning |-> m.reasoning]
  BY <1>4, <1>5
<1>10. Ready(m) \in OutSet
  BY <1>1, <1>3, <1>7, <1>9 DEF OutSet
<1>11. /\ Ready(m).role = m.role /\ Ready(m).of = m.of /\ Ready(m).reasoning = m.reasoning
       /\ Ready(m).text = text /\ Ready(m).images = images /\ Ready(m).calls = calls
  BY <1>9
<1> QED
  BY <1>2, <1>8, <1>10, <1>11, Zenon DEF text, images, calls

OnReady(G) == [m \in InSet(AtomSet) |-> G[Ready(m)]]

LEMMA ReadyGathered ==
    ASSUME NEW ms \in Seq(InSet(AtomSet))
    PROVE  /\ Each(Ready, ms) \in Seq(OutSet) /\ Len(Each(Ready, ms)) = Len(ms)
           /\ \A i \in 1 .. Len(ms) : ms[i] \in InSet(AtomSet) /\ Each(Ready, ms)[i] = Ready(ms[i])
           /\ \A T, G : Maps(G, OutSet, T) =>
                 /\ Maps(OnReady(G), InSet(AtomSet), T)
                 /\ Gather(G, Each(Ready, ms)) = Gather(OnReady(G), ms)
<1> DEFINE b == Each(Ready, ms)
<1>1. Len(ms) \in Nat /\ DOMAIN ms = 1 .. Len(ms) /\ \A i \in 1 .. Len(ms) : ms[i] \in InSet(AtomSet)
  BY SeqIs
<1>2. \A m \in InSet(AtomSet) : Ready(m) \in OutSet
  BY ReadyIs
<1>3. b = [i \in DOMAIN ms |-> Ready(ms[i])]
  BY DEF Each
<1> HIDE DEF b
<1>4. b \in Seq(OutSet) /\ Len(b) = Len(ms) /\ \A i \in 1 .. Len(ms) : b[i] = Ready(ms[i])
  BY <1>1, <1>2, <1>3
<1>5. ASSUME NEW T, NEW G, Maps(G, OutSet, T)
      PROVE  Maps(OnReady(G), InSet(AtomSet), T) /\ Gather(G, b) = Gather(OnReady(G), ms)
  <2>1. Maps(OnReady(G), InSet(AtomSet), T)
    BY <1>2, <1>5 DEF Maps, OnReady
  <2>2. \A i \in 1 .. Len(ms) : G[b[i]] = OnReady(G)[ms[i]]
    BY <1>1, <1>4 DEF OnReady
  <2>3. Gather(G, b) = Gather(OnReady(G), ms)
    <3> DEFINE F == OnReady(G)
               A == InSet(AtomSet)
    <3>1. Maps(F, A, T) /\ ms \in Seq(A) /\ b \in Seq(OutSet) /\ Len(b) = Len(ms)
          /\ \A i \in 1 .. Len(ms) : G[b[i]] = F[ms[i]]
      BY <1>4, <2>1, <2>2
    <3> HIDE DEF F, A
    <3>2. Gather(G, b) = Gather(F, ms)
      BY <3>1, GatherSame
    <3> QED
      BY <3>2 DEF F
  <2> QED
    BY <2>1, <2>3
<1> QED
  BY <1>1, <1>4, <1>5, Zenon DEF b

-----------------------------------------------------------------------------
(* From the history to what is sent.                                       *)

MessageSet == InSet(AtomSet)

Systems == [m \in MessageSet |-> IF IsSystem(m) THEN <<m>> ELSE <<>>]

Others == [m \in MessageSet |-> IF ~IsSystem(m) THEN <<m>> ELSE <<>>]

\* G has nothing of a system message.
Ignores(G) == \A m \in MessageSet : IsSystem(m) => G[m] = <<>>

LEMMA SystemFirstIs ==
    ASSUME NEW ms \in Seq(MessageSet)
    PROVE  /\ SystemFirst(ms) = Gather(Systems, ms) \o Gather(Others, ms)
           /\ Maps(Systems, MessageSet, MessageSet) /\ Maps(Others, MessageSet, MessageSet)
           /\ Gather(Systems, ms) \in Seq(MessageSet) /\ Gather(Others, ms) \in Seq(MessageSet)
<1> DEFINE a == Each(LAMBDA m : IF IsSystem(m) THEN <<m>> ELSE <<>>, ms)
           b == Each(LAMBDA m : IF ~IsSystem(m) THEN <<m>> ELSE <<>>, ms)
<1>1. \A i \in DOMAIN ms : ms[i] \in MessageSet
  BY SeqIs
<1>2. \A i \in DOMAIN ms : /\ Systems[ms[i]] = IF IsSystem(ms[i]) THEN <<ms[i]>> ELSE <<>>
                           /\ Others[ms[i]] = IF ~IsSystem(ms[i]) THEN <<ms[i]>> ELSE <<>>
  BY <1>1 DEF Systems, Others
<1>3. a = Lots(Systems, ms) /\ b = Lots(Others, ms)
  BY <1>2 DEF Each, Lots
<1>4. SystemFirst(ms) = Flat(a, Len(ms)) \o Flat(b, Len(ms))
  BY DEF SystemFirst, Only, All, Each
<1> HIDE DEF a, b
<1>5. Maps(Systems, MessageSet, MessageSet) /\ Maps(Others, MessageSet, MessageSet)
  <2>1. ASSUME NEW m \in MessageSet
        PROVE  /\ (IF IsSystem(m) THEN <<m>> ELSE <<>>) \in Seq(MessageSet)
               /\ (IF ~IsSystem(m) THEN <<m>> ELSE <<>>) \in Seq(MessageSet)
    <3>1. <<m>> \in Seq(MessageSet) /\ <<>> \in Seq(MessageSet)
      OBVIOUS
    <3> QED
      BY <3>1
  <2> QED
    BY <2>1 DEF Maps, Systems, Others
<1>6. Gather(Systems, ms) \in Seq(MessageSet) /\ Gather(Others, ms) \in Seq(MessageSet)
  BY <1>5, GatherTyped, Zenon
<1> QED
  BY <1>3, <1>4, <1>5, <1>6, Zenon DEF Gather

\* Moving the system messages makes no difference to who ignores them.
LEMMA SystemFirstIgnored ==
    ASSUME NEW ms \in Seq(MessageSet), NEW T, NEW G, Maps(G, MessageSet, T), Ignores(G)
    PROVE  SystemFirst(ms) \in Seq(MessageSet) /\ Gather(G, SystemFirst(ms)) = Gather(G, ms)
<1> DEFINE A == MessageSet
           a == Gather(Systems, ms)
           b == Gather(Others, ms)
<1>1. a \in Seq(A) /\ b \in Seq(A) /\ SystemFirst(ms) = a \o b
      /\ Maps(Systems, A, A) /\ Maps(Others, A, A)
  BY SystemFirstIs, Zenon
<1>2. /\ Gather(G, a) = Gather(Through(G, Systems, A), ms)
      /\ Maps(Through(G, Systems, A), A, T)
      /\ Gather(G, b) = Gather(Through(G, Others, A), ms)
      /\ Maps(Through(G, Others, A), A, T)
  <2> HIDE DEF A
  <2>1. ms \in Seq(A) /\ Maps(G, A, T)
    BY DEF A
  <2>2. /\ Maps(Through(G, Systems, A), A, T)
        /\ Gather(G, Gather(Systems, ms)) = Gather(Through(G, Systems, A), ms)
    BY <1>1, <2>1, GatherTwice
  <2>3. /\ Maps(Through(G, Others, A), A, T)
        /\ Gather(G, Gather(Others, ms)) = Gather(Through(G, Others, A), ms)
    BY <1>1, <2>1, GatherTwice
  <2> QED
    BY <2>2, <2>3, Zenon
<1>3. ASSUME NEW m \in A
      PROVE  Through(G, Systems, A)[m] = <<>> /\ G[m] = Through(G, Others, A)[m]
  <2>1. Through(G, Systems, A)[m] = Gather(G, Systems[m]) /\ Through(G, Others, A)[m] = Gather(G, Others[m])
    BY DEF Through
  <2>2. Gather(G, <<m>>) = G[m] /\ Gather(G, <<>>) = <<>>
    BY GatherOne, GatherNone, Zenon
  <2>3. Systems[m] = (IF IsSystem(m) THEN <<m>> ELSE <<>>)
        /\ Others[m] = (IF ~IsSystem(m) THEN <<m>> ELSE <<>>)
    BY DEF Systems, Others
  <2>4. IsSystem(m) => G[m] = <<>>
    BY DEF Ignores
  <2> QED
    BY <2>1, <2>2, <2>3, <2>4
<1> HIDE DEF A, a, b
<1>4. ms \in Seq(A) /\ Maps(G, A, T)
  BY DEF A
<1>5. Gather(Through(G, Systems, A), ms) = <<>>
  <2>1. \A i \in 1 .. Len(ms) : Through(G, Systems, A)[ms[i]] = <<>>
    BY <1>3, <1>4, SeqIs
  <2> QED
    BY <1>2, <1>4, <2>1, GatherEmpty
<1>6. Gather(G, ms) = Gather(Through(G, Others, A), ms)
  <2> DEFINE F == Through(G, Others, A)
  <2>1. Maps(F, A, T) /\ \A m \in A : G[m] = F[m]
    BY <1>2, <1>3
  <2> HIDE DEF F
  <2>2. Gather(G, ms) = Gather(F, ms)
    BY <1>4, <2>1, GatherAgree
  <2> QED
    BY <2>2 DEF F
<1>7. Gather(G, a \o b) = Gather(G, a) \o Gather(G, b) /\ Gather(G, b) \in Seq(T)
      /\ a \o b \in Seq(A)
  <2>0. a \in Seq(A) /\ b \in Seq(A)
    BY <1>1
  <2>1. Gather(G, a \o b) = Gather(G, a) \o Gather(G, b)
    BY <1>4, <2>0, GatherJoined
  <2>2. Gather(G, b) \in Seq(T)
    BY <1>1, <1>4, GatherTyped
  <2>3. a \o b \in Seq(A)
    BY <1>1, Joined
  <2> QED
    BY <2>1, <2>2, <2>3
<1>8. <<>> \o Gather(G, b) = Gather(G, b)
  BY <1>7, JoinedNone
<1>9. Gather(G, a \o b) = Gather(G, ms)
  BY <1>2, <1>5, <1>6, <1>7, <1>8
<1> QED
  BY <1>1, <1>7, <1>9 DEF A

\* The tools by themselves, and at the end of a message.
Alone_Told == Says("system", <<Atom("default", 0, 0), ToolsTold>>)

WithTools(m) == [m EXCEPT !.text = Append(@, ToolsTold)]

NoSystem(ms) == \A i \in 1 .. Len(ms) : ~IsSystem(ms[i])

\* k is the first system message.
FirstSystem(ms, k) ==
    /\ k \in 1 .. Len(ms)
    /\ IsSystem(ms[k])
    /\ \A j \in 1 .. Len(ms) : IsSystem(ms[j]) => k <= j

\* t is ms with the tools told at k.
ToldAt(t, ms, k) ==
    /\ t \in Seq(MessageSet)
    /\ Len(t) = Len(ms)
    /\ t[k] = WithTools(ms[k])
    /\ \A i \in 1 .. Len(ms) : i # k => t[i] = ms[i]

LEMMA WithToolsIs ==
    ASSUME NEW m \in MessageSet
    PROVE  /\ WithTools(m) \in MessageSet
           /\ WithTools(m).role = m.role
           /\ WithTools(m).text = Append(m.text, ToolsTold)
           /\ WithTools(m).images = m.images
<1>1. ToolsTold \in AtomSet
  <2>1. "tools" \in AtomKinds /\ 0 \in Nat
    BY DEF AtomKinds
  <2> QED
    BY <2>1, Atomic DEF ToolsTold
<1>2. m.text \in Seq(AtomSet)
  BY InIs DEF MessageSet
<1>3. Append(m.text, ToolsTold) \in Seq(AtomSet)
  BY <1>1, <1>2
<1> QED
  BY <1>3 DEF WithTools, MessageSet, InSet

LEMMA AloneToldIs ==
    /\ Alone_Told \in MessageSet /\ IsSystem(Alone_Told)
    /\ Alone_Told.text = <<Atom("default", 0, 0), ToolsTold>>
<1>1. ToolsTold \in AtomSet /\ Atom("default", 0, 0) \in AtomSet
  <2>1. "tools" \in AtomKinds /\ "default" \in AtomKinds /\ 0 \in Nat
    BY DEF AtomKinds
  <2> QED
    BY <2>1, Atomic DEF ToolsTold
<1>2. <<Atom("default", 0, 0), ToolsTold>> \in Seq(AtomSet) /\ "system" \in Roles
  BY <1>1 DEF Roles
<1>3. Alone_Told \in MessageSet
  BY <1>2, SaysMade, Zenon DEF Alone_Told, MessageSet
<1> QED
  BY <1>3 DEF Alone_Told, Says, Message, IsSystem

LEMMA DescribedIs ==
    ASSUME NEW ms \in Seq(MessageSet)
    PROVE  \/ ~upstream.emulated /\ Described(ms) = ms
           \/ upstream.emulated /\ NoSystem(ms) /\ Described(ms) = <<Alone_Told>> \o ms
           \/ upstream.emulated /\ \E k : FirstSystem(ms, k) /\ ToldAt(Described(ms), ms, k)
<1> DEFINE systems == {i \in DOMAIN ms : IsSystem(ms[i])}
           first == CHOOSE i \in systems : \A j \in systems : i <= j
<1>1. Len(ms) \in Nat /\ DOMAIN ms = 1 .. Len(ms) /\ \A i \in 1 .. Len(ms) : ms[i] \in MessageSet
  BY SeqIs
<1>2. CASE ~upstream.emulated
  BY <1>2 DEF Described
<1>3. CASE upstream.emulated /\ systems = {}
  <2>1. NoSystem(ms)
    BY <1>1, <1>3 DEF NoSystem
  <2>2. Described(ms) = <<Alone_Told>> \o ms
    BY <1>3 DEF Described, Alone_Told
  <2> QED
    BY <1>3, <2>1, <2>2
<1>4. CASE upstream.emulated /\ systems # {}
  <2>1. Described(ms) = [ms EXCEPT ![first].text = Append(@, ToolsTold)]
    BY <1>4 DEF Described
  <2>2. systems \subseteq Nat
    BY <1>1
  <2>3. \E i \in systems : \A j \in systems : i <= j
    BY <1>4, <2>2, Least
  <2>4. first \in systems /\ \A j \in systems : first <= j
    BY <2>3, Zenon
  <2> HIDE DEF first
  <2>5. FirstSystem(ms, first)
    BY <1>1, <2>4 DEF FirstSystem
  <2>6. Described(ms) = [ms EXCEPT ![first] = WithTools(ms[first])]
    BY <2>1 DEF WithTools
  <2>7. WithTools(ms[first]) \in MessageSet
    BY <1>1, <2>5, WithToolsIs DEF FirstSystem
  <2>8. ToldAt(Described(ms), ms, first)
    BY <1>1, <2>5, <2>6, <2>7 DEF FirstSystem, ToldAt
  <2> QED
    BY <1>4, <2>5, <2>8
<1> QED
  BY <1>2, <1>3, <1>4

\* The messages with the tools told in words, where the upstream is told so.
Explained(ms) == IF Raw THEN ms ELSE Described(ms)

ByWords == upstream.emulated /\ ~Raw

LEMMA ExplainedIs ==
    ASSUME NEW ms \in Seq(MessageSet)
    PROVE  \/ ~ByWords /\ Explained(ms) = ms
           \/ ByWords /\ NoSystem(ms) /\ Explained(ms) = <<Alone_Told>> \o ms
           \/ ByWords /\ \E k : FirstSystem(ms, k) /\ ToldAt(Explained(ms), ms, k)
<1>1. CASE Raw
  BY <1>1 DEF Explained, ByWords
<1>2. CASE ~Raw
  BY <1>2, DescribedIs, Zenon DEF Explained, ByWords
<1> QED
  BY <1>1, <1>2

LEMMA ExplainedIgnored ==
    ASSUME NEW ms \in Seq(MessageSet), NEW T, NEW G, Maps(G, MessageSet, T), Ignores(G)
    PROVE  Explained(ms) \in Seq(MessageSet) /\ Gather(G, Explained(ms)) = Gather(G, ms)
<1> DEFINE A == MessageSet
<1>1. CASE Explained(ms) = ms
  BY <1>1
<1>2. CASE Explained(ms) = <<Alone_Told>> \o ms
  <2> DEFINE d == <<Alone_Told>>
  <2>1. Alone_Told \in A /\ IsSystem(Alone_Told)
    BY AloneToldIs
  <2>2. d \in Seq(A)
    BY <2>1
  <2>3. Gather(G, d) = <<>>
    BY <2>1, GatherOne, Zenon DEF Ignores
  <2> HIDE DEF A, d
  <2>4. ms \in Seq(A) /\ Maps(G, A, T)
    BY DEF A
  <2>5. Gather(G, d \o ms) = Gather(G, d) \o Gather(G, ms) /\ Gather(G, ms) \in Seq(T)
        /\ d \o ms \in Seq(A)
    BY <2>2, <2>4, GatherJoined, GatherTyped
  <2>6. <<>> \o Gather(G, ms) = Gather(G, ms)
    BY <2>5, JoinedNone
  <2>7. Gather(G, d \o ms) = Gather(G, ms)
    BY <2>3, <2>5, <2>6
  <2> QED
    BY <1>2, <2>5, <2>7 DEF A, d
<1>3. CASE \E k : FirstSystem(ms, k) /\ ToldAt(Explained(ms), ms, k)
  <2> DEFINE t == Explained(ms)
  <2>1. PICK k : FirstSystem(ms, k) /\ ToldAt(t, ms, k)
    BY <1>3
  <2> HIDE DEF t
  <2>2. t \in Seq(A) /\ Len(t) = Len(ms) /\ \A i \in 1 .. Len(ms) : ms[i] \in A
    BY <2>1, SeqIs DEF ToldAt
  <2>3. \A i \in 1 .. Len(ms) : G[t[i]] = G[ms[i]]
    <3> TAKE i \in 1 .. Len(ms)
    <3>1. CASE i # k
      BY <2>1, <3>1 DEF ToldAt
    <3>2. CASE i = k
      <4>1. t[i] = WithTools(ms[i]) /\ IsSystem(ms[i])
        BY <2>1, <3>2 DEF ToldAt, FirstSystem
      <4>2. t[i] \in A /\ IsSystem(t[i])
        BY <2>2, <4>1, WithToolsIs DEF IsSystem
      <4> QED
        BY <2>2, <4>1, <4>2 DEF Ignores
    <3> QED
      BY <3>1, <3>2
  <2> HIDE DEF A
  <2>4. ms \in Seq(A) /\ Maps(G, A, T)
    BY DEF A
  <2>5. t \in Seq(A) /\ Len(t) = Len(ms)
    BY <2>2
  <2>6. Agree(G, ms, G, t)
    BY <2>3, <2>5 DEF Agree
  <2>7. Gather(G, t) = Gather(G, ms)
    <3>1. t \in Seq(A)
      BY <2>5
    <3> QED
      BY <2>4, <2>6, <3>1, GatherAlike
  <2> QED
    BY <2>5, <2>7 DEF A, t
<1> QED
  BY <1>1, <1>2, <1>3, ExplainedIs

-----------------------------------------------------------------------------
(* What the upstream is sent.                                              *)

LEMMA PromptIs ==
    /\ Prompt \in Seq(InSet(TextSet))
    /\ \A i \in 1 .. Len(Prompt) : IsSystem(Prompt[i])
<1> DEFINE m == Says("system", <<Atom("prompt", 0, 0)>>)
<1>1. Atom("prompt", 0, 0) \in TextSet
  BY DEF Atom, TextSet, TextKinds
<1>2. m \in InSet(TextSet) /\ IsSystem(m)
  <2>1. <<Atom("prompt", 0, 0)>> \in Seq(TextSet) /\ "system" \in Roles
    BY <1>1 DEF Roles
  <2>2. m \in InSet(TextSet)
    BY <2>1, SaysMade, Zenon
  <2>3. IsSystem(m)
    BY DEF IsSystem, Says, Message
  <2> QED
    BY <2>2, <2>3
<1> HIDE DEF m
<1>3. Prompt = <<m>> \/ Prompt = <<>>
  BY DEF Prompt, m
<1>4. <<m>> \in Seq(InSet(TextSet)) /\ Len(<<m>>) = 1 /\ <<m>>[1] = m
      /\ <<>> \in Seq(InSet(TextSet)) /\ Len(<<>>) = 0
  BY <1>2
<1>5. CASE Prompt = <<m>>
  BY <1>2, <1>4, <1>5
<1>6. CASE Prompt = <<>>
  BY <1>4, <1>6
<1> QED
  BY <1>3, <1>5, <1>6

\* The messages of a history before any are moved, described or built.
Plainly(entries) == Prompt \o Gather(Parse(client.protocol), entries)

LEMMA PlainlyTyped ==
    ASSUME client.protocol \in Protocols, NEW entries \in Seq(EntrySet(client.protocol))
    PROVE  /\ Gather(Parse(client.protocol), entries) \in Seq(InSet(TextSet))
           /\ Plainly(entries) \in Seq(InSet(TextSet))
           /\ Plainly(entries) \in Seq(MessageSet)
           /\ Gather(Parse(client.protocol), entries) \in Seq(MessageSet)
           /\ Prompt \in Seq(MessageSet)
<1> DEFINE g == Gather(Parse(client.protocol), entries)
           X == InSet(TextSet)
<1>1. g \in Seq(X)
  BY ParseMaps, GatherTyped, Zenon
<1>2. Prompt \in Seq(X)
  BY PromptIs
<1>3. X \subseteq MessageSet
  BY InLarger DEF MessageSet
<1> HIDE DEF g, X
<1>4. Seq(X) \subseteq Seq(MessageSet)
  BY <1>3, SeqLarger
<1>5. Prompt \o g \in Seq(X)
  BY <1>1, <1>2
<1>6. g \in Seq(MessageSet) /\ Prompt \in Seq(MessageSet) /\ Prompt \o g \in Seq(MessageSet)
  BY <1>1, <1>2, <1>4, <1>5
<1> QED
  BY <1>1, <1>5, <1>6 DEF g, X, Plainly

LEMMA ParsedIs ==
    ASSUME client.protocol \in Protocols, NEW entries \in Seq(EntrySet(client.protocol))
    PROVE  Parsed(entries) = IF client.protocol = "anthropic" THEN SystemFirst(Plainly(entries))
                             ELSE Plainly(entries)
<1>1. CASE client.protocol = "openai"
  <2>1. All(ParseOpenAI, entries) = Gather(Parse(client.protocol), entries)
    BY <1>1, ParseIs
  <2>2. Parsed(entries) = Prompt \o All(ParseOpenAI, entries)
    BY <1>1 DEF Parsed
  <2> QED
    BY <1>1, <2>1, <2>2 DEF Plainly
<1>2. CASE client.protocol = "anthropic"
  <2>1. All(ParseAnthropic, entries) = Gather(Parse(client.protocol), entries)
    BY <1>2, ParseIs
  <2>2. Parsed(entries) = SystemFirst(Prompt \o All(ParseAnthropic, entries))
    BY <1>2 DEF Parsed
  <2> QED
    BY <1>2, <2>1, <2>2 DEF Plainly
<1>3. CASE client.protocol = "responses"
  <2>1. All(ParseResponses, entries) = Gather(Parse(client.protocol), entries)
    BY <1>3, ParseIs
  <2>2. Parsed(entries) = Prompt \o All(ParseResponses, entries)
    BY <1>3 DEF Parsed
  <2> QED
    BY <1>3, <2>1, <2>2 DEF Plainly
<1> QED
  BY <1>1, <1>2, <1>3 DEF Protocols

LEMMA SentIs ==
    ASSUME NEW entries
    PROVE  /\ Sent(entries).messages = Each(Ready, Explained(Parsed(entries)))
           /\ Sent(entries).tools = ~ByWords
<1> DEFINE ms == Parsed(entries)
           d == Described(ms)
<1> HIDE DEF ms
<1>1. CASE Raw
  <2>1. Each(Ready, ms) = Each(Written, ms)
    BY <1>1 DEF Each, Ready
  <2>2. Sent(entries) = [messages |-> Each(Written, ms), tools |-> TRUE]
    BY <1>1 DEF Sent, ms
  <2>3. Sent(entries).messages = Each(Written, ms) /\ Sent(entries).tools = TRUE
    BY <2>2
  <2>4. Explained(ms) = ms /\ (~ByWords) = TRUE
    BY <1>1 DEF Explained, ByWords
  <2> QED
    BY <2>1, <2>3, <2>4, Zenon DEF ms
<1>2. CASE ~Raw
  <2> HIDE DEF d
  <2>1. Each(Ready, d) = Each(Built, d)
    BY <1>2 DEF Each, Ready
  <2>2. Sent(entries) = [messages |-> Each(Built, d), tools |-> ~upstream.emulated]
    BY <1>2 DEF Sent, d, ms
  <2>3. Sent(entries).messages = Each(Built, d) /\ Sent(entries).tools = ~upstream.emulated
    BY <2>2
  <2>4. Explained(ms) = d
    BY <1>2 DEF Explained, d
  <2>5. (~ByWords) = ~upstream.emulated
    BY <1>2 DEF ByWords
  <2> QED
    BY <2>1, <2>3, <2>4, <2>5, Zenon DEF ms
<1> QED
  BY <1>1, <1>2

\* What G has of each entry, once its messages are ready.
PerEntry(G, protocol) == Through(OnReady(G), Parse(protocol), EntrySet(protocol))

\* Who ignores the system messages sees only the messages of the entries.
LEMMA Pipe ==
    ASSUME client.protocol \in Protocols, NEW entries \in Seq(EntrySet(client.protocol)),
           NEW T, NEW G, Maps(G, OutSet, T), \A m \in OutSet : m.role = "system" => G[m] = <<>>
    PROVE  /\ Maps(PerEntry(G, client.protocol), EntrySet(client.protocol), T)
           /\ Gather(G, Sent(entries).messages) = Gather(PerEntry(G, client.protocol), entries)
<1> DEFINE p == client.protocol
           g == Gather(Parse(p), entries)
           H == OnReady(G)
           d == Explained(Parsed(entries))
<1>1. Parse(p) \in [EntrySet(p) -> Seq(InSet(TextSet))] /\ Maps(Parse(p), EntrySet(p), MessageSet)
  <2>1. Maps(Parse(p), EntrySet(p), InSet(TextSet))
    BY ParseMaps
  <2>2. Seq(InSet(TextSet)) \subseteq Seq(MessageSet)
    BY InLarger, SeqLarger DEF MessageSet
  <2> QED
    BY <2>1, <2>2 DEF Maps
<1>2. Plainly(entries) \in Seq(MessageSet) /\ Prompt \in Seq(MessageSet) /\ g \in Seq(MessageSet)
  BY PlainlyTyped
<1>3. Maps(H, MessageSet, T) /\ Ignores(H)
  <2>1. \A m \in MessageSet : Ready(m) \in OutSet /\ Ready(m).role = m.role
    BY ReadyIs DEF MessageSet
  <2>2. \A m \in MessageSet : H[m] = G[Ready(m)] /\ G[Ready(m)] \in Seq(T)
    BY <2>1 DEF OnReady, MessageSet, Maps
  <2>3. \A m \in MessageSet : IsSystem(m) => H[m] = <<>>
    BY <2>1, <2>2 DEF IsSystem
  <2>4. Maps(H, MessageSet, T)
    BY <2>1 DEF OnReady, MessageSet, Maps
  <2> QED
    BY <2>3, <2>4 DEF Ignores
<1> HIDE DEF H
<1>4. Parsed(entries) \in Seq(MessageSet) /\ Gather(H, Parsed(entries)) = Gather(H, Plainly(entries))
  <2>1. CASE p = "anthropic"
    BY <1>2, <1>3, <2>1, ParsedIs, SystemFirstIgnored, Zenon
  <2>2. CASE p # "anthropic"
    BY <1>2, <2>2, ParsedIs, Zenon
  <2> QED
    BY <2>1, <2>2
<1>5. d \in Seq(MessageSet) /\ Gather(H, d) = Gather(H, Parsed(entries))
  BY <1>3, <1>4, ExplainedIgnored, Zenon
<1>6. Gather(G, Sent(entries).messages) = Gather(H, d)
  <2>1. Sent(entries).messages = Each(Ready, d)
    BY SentIs
  <2>2. Gather(G, Each(Ready, d)) = Gather(H, d)
    BY <1>5, ReadyGathered, Zenon DEF MessageSet, H
  <2> QED
    BY <2>1, <2>2
<1>7. Gather(H, Plainly(entries)) = Gather(H, g)
  <2> HIDE DEF g
  <2>1. Plainly(entries) = Prompt \o g
    BY DEF g, Plainly
  <2>2. Gather(H, Prompt \o g) = Gather(H, Prompt) \o Gather(H, g)
    BY <1>2, <1>3, GatherJoined
  <2>3. Gather(H, Prompt) = <<>>
    <3>1. \A i \in 1 .. Len(Prompt) : H[Prompt[i]] = <<>>
      BY <1>2, <1>3, PromptIs, SeqIs DEF Ignores
    <3> QED
      BY <1>2, <1>3, <3>1, GatherEmpty
  <2>4. Gather(H, g) \in Seq(T)
    BY <1>2, <1>3, GatherTyped
  <2>5. <<>> \o Gather(H, g) = Gather(H, g)
    BY <2>4, JoinedNone
  <2> QED
    BY <2>1, <2>2, <2>3, <2>5
<1>8. /\ Maps(Through(H, Parse(p), EntrySet(p)), EntrySet(p), T)
      /\ Gather(H, g) = Gather(Through(H, Parse(p), EntrySet(p)), entries)
  <2> DEFINE F == Parse(p)
             E == EntrySet(p)
             M == MessageSet
  <2>1. Maps(F, E, M) /\ Maps(H, M, T) /\ entries \in Seq(E)
    BY <1>1, <1>3
  <2> HIDE DEF F, E, M
  <2>2. Maps(Through(H, F, E), E, T) /\ Gather(H, Gather(F, entries)) = Gather(Through(H, F, E), entries)
    BY <2>1, GatherTwice
  <2> QED
    BY <2>2, Zenon DEF F, E
<1> QED
  BY <1>4, <1>5, <1>6, <1>7, <1>8, Zenon DEF PerEntry, H

-----------------------------------------------------------------------------
(* Answers.                                                                *)

AnswerSet == [reasoning : Seq(SaidSet), text : Seq(SaidSet), calls : Seq(CallSet)]

\* The r-th answer, as the upstream said it.
AnswerOf(reasons, kind, n, r, ids) ==
    [reasoning |-> IF reasons THEN <<Atom("reasoning", r, 0)>> ELSE <<>>,
     text |-> IF kind = "" THEN <<>> ELSE <<Atom(kind, r, 0)>>,
     calls |-> [i \in 1 .. n |-> Call(IF ids THEN Atom("id", r, i) ELSE NoId, Atom("call", r, i))]]

TextKind == {"", "text", "call"}

\* `words`: whether the upstream was told the tools in words.
AnswerAt(r, a, ids, words) ==
    \E reasons \in BOOLEAN, kind \in TextKind, n \in Nat :
        /\ words => n = 0
        /\ kind = "call" => words
        /\ a = AnswerOf(reasons, kind, n, r, ids)

LEMMA AnswerTyped ==
    ASSUME NEW reasons, NEW kind \in TextKind, NEW n \in Nat, NEW r \in Nat, NEW ids
    PROVE  AnswerOf(reasons, kind, n, r, ids) \in AnswerSet
<1>1. Atom("reasoning", r, 0) \in SaidSet /\ (kind # "" => Atom(kind, r, 0) \in SaidSet)
  <2>1. "reasoning" \in SaidKinds /\ 0 \in Nat /\ (kind # "" => kind \in SaidKinds)
    BY DEF SaidKinds, TextKind
  <2> QED
    BY <2>1, Atomic
<1>2. ASSUME NEW i \in 1 .. n
      PROVE  Call(IF ids THEN Atom("id", r, i) ELSE NoId, Atom("call", r, i)) \in CallSet
  <2>1. "call" \in SaidKinds /\ "id" \in AtomKinds /\ i \in Nat
    <3>1. "call" \in SaidKinds
      BY DEF SaidKinds
    <3>2. "id" \in AtomKinds
      BY DEF AtomKinds
    <3>3. i \in Nat
      OBVIOUS
    <3> QED
      BY <3>1, <3>2, <3>3
  <2>2. Atom("call", r, i) \in SaidSet /\ Atom("id", r, i) \in AtomSet /\ NoId \in AtomSet
    BY <2>1, Atomic
  <2> QED
    BY <2>2 DEF Call, CallSet
<1>3. (IF reasons THEN <<Atom("reasoning", r, 0)>> ELSE <<>>) \in Seq(SaidSet)
  BY <1>1, OneIs, NoneIs
<1>4. (IF kind = "" THEN <<>> ELSE <<Atom(kind, r, 0)>>) \in Seq(SaidSet)
  BY <1>1, OneIs, NoneIs
<1>5. [i \in 1 .. n |-> Call(IF ids THEN Atom("id", r, i) ELSE NoId, Atom("call", r, i))] \in Seq(CallSet)
  <2> DEFINE f(i) == Call(IF ids THEN Atom("id", r, i) ELSE NoId, Atom("call", r, i))
  <2>1. \A i \in 1 .. n : f(i) \in CallSet
    BY <1>2
  <2> HIDE DEF f
  <2>2. [i \in 1 .. n |-> f(i)] \in Seq(CallSet)
    BY <2>1
  <2> QED
    BY <2>2, Zenon DEF f
<1> QED
  BY <1>3, <1>4, <1>5 DEF AnswerOf, AnswerSet

LEMMA AnswerIs ==
    ASSUME NEW a \in AnswerSet
    PROVE  a.reasoning \in Seq(SaidSet) /\ a.text \in Seq(SaidSet) /\ a.calls \in Seq(CallSet)
BY DEF AnswerSet

\* An answer as the client hears it.
Heard(answer) == IF client.streams THEN Streamed(answer) ELSE answer

CallParts(a) == [i \in DOMAIN a.calls |-> Part("tool_use", a.calls[i].what, IdFor(a, i))]

PartsHeard(a) == PartsOf("thinking", a.reasoning) \o PartsOf("text", a.text) \o CallParts(a)

ItemOf(p) == Entry(IF p.kind = "text" THEN "assistant" ELSE "", <<p>>)

LEMMA ReceivedIs ==
    ASSUME NEW answer
    PROVE  Received(answer) = IF client.protocol # "responses"
                              THEN <<Entry("assistant", PartsHeard(Heard(answer)))>>
                              ELSE Each(ItemOf, PartsHeard(Heard(answer)))
BY Zenon DEF Received, PartsHeard, CallParts, Heard, ItemOf

LEMMA HeardTyped ==
    ASSUME NEW answer \in AnswerSet
    PROVE  /\ Heard(answer) \in AnswerSet
           /\ Heard(answer).reasoning = answer.reasoning
           /\ \/ Heard(answer) = answer
              \/ /\ upstream.emulated /\ ByWords /\ answer.text # <<>>
                 /\ answer.text[1][1] = "call"
                 /\ Heard(answer).text = <<>>
                 /\ Heard(answer).calls = <<Call(NoId, answer.text[1])>>
<1>1. CASE client.streams /\ upstream.emulated /\ answer.text # <<>> /\ answer.text[1][1] = "call"
  <2>1. answer.text \in Seq(SaidSet) /\ answer.text[1] \in SaidSet
    BY <1>1, AnswerIs
  <2>2. <<Call(NoId, answer.text[1])>> \in Seq(CallSet) /\ <<>> \in Seq(SaidSet)
    <3>1. Call(NoId, answer.text[1]) \in CallSet
      BY <2>1, Atomic DEF Call, CallSet
    <3> QED
      BY <3>1, OneIs, NoneIs
  <2>3. Heard(answer) = [answer EXCEPT !.text = <<>>, !.calls = <<Call(NoId, answer.text[1])>>]
    BY <1>1 DEF Heard, Streamed
  <2>4. /\ Heard(answer) \in AnswerSet
        /\ Heard(answer).reasoning = answer.reasoning
        /\ Heard(answer).text = <<>>
        /\ Heard(answer).calls = <<Call(NoId, answer.text[1])>>
    BY <2>2, <2>3 DEF AnswerSet
  <2>5. ByWords
    BY <1>1 DEF ByWords, Raw
  <2> QED
    BY <1>1, <2>4, <2>5
<1>2. CASE ~(client.streams /\ upstream.emulated /\ answer.text # <<>> /\ answer.text[1][1] = "call")
  <2>1. Heard(answer) = answer
    BY <1>2 DEF Heard, Streamed
  <2> QED
    BY <2>1
<1> QED
  BY <1>1, <1>2

LEMMA IdForTyped ==
    ASSUME client.protocol \in Protocols, NEW a \in AnswerSet, NEW i \in DOMAIN a.calls
    PROVE  /\ IdFor(a, i) \in AtomSet
           /\ a.calls[i].id # NoId => IdFor(a, i) = a.calls[i].id
           /\ IdFor(a, i) # NoId
<1> DEFINE blocks == Len(a.reasoning) + Len(a.text) + i - 1
<1>1. a.calls \in Seq(CallSet) /\ i \in Nat /\ i >= 1 /\ a.calls[i] \in CallSet
  BY AnswerIs
<1>2. Len(a.reasoning) \in Nat /\ Len(a.text) \in Nat
  BY AnswerIs
<1>3. blocks \in Nat /\ i - 1 \in Nat /\ 0 \in Nat
  <2> DEFINE x == Len(a.reasoning)
             y == Len(a.text)
  <2>1. x \in Nat /\ y \in Nat
    BY <1>2
  <2> HIDE DEF x, y
  <2>2. x + y + i - 1 \in Nat /\ i - 1 \in Nat
    BY <1>1, <2>1
  <2> QED
    BY <2>2 DEF x, y
<1>4. {"call_emulated", "toolu", "call_gw", ""} \subseteq AtomKinds
  BY DEF AtomKinds
<1>5. a.calls[i].id \in AtomSet
  BY <1>1 DEF CallSet
<1>6. ASSUME NEW k \in {"call_emulated", "toolu", "call_gw", ""}, NEW n \in Nat
      PROVE  Atom(k, 0, n) \in AtomSet /\ Atom(k, 0, n) # NoId
  BY <1>3, <1>4, <1>6, Atomic DEF Atom, NoId
<1> HIDE DEF blocks
<1>7. CASE a.calls[i].id # NoId
  <2>1. IdFor(a, i) = a.calls[i].id
    BY <1>7 DEF IdFor
  <2> QED
    BY <1>5, <1>7, <2>1
<1>8. CASE a.calls[i].id = NoId
  <2>1. CASE client.protocol = "openai"
    <3>1. IdFor(a, i) = Atom("call_emulated", 0, 0)
      BY <1>8, <2>1 DEF IdFor
    <3> QED
      BY <1>3, <1>6, <1>8, <3>1
  <2>2. CASE client.protocol = "anthropic"
    <3>1. IdFor(a, i) = Atom("toolu", 0, IF client.streams THEN blocks ELSE i - 1)
      BY <1>8, <2>2 DEF IdFor, blocks
    <3>2. (IF client.streams THEN blocks ELSE i - 1) \in Nat
      BY <1>3
    <3> QED
      BY <1>6, <1>8, <3>1, <3>2
  <2>3. CASE client.protocol = "responses"
    <3>1. IdFor(a, i) = Atom(IF client.streams THEN "call_gw" ELSE "", 0, 0)
      BY <1>8, <2>3 DEF IdFor
    <3>2. (IF client.streams THEN "call_gw" ELSE "") \in {"call_emulated", "toolu", "call_gw", ""}
      OBVIOUS
    <3> QED
      BY <1>3, <1>6, <1>8, <3>1, <3>2
  <2> QED
    BY <2>1, <2>2, <2>3 DEF Protocols
<1> QED
  BY <1>7, <1>8

LEMMA PartsOfTyped ==
    ASSUME NEW kind \in PartKinds, NEW atoms \in Seq(SaidSet)
    PROVE  /\ PartsOf(kind, atoms) \in Seq(PartSet) /\ Len(PartsOf(kind, atoms)) = Len(atoms)
           /\ \A i \in 1 .. Len(atoms) : /\ PartsOf(kind, atoms)[i] = Part(kind, atoms[i], NoId)
                                         /\ PartsOf(kind, atoms)[i].kind = kind
                                         /\ PartsOf(kind, atoms)[i].what = atoms[i]
<1>1. Len(atoms) \in Nat /\ DOMAIN atoms = 1 .. Len(atoms) /\ \A i \in 1 .. Len(atoms) : atoms[i] \in SaidSet
  BY SeqIs
<1>2. \A i \in 1 .. Len(atoms) : /\ Part(kind, atoms[i], NoId) \in PartSet
                                 /\ Part(kind, atoms[i], NoId).kind = kind
                                 /\ Part(kind, atoms[i], NoId).what = atoms[i]
  BY <1>1, PartMade, Atomic
<1>3. PartsOf(kind, atoms) = [i \in DOMAIN atoms |-> Part(kind, atoms[i], NoId)]
  BY DEF PartsOf, Each
<1> QED
  BY <1>1, <1>2, <1>3

LEMMA CallPartsTyped ==
    ASSUME client.protocol \in Protocols, NEW a \in AnswerSet
    PROVE  /\ CallParts(a) \in Seq(PartSet) /\ Len(CallParts(a)) = Len(a.calls)
           /\ \A i \in 1 .. Len(a.calls) :
                 /\ CallParts(a)[i].kind = "tool_use"
                 /\ CallParts(a)[i].what = a.calls[i].what
                 /\ CallParts(a)[i].id = IdFor(a, i)
<1>1. a.calls \in Seq(CallSet)
  BY AnswerIs
<1>2. Len(a.calls) \in Nat /\ DOMAIN a.calls = 1 .. Len(a.calls)
      /\ \A i \in 1 .. Len(a.calls) : a.calls[i].what \in SaidSet
  <2>1. \A c \in CallSet : c.what \in SaidSet
    BY DEF CallSet
  <2> QED
    BY <1>1, <2>1, SeqIs
<1>3. ASSUME NEW i \in 1 .. Len(a.calls)
      PROVE  /\ Part("tool_use", a.calls[i].what, IdFor(a, i)) \in PartSet
             /\ Part("tool_use", a.calls[i].what, IdFor(a, i)).kind = "tool_use"
             /\ Part("tool_use", a.calls[i].what, IdFor(a, i)).what = a.calls[i].what
             /\ Part("tool_use", a.calls[i].what, IdFor(a, i)).id = IdFor(a, i)
  <2>1. IdFor(a, i) \in AtomSet
    BY <1>2, IdForTyped
  <2>2. a.calls[i].what \in SaidSet /\ "tool_use" \in PartKinds
    BY <1>2 DEF PartKinds
  <2> QED
    BY <2>1, <2>2, PartMade
<1> DEFINE f(i) == Part("tool_use", a.calls[i].what, IdFor(a, i))
<1>4. CallParts(a) = [i \in DOMAIN a.calls |-> f(i)]
  BY DEF CallParts
<1>5. \A i \in 1 .. Len(a.calls) : f(i) \in PartSet /\ f(i).kind = "tool_use"
                                   /\ f(i).what = a.calls[i].what /\ f(i).id = IdFor(a, i)
  BY <1>3
<1> HIDE DEF f
<1> QED
  BY <1>2, <1>4, <1>5

LEMMA WhatsAll ==
    ASSUME NEW s \in Seq(PartSet), NEW kinds, \A i \in 1 .. Len(s) : s[i].kind \in kinds
    PROVE  Whats(s, kinds) = [i \in 1 .. Len(s) |-> s[i].what]
<1>1. Kinds(s, kinds) = s
  BY KindsAll
<1>2. DOMAIN s = 1 .. Len(s)
  BY SeqIs
<1> QED
  BY <1>1, <1>2, Zenon DEF Whats, Each

LEMMA CallsAll ==
    ASSUME NEW s \in Seq(PartSet), \A i \in 1 .. Len(s) : s[i].kind = "tool_use"
    PROVE  Calls(s) = [i \in 1 .. Len(s) |-> Call(s[i].id, s[i].what)]
<1>1. Kinds(s, {"tool_use"}) = s
  BY KindsAll
<1>2. DOMAIN s = 1 .. Len(s)
  BY SeqIs
<1> QED
  BY <1>1, <1>2, Zenon DEF Calls, Each

\* The reasoning, the text and the calls are the parts of their kinds.
LEMMA PartsHeardIs ==
    ASSUME client.protocol \in Protocols, NEW a \in AnswerSet
    PROVE  /\ PartsHeard(a) \in Seq(PartSet)
           /\ \A i \in 1 .. Len(PartsHeard(a)) : PartsHeard(a)[i].kind \in {"thinking", "text", "tool_use"}
           /\ Whats(PartsHeard(a), {"thinking"}) = a.reasoning
           /\ Whats(PartsHeard(a), {"text", "tool_result"}) = a.text
           /\ Whats(PartsHeard(a), {"text"}) = a.text
           /\ Calls(PartsHeard(a)) = [i \in 1 .. Len(a.calls) |-> Call(IdFor(a, i), a.calls[i].what)]
           /\ Kinds(PartsHeard(a), {"tool_use"}) = CallParts(a)
<1> DEFINE x == PartsOf("thinking", a.reasoning)
           y == PartsOf("text", a.text)
           z == CallParts(a)
<1>1. "thinking" \in PartKinds /\ "text" \in PartKinds /\ a.reasoning \in Seq(SaidSet) /\ a.text \in Seq(SaidSet)
      /\ Len(a.calls) \in Nat
  BY AnswerIs DEF PartKinds
<1>2. /\ x \in Seq(PartSet) /\ Len(x) = Len(a.reasoning)
      /\ \A i \in 1 .. Len(x) : x[i].kind = "thinking" /\ x[i].what = a.reasoning[i]
  BY <1>1, PartsOfTyped
<1>3. /\ y \in Seq(PartSet) /\ Len(y) = Len(a.text)
      /\ \A i \in 1 .. Len(y) : y[i].kind = "text" /\ y[i].what = a.text[i]
  BY <1>1, PartsOfTyped
<1>4. /\ z \in Seq(PartSet) /\ Len(z) = Len(a.calls)
      /\ \A i \in 1 .. Len(z) : z[i].kind = "tool_use" /\ z[i].what = a.calls[i].what /\ z[i].id = IdFor(a, i)
  BY CallPartsTyped
<1>5. PartsHeard(a) = (x \o y) \o z
  BY DEF PartsHeard
<1> HIDE DEF x, y, z
<1>6. x \o y \in Seq(PartSet) /\ (x \o y) \o z \in Seq(PartSet)
  BY <1>2, <1>3, <1>4
<1>7. \A kinds : /\ Whats(PartsHeard(a), kinds) = (Whats(x, kinds) \o Whats(y, kinds)) \o Whats(z, kinds)
                 /\ Kinds(PartsHeard(a), kinds) = (Kinds(x, kinds) \o Kinds(y, kinds)) \o Kinds(z, kinds)
                 /\ Calls(PartsHeard(a)) = (Calls(x) \o Calls(y)) \o Calls(z)
  <2> TAKE kinds
  <2> DEFINE xy == x \o y
  <2>1. Whats(xy, kinds) = Whats(x, kinds) \o Whats(y, kinds) /\ Kinds(xy, kinds) = Kinds(x, kinds) \o Kinds(y, kinds)
        /\ Calls(xy) = Calls(x) \o Calls(y)
    BY <1>2, <1>3, KindsJoined
  <2>2. xy \in Seq(PartSet)
    BY <1>6
  <2> HIDE DEF xy
  <2>3. Whats(xy \o z, kinds) = Whats(xy, kinds) \o Whats(z, kinds) /\ Kinds(xy \o z, kinds) = Kinds(xy, kinds) \o Kinds(z, kinds)
        /\ Calls(xy \o z) = Calls(xy) \o Calls(z)
    BY <1>4, <2>2, KindsJoined
  <2>4. PartsHeard(a) = xy \o z
    BY <1>5 DEF xy
  <2> QED
    BY <2>1, <2>3, <2>4, Zenon
<1>8. \A i \in 1 .. Len(PartsHeard(a)) : PartsHeard(a)[i].kind \in {"thinking", "text", "tool_use"}
  <2> DEFINE K == {p \in PartSet : p.kind \in {"thinking", "text", "tool_use"}}
  <2>1. x \in Seq(K)
    BY <1>2
  <2>2. y \in Seq(K)
    BY <1>3
  <2>3. z \in Seq(K)
    BY <1>4
  <2> HIDE DEF K
  <2>4. PartsHeard(a) \in Seq(K)
    BY <1>5, <2>1, <2>2, <2>3
  <2>5. \A i \in 1 .. Len(PartsHeard(a)) : PartsHeard(a)[i] \in K
    BY <2>4, SeqIs
  <2> QED
    BY <2>5 DEF K
<1>9. ASSUME NEW kinds
      PROVE  /\ "thinking" \notin kinds => Whats(x, kinds) = <<>> /\ Kinds(x, kinds) = <<>>
             /\ "text" \notin kinds => Whats(y, kinds) = <<>> /\ Kinds(y, kinds) = <<>>
             /\ "tool_use" \notin kinds => Whats(z, kinds) = <<>> /\ Kinds(z, kinds) = <<>>
             /\ "thinking" \in kinds => Whats(x, kinds) = a.reasoning
             /\ "text" \in kinds => Whats(y, kinds) = a.text
             /\ "tool_use" \in kinds => Kinds(z, kinds) = z
  <2>1. "thinking" \notin kinds => Whats(x, kinds) = <<>> /\ Kinds(x, kinds) = <<>>
    BY <1>2, KindsNone
  <2>2. "text" \notin kinds => Whats(y, kinds) = <<>> /\ Kinds(y, kinds) = <<>>
    BY <1>3, KindsNone
  <2>3. "tool_use" \notin kinds => Whats(z, kinds) = <<>> /\ Kinds(z, kinds) = <<>>
    BY <1>4, KindsNone
  <2>4. ASSUME "thinking" \in kinds PROVE Whats(x, kinds) = a.reasoning
    <3>1. Whats(x, kinds) = [i \in 1 .. Len(x) |-> x[i].what]
      BY <1>2, <2>4, WhatsAll
    <3>2. Whats(x, kinds) \in Seq(SaidSet)
      BY <1>2, WhatsIs
    <3> QED
      BY <1>1, <1>2, <3>1, <3>2
  <2>5. ASSUME "text" \in kinds PROVE Whats(y, kinds) = a.text
    <3>1. Whats(y, kinds) = [i \in 1 .. Len(y) |-> y[i].what]
      BY <1>3, <2>5, WhatsAll
    <3>2. Whats(y, kinds) \in Seq(SaidSet)
      BY <1>3, WhatsIs
    <3> QED
      BY <1>1, <1>3, <3>1, <3>2
  <2>6. "tool_use" \in kinds => Kinds(z, kinds) = z
    BY <1>4, KindsAll
  <2> QED
    BY <2>1, <2>2, <2>3, <2>4, <2>5, <2>6
<1>10. Calls(x) = <<>> /\ Calls(y) = <<>>
       /\ Calls(z) = [i \in 1 .. Len(a.calls) |-> Call(IdFor(a, i), a.calls[i].what)]
  <2>1. Calls(x) = <<>>
    BY <1>2, CallsNone
  <2>2. Calls(y) = <<>>
    BY <1>3, CallsNone
  <2>3. Calls(z) = [i \in 1 .. Len(z) |-> Call(z[i].id, z[i].what)]
    BY <1>4, CallsAll
  <2> QED
    BY <1>4, <2>1, <2>2, <2>3
<1>11. Whats(PartsHeard(a), {"thinking"}) = a.reasoning
  <2>0. "thinking" \in {"thinking"} /\ "text" \notin {"thinking"} /\ "tool_use" \notin {"thinking"}
    OBVIOUS
  <2>1. Whats(PartsHeard(a), {"thinking"}) = (a.reasoning \o <<>>) \o <<>>
    BY <1>7, <1>9, <2>0, Zenon
  <2> QED
    BY <1>1, <2>1
<1>12. Whats(PartsHeard(a), {"text"}) = a.text /\ Whats(PartsHeard(a), {"text", "tool_result"}) = a.text
  <2>1. \A kinds : "thinking" \notin kinds /\ "text" \in kinds /\ "tool_use" \notin kinds =>
                    Whats(PartsHeard(a), kinds) = (<<>> \o a.text) \o <<>>
    BY <1>7, <1>9, Zenon
  <2> QED
    BY <1>1, <2>1
<1>13. Kinds(PartsHeard(a), {"tool_use"}) = z
  <2>1. Kinds(PartsHeard(a), {"tool_use"}) = (<<>> \o <<>>) \o z
    BY <1>7, <1>9, Zenon
  <2> QED
    BY <1>4, <2>1
<1>14. Calls(PartsHeard(a)) = Calls(z)
  <2>1. Calls(PartsHeard(a)) = (<<>> \o <<>>) \o Calls(z)
    BY <1>7, <1>10, Zenon
  <2>2. Calls(z) \in Seq(CallSet)
    BY <1>4, CallsIs
  <2> QED
    BY <2>1, <2>2
<1> QED
  BY <1>5, <1>6, <1>8, <1>10, <1>11, <1>12, <1>13, <1>14, Zenon DEF z

-----------------------------------------------------------------------------
(* What is known of every state.                                           *)

KnownInv ==
    /\ client \in [protocol : Protocols, streams : BOOLEAN, prompted : BOOLEAN]
    /\ upstream \in [emulated : BOOLEAN, ids : BOOLEAN]
    /\ client.protocol = "openai" => upstream.ids
    /\ history \in Seq(EntrySet(client.protocol))
    /\ turn \in {"client", "upstream"}
    /\ turn = "upstream" => request = Sent(history)
    /\ answers \in Seq(AnswerSet)
    /\ \A i \in 1 .. Len(answers) : AnswerAt(i, answers[i], upstream.ids, ByWords)

\* What is sent depends on nothing that changes, but for the history.
LEMMA SentSame ==
    ASSUME UNCHANGED <<client, upstream>>
    PROVE  Sent(history') = Sent(history)' /\ ByWords' = ByWords
<1>1. client' = client /\ upstream' = upstream
  OBVIOUS
<1>2. ByWords' = ByWords
  BY <1>1, Zenon DEF ByWords, Raw
<1>3. Sent(history') = Sent(history)'
  BY <1>1, Zenon DEF Sent, Raw, Described, Parsed, Prompt
<1> QED
  BY <1>2, <1>3

OpenParts(r) ==
    [p \in PartSet |-> IF p.kind = "tool_use" /\ p.what[2] = r THEN <<p>> ELSE <<>>]

AllParts(protocol) == [e \in EntrySet(protocol) |-> e.parts]

OpenSet(r) == {p \in PartSet : p.kind = "tool_use" /\ p.what[2] = r}

OpenIn(protocol, entries, r) == Gather(OpenParts(r), Gather(AllParts(protocol), entries))

LEMMA OpenMaps ==
    ASSUME NEW protocol, NEW r
    PROVE  /\ Maps(OpenParts(r), PartSet, PartSet)
           /\ Maps(AllParts(protocol), EntrySet(protocol), PartSet)
           /\ \A p \in PartSet : OpenParts(r)[p] \in Seq(OpenSet(r))
<1>1. \A p \in PartSet : <<p>> \in Seq(PartSet) /\ <<>> \in Seq(PartSet)
  OBVIOUS
<1>2. Maps(OpenParts(r), PartSet, PartSet)
  BY <1>1 DEF Maps, OpenParts
<1>3. Maps(AllParts(protocol), EntrySet(protocol), PartSet)
  BY EntryIs DEF Maps, AllParts
<1>4. ASSUME NEW p \in PartSet PROVE OpenParts(r)[p] \in Seq(OpenSet(r))
  <2>1. CASE p.kind = "tool_use" /\ p.what[2] = r
    <3>1. p \in OpenSet(r)
      BY <2>1 DEF OpenSet
    <3>2. <<p>> \in Seq(OpenSet(r))
      BY <3>1
    <3> QED
      BY <2>1, <3>2 DEF OpenParts
  <2>2. CASE ~(p.kind = "tool_use" /\ p.what[2] = r)
    <3>1. <<>> \in Seq(OpenSet(r))
      BY NoneIs
    <3> QED
      BY <2>2, <3>1 DEF OpenParts
  <2> QED
    BY <2>1, <2>2
<1> QED
  BY <1>2, <1>3, <1>4

LEMMA OpenCallsIs ==
    ASSUME history \in Seq(EntrySet(client.protocol))
    PROVE  /\ OpenCalls = OpenIn(client.protocol, history, Round)
           /\ OpenCalls \in Seq(OpenSet(Round))
           /\ Gather(AllParts(client.protocol), history) \in Seq(PartSet)
<1> DEFINE E == EntrySet(client.protocol)
           F == AllParts(client.protocol)
           G == OpenParts(Round)
           g == Gather(F, history)
           a == Each(LAMBDA e : e.parts, history)
           all == All(LAMBDA e : e.parts, history)
           b == Each(LAMBDA p : IF p.kind = "tool_use" /\ p.what[2] = Round THEN <<p>> ELSE <<>>, all)
<1>1. Maps(F, E, PartSet) /\ Maps(G, PartSet, PartSet)
  BY OpenMaps
<1>2. g \in Seq(PartSet)
  BY <1>1, GatherTyped, Zenon
<1>3. a = Lots(F, history)
  <2>1. \A i \in DOMAIN history : F[history[i]] = history[i].parts
    BY SeqIs DEF AllParts
  <2> QED
    BY <2>1 DEF Each, Lots
<1>4. all = Flat(a, Len(history))
  BY DEF All, Each
<1> HIDE DEF a
<1>5. all = g
  BY <1>3, <1>4, Zenon DEF Gather
<1> HIDE DEF all, g
<1>6. b = Lots(G, all)
  <2>1. \A i \in DOMAIN all : all[i] \in PartSet
    BY <1>2, <1>5, SeqIs
  <2>2. \A i \in DOMAIN all : G[all[i]] = IF all[i].kind = "tool_use" /\ all[i].what[2] = Round
                                          THEN <<all[i]>> ELSE <<>>
    BY <2>1 DEF OpenParts
  <2> QED
    BY <2>2 DEF Each, Lots
<1>7. OpenCalls = Flat(b, Len(all))
  <2>1. OpenCalls = Only(LAMBDA p : p.kind = "tool_use" /\ p.what[2] = Round, all)
    BY DEF OpenCalls, all
  <2> QED
    BY <2>1 DEF Only, All, Each
<1> HIDE DEF b
<1>8. OpenCalls = Gather(G, g)
  BY <1>5, <1>6, <1>7, Zenon DEF Gather
<1>9. OpenCalls \in Seq(OpenSet(Round))
  <2>1. \A i \in 1 .. Len(g) : G[g[i]] \in Seq(OpenSet(Round))
    BY <1>2, SeqIs, OpenMaps
  <2> HIDE DEF G
  <2>2. Gather(G, g) \in Seq(OpenSet(Round))
    BY <1>1, <1>2, <2>1, GatherKind
  <2> QED
    BY <1>8, <2>2
<1> QED
  BY <1>2, <1>8, <1>9, Zenon DEF g, OpenIn

LEMMA ResultIs ==
    ASSUME NEW r \in Nat, NEW p \in OpenSet(r)
    PROVE  /\ Result(p) \in ResultSet
           /\ Result(p).id = p.id
           /\ Result(p).what = Atom("result", p.what[2], p.what[3])
<1>1. p.what \in SaidSet /\ p.id \in AtomSet
  BY PartIs DEF OpenSet
<1>2. p.what[2] \in Nat /\ p.what[3] \in Nat
  BY <1>1, Atomic
<1>3. "result" \in SaidKinds /\ "tool_result" \in PartKinds
  BY DEF SaidKinds, PartKinds
<1>4. Atom("result", p.what[2], p.what[3]) \in SaidSet
  BY <1>2, <1>3, Atomic
<1>5. Result(p) \in PartSet /\ Result(p).kind = "tool_result" /\ Result(p).id = p.id
      /\ Result(p).what = Atom("result", p.what[2], p.what[3])
  BY <1>1, <1>3, <1>4, PartMade DEF Result
<1>6. Atom("result", p.what[2], p.what[3])[1] = "result"
  BY DEF Atom
<1> QED
  BY <1>5, <1>6 DEF ResultSet

Results == Each(Result, OpenCalls)

LEMMA ResultsTyped ==
    ASSUME KnownInv
    PROVE  /\ Results \in Seq(ResultSet) /\ Len(Results) = Len(OpenCalls)
           /\ OpenCalls \in Seq(OpenSet(Round))
           /\ \A i \in 1 .. Len(OpenCalls) : Results[i] = Result(OpenCalls[i])
           /\ ResultSet \subseteq PartSet /\ Results \in Seq(PartSet)
<1> DEFINE s == OpenCalls
<1>1. s \in Seq(OpenSet(Round)) /\ Round \in Nat
  BY OpenCallsIs DEF KnownInv, Round
<1>2. Results = [i \in DOMAIN s |-> Result(s[i])]
  BY DEF Results, Each
<1> HIDE DEF s
<1>3. Len(s) \in Nat /\ DOMAIN s = 1 .. Len(s) /\ \A i \in 1 .. Len(s) : s[i] \in OpenSet(Round)
  BY <1>1, SeqIs
<1>4. \A i \in 1 .. Len(s) : Result(s[i]) \in ResultSet
  BY <1>1, <1>3, ResultIs
<1>5. Results \in Seq(ResultSet) /\ Len(Results) = Len(s) /\ \A i \in 1 .. Len(s) : Results[i] = Result(s[i])
  BY <1>2, <1>3, <1>4
<1>6. ResultSet \subseteq PartSet
  BY DEF ResultSet
<1>7. Results \in Seq(PartSet)
  BY <1>5, <1>6, SeqLarger
<1> QED
  BY <1>1, <1>5, <1>6, <1>7 DEF s

-----------------------------------------------------------------------------
(* What the steps add to the history.                                      *)

LEMMA EntryMade ==
    ASSUME NEW role \in Roles, NEW parts \in Seq(PartSet)
    PROVE  Entry(role, parts) \in RawSet /\ Entry(role, parts).role = role /\ Entry(role, parts).parts = parts
BY DEF Entry, RawSet

LEMMA RolesAre ==
    /\ "system" \in Roles /\ "user" \in Roles /\ "assistant" \in Roles /\ "tool" \in Roles /\ "" \in Roles
BY DEF Roles

LEMMA TextPartIs ==
    ASSUME NEW r \in Nat
    PROVE  /\ TextPart(r) \in PartSet /\ TextPart(r).kind = "text" /\ TextPart(r).what[1] = "text"
           /\ TextPart(r).what = Atom("text", r, 0)
           /\ Part("text", Atom("system", r, 0), NoId) \in PartSet
           /\ Part("text", Atom("system", r, 0), NoId).kind = "text"
<1>1. "text" \in SaidKinds /\ "system" \in SaidKinds /\ "text" \in PartKinds /\ 0 \in Nat
  BY DEF SaidKinds, PartKinds
<1>2. Atom("text", r, 0) \in SaidSet /\ Atom("system", r, 0) \in SaidSet /\ NoId \in AtomSet
  BY <1>1, Atomic
<1>3. Atom("text", r, 0)[1] = "text"
  BY DEF Atom
<1> QED
  BY <1>1, <1>2, <1>3, PartMade DEF TextPart

LEMMA ImagePartIs ==
    ASSUME NEW r \in Nat, NEW kind \in {"image", "link"}, NEW i \in Nat
    PROVE  /\ ImagePart(kind, r, i) \in PartSet /\ ImagePart(kind, r, i).kind = kind
           /\ ImagePart(kind, r, i).what = Atom("image", r, i)
           /\ ImagePart(kind, r, i).what[1] = "image"
<1>1. "image" \in SaidKinds /\ kind \in PartKinds
  BY DEF SaidKinds, PartKinds
<1>2. Atom("image", r, i) \in SaidSet /\ NoId \in AtomSet
  BY <1>1, Atomic
<1>3. Atom("image", r, i)[1] = "image"
  BY DEF Atom
<1> QED
  BY <1>1, <1>2, <1>3, PartMade DEF ImagePart

LEMMA AskPartsTyped ==
    ASSUME NEW r \in Nat, NEW parts \in AskParts(r)
    PROVE  /\ parts \in Seq(PartSet)
           /\ \A i \in 1 .. Len(parts) : parts[i].kind \in {"text", "image", "link"}
<1> DEFINE t == TextPart(r)
           x == ImagePart("image", r, 0)
           y == ImagePart("link", r, 1)
           z == ImagePart("image", r, 1)
           K == {p \in PartSet : p.kind \in {"text", "image", "link"}}
<1>1. t \in K /\ x \in K /\ y \in K /\ z \in K
  BY TextPartIs, ImagePartIs
<1>2. parts \in {<<t>>, <<x>>, <<x, t, y>>, <<x, z>>}
  BY DEF AskParts
<1> HIDE DEF t, x, y, z, K
<1>3. parts \in Seq(K)
  <2>1. <<t>> \in Seq(K) /\ <<x>> \in Seq(K)
    BY <1>1
  <2>2. <<x, t, y>> \in Seq(K)
    BY <1>1
  <2>3. <<x, z>> \in Seq(K)
    BY <1>1
  <2> QED
    BY <1>2, <2>1, <2>2, <2>3, Zenon
<1>4. K \subseteq PartSet /\ \A p \in K : p.kind \in {"text", "image", "link"}
  BY DEF K
<1>5. parts \in Seq(PartSet)
  BY <1>3, <1>4, SeqLarger
<1> QED
  BY <1>3, <1>4, <1>5, SeqIs

\* What is asked, and what is put in.
AskedSet == {e \in RawSet : SystemShape(e) \/ AskShape(e)}

LEMMA AskedTyped ==
    ASSUME NEW protocol
    PROVE  AskedSet \subseteq EntrySet(protocol)
BY DEF AskedSet, EntrySet, RawSet

LEMMA SystemEntryIs ==
    ASSUME KnownInv
    PROVE  SystemEntry \in AskedSet /\ SystemShape(SystemEntry)
<1>1. Round \in Nat
  BY DEF KnownInv, Round
<1> DEFINE p == Part("text", Atom("system", Round, 0), NoId)
<1>2. p \in PartSet
  BY <1>1, TextPartIs
<1>3. <<p>> \in Seq(PartSet)
  BY <1>2, OneIs
<1> HIDE DEF p
<1>4. Entry("system", <<p>>) \in RawSet /\ Entry("system", <<p>>).role = "system"
      /\ Entry("system", <<p>>).parts = <<p>>
  BY <1>3, EntryMade, RolesAre
<1>5. SystemEntry = Entry("system", <<p>>)
  BY DEF SystemEntry, p
<1>6. SystemShape(SystemEntry)
  BY <1>1, <1>4, <1>5 DEF SystemShape, p
<1> QED
  BY <1>4, <1>5, <1>6 DEF AskedSet

LEMMA AskIs ==
    ASSUME KnownInv, Ask
    PROVE  /\ turn = "client" /\ OpenCalls = <<>>
           /\ \E entries \in Seq(AskedSet) : Send(entries)
<1>1. turn = "client" /\ OpenCalls = <<>>
  BY DEF Ask
<1>2. Round \in Nat
  BY DEF KnownInv, Round
<1>3. PICK parts \in AskParts(Round), system \in {<<>>, <<SystemEntry>>} :
          Send(system \o <<Entry("user", parts)>>)
  BY Zenon DEF Ask, AskParts, UserText, UserImage, TextPart, ImagePart
<1> DEFINE e == Entry("user", parts)
<1>4. e \in AskedSet
  <2>1. parts \in Seq(PartSet)
    BY <1>2, AskPartsTyped
  <2>2. e \in RawSet /\ e.role = "user" /\ e.parts = parts
    BY <2>1, EntryMade, RolesAre
  <2> HIDE DEF e
  <2>3. AskShape(e)
    BY <1>2, <2>2 DEF AskShape
  <2> QED
    BY <2>2, <2>3 DEF AskedSet
<1> HIDE DEF e
<1>5. system \o <<e>> \in Seq(AskedSet)
  <2>1. <<SystemEntry>> \in Seq(AskedSet) /\ <<>> \in Seq(AskedSet) /\ <<e>> \in Seq(AskedSet)
    BY <1>4, SystemEntryIs, OneIs, NoneIs
  <2>2. system \in Seq(AskedSet)
    BY <2>1
  <2> HIDE DEF e
  <2> QED
    BY <2>1, <2>2
<1>6. Send(system \o <<e>>)
  BY <1>3, Zenon DEF e
<1> QED
  BY <1>1, <1>5, <1>6, Zenon

ToolEntry(p) == Entry("tool", <<p>>)

NoRoleEntry(p) == Entry("", <<p>>)

ToolEntries == Each(ToolEntry, Results)

NoRoleEntries == Each(NoRoleEntry, Results)

\* Results with or without text.
ResultParts == {Results, <<TextPart(Round)>> \o Results}

LEMMA ToolEntriesAre ==
    ASSUME KnownInv
    PROVE  /\ client.protocol = "openai" => ToolEntries \in Seq(EntrySet(client.protocol))
           /\ client.protocol = "responses" => NoRoleEntries \in Seq(EntrySet(client.protocol))
           /\ Len(ToolEntries) = Len(OpenCalls) /\ Len(NoRoleEntries) = Len(OpenCalls)
           /\ \A i \in 1 .. Len(OpenCalls) :
                 /\ ToolEntries[i] = ToolEntry(Results[i])
                 /\ ToolEntry(Results[i]).role = "tool"
                 /\ ToolEntry(Results[i]).parts = <<Results[i]>>
                 /\ NoRoleEntries[i] = NoRoleEntry(Results[i])
                 /\ NoRoleEntry(Results[i]).role = ""
<1> DEFINE s == Results
           n == Len(OpenCalls)
<1>1. s \in Seq(ResultSet) /\ Len(s) = n /\ ResultSet \subseteq PartSet
  BY ResultsTyped
<1>2. ToolEntries = [i \in DOMAIN s |-> ToolEntry(s[i])] /\ NoRoleEntries = [i \in DOMAIN s |-> NoRoleEntry(s[i])]
  BY DEF ToolEntries, NoRoleEntries, Each
<1> HIDE DEF s, n
<1>3. n \in Nat /\ DOMAIN s = 1 .. n /\ \A i \in 1 .. n : s[i] \in ResultSet
  BY <1>1, SeqIs
<1>4. \A p \in ResultSet : /\ ToolEntry(p) \in RawSet /\ NoRoleEntry(p) \in RawSet
                           /\ ToolEntry(p).role = "tool" /\ ToolEntry(p).parts = <<p>>
                           /\ NoRoleEntry(p).role = ""
  <2> TAKE p \in ResultSet
  <2>1. <<p>> \in Seq(PartSet)
    BY <1>1, OneIs
  <2> QED
    BY <2>1, EntryMade, RolesAre, Zenon DEF ToolEntry, NoRoleEntry
<1>5. /\ Len(ToolEntries) = n /\ Len(NoRoleEntries) = n
      /\ \A i \in 1 .. n : /\ ToolEntries[i] = ToolEntry(s[i])
                           /\ NoRoleEntries[i] = NoRoleEntry(s[i])
  BY <1>2, <1>3
<1>6. ASSUME client.protocol = "openai" PROVE ToolEntries \in Seq(EntrySet(client.protocol))
  <2>1. \A p \in ResultSet : ToolEntry(p) \in EntrySet(client.protocol)
    <3> TAKE p \in ResultSet
    <3>1. ToolShape(ToolEntry(p))
      BY <1>4 DEF ToolShape
    <3> QED
      BY <1>4, <1>6, <3>1 DEF EntrySet, RawSet
  <2> QED
    BY <1>2, <1>3, <2>1
<1>7. ASSUME client.protocol = "responses" PROVE NoRoleEntries \in Seq(EntrySet(client.protocol))
  <2>1. \A p \in ResultSet : NoRoleEntry(p) \in EntrySet(client.protocol)
    <3> TAKE p \in ResultSet
    <3>1. ItemShape(NoRoleEntry(p))
      BY <1>4 DEF ItemShape
    <3> QED
      BY <1>4, <1>7, <3>1 DEF EntrySet, RawSet
  <2> QED
    BY <1>2, <1>3, <2>1
<1>8. \A i \in 1 .. n : /\ ToolEntry(s[i]).role = "tool" /\ ToolEntry(s[i]).parts = <<s[i]>>
                        /\ NoRoleEntry(s[i]).role = ""
  BY <1>3, <1>4
<1> QED
  BY <1>5, <1>6, <1>7, <1>8 DEF s, n

LEMMA ResultsShapeIs ==
    ASSUME KnownInv, NEW parts \in ResultParts
    PROVE  /\ Entry("user", parts) \in RawSet
           /\ Entry("user", parts).role = "user" /\ Entry("user", parts).parts = parts
           /\ ResultsShape(Entry("user", parts))
<1> DEFINE t == TextPart(Round)
           s == Results
           e == Entry("user", parts)
<1>1. s \in Seq(ResultSet) /\ s \in Seq(PartSet)
  BY ResultsTyped
<1>2. Round \in Nat
  BY DEF KnownInv, Round
<1>3. t \in PartSet
  BY <1>2, TextPartIs
<1>4. parts = s \/ parts = <<t>> \o s
  BY DEF ResultParts
<1> HIDE DEF s, t
<1>5. parts \in Seq(PartSet)
  <2>1. <<t>> \in Seq(PartSet)
    BY <1>3
  <2>2. <<t>> \o s \in Seq(PartSet)
    BY <1>1, <2>1
  <2> QED
    BY <1>1, <1>4, <2>2
<1>6. e \in RawSet /\ e.role = "user" /\ e.parts = parts
  BY <1>5, EntryMade, RolesAre
<1> HIDE DEF e
<1>7. ResultsShape(e)
  BY <1>1, <1>2, <1>4, <1>6 DEF ResultsShape, t
<1> QED
  BY <1>6, <1>7 DEF e

LEMMA AnswerCallsIs ==
    ASSUME KnownInv, AnswerCalls
    PROVE  /\ turn = "client" /\ OpenCalls # <<>>
           /\ client.protocol = "openai" => Send(ToolEntries)
           /\ client.protocol = "responses" => Send(NoRoleEntries)
           /\ client.protocol = "anthropic" =>
                \E parts \in ResultParts, system \in {<<>>, <<SystemEntry>>} :
                    Send(system \o <<Entry("user", parts)>>)
<1>1. turn = "client" /\ OpenCalls # <<>>
  BY DEF AnswerCalls
<1>2. ASSUME client.protocol = "openai" PROVE Send(ToolEntries)
  <2>1. Send(Each(LAMBDA p : Entry("tool", <<p>>), Each(Result, OpenCalls)))
    BY <1>2, Zenon DEF AnswerCalls
  <2> QED
    BY <2>1, Zenon DEF ToolEntries, ToolEntry, Results, Each
<1>3. ASSUME client.protocol = "responses" PROVE Send(NoRoleEntries)
  <2>1. Send(Each(LAMBDA p : Entry("", <<p>>), Each(Result, OpenCalls)))
    BY <1>3, Zenon DEF AnswerCalls
  <2> QED
    BY <2>1, Zenon DEF NoRoleEntries, NoRoleEntry, Results, Each
<1>4. ASSUME client.protocol = "anthropic"
      PROVE  \E parts \in ResultParts, system \in {<<>>, <<SystemEntry>>} :
                Send(system \o <<Entry("user", parts)>>)
  <2>1. PICK text \in {<<>>, <<UserText(0)>>}, system \in {<<>>, <<SystemEntry>>} :
            Send(system \o <<Entry("user", text \o Results)>>)
    BY <1>4, Zenon DEF AnswerCalls, Results
  <2>2. text \o Results \in ResultParts
    <3>1. Results \in Seq(ResultSet)
      BY ResultsTyped
    <3>2. <<>> \o Results = Results
      BY <3>1
    <3>3. UserText(0) = TextPart(Round)
      BY DEF UserText, TextPart
    <3> QED
      BY <3>2, <3>3 DEF ResultParts
  <2> QED
    BY <2>1, <2>2, Zenon
<1> QED
  BY <1>1, <1>2, <1>3, <1>4

LEMMA ReceivedTyped ==
    ASSUME client.protocol \in Protocols, NEW a \in AnswerSet
    PROVE  /\ Received(a) \in Seq(EntrySet(client.protocol))
           /\ client.protocol # "responses" =>
                \E e \in EntrySet(client.protocol) :
                    /\ Received(a) = <<e>>
                    /\ e.role = "assistant" /\ e.parts = PartsHeard(Heard(a)) /\ AnswerShape(e)
<1> DEFINE s == PartsHeard(Heard(a))
<1>1. s \in Seq(PartSet) /\ \A i \in 1 .. Len(s) : s[i].kind \in {"thinking", "text", "tool_use"}
  BY HeardTyped, PartsHeardIs
<1>2. Received(a) = IF client.protocol # "responses" THEN <<Entry("assistant", s)>> ELSE Each(ItemOf, s)
  BY ReceivedIs
<1> HIDE DEF s
<1>3. ASSUME client.protocol # "responses"
      PROVE  \E e \in EntrySet(client.protocol) :
                Received(a) = <<e>> /\ e.role = "assistant" /\ e.parts = s /\ AnswerShape(e)
  <2> DEFINE e == Entry("assistant", s)
  <2>1. e \in RawSet /\ e.role = "assistant" /\ e.parts = s
    BY <1>1, EntryMade, RolesAre
  <2>2. Received(a) = <<e>>
    BY <1>2, <1>3
  <2> HIDE DEF e
  <2>3. AnswerShape(e)
    BY <1>1, <2>1 DEF AnswerShape
  <2>4. e \in EntrySet(client.protocol)
    BY <1>3, <2>1, <2>3 DEF EntrySet, RawSet
  <2> QED
    BY <2>1, <2>2, <2>3, <2>4
<1>4. ASSUME client.protocol = "responses" PROVE Received(a) \in Seq(EntrySet(client.protocol))
  <2>1. \A p \in PartSet : ItemOf(p) \in EntrySet(client.protocol)
    <3> TAKE p \in PartSet
    <3> DEFINE role == IF p.kind = "text" THEN "assistant" ELSE ""
    <3>1. role \in Roles /\ <<p>> \in Seq(PartSet) /\ (role = "" \/ role = "assistant")
      BY RolesAre, OneIs
    <3>2. ItemOf(p) = Entry(role, <<p>>)
      BY DEF ItemOf
    <3> HIDE DEF role
    <3>3. ItemOf(p) \in RawSet /\ ItemOf(p).role = role
      <4>1. role \in Roles /\ <<p>> \in Seq(PartSet)
        BY <3>1
      <4>2. Entry(role, <<p>>) \in RawSet /\ Entry(role, <<p>>).role = role
        BY <4>1, EntryMade
      <4> QED
        BY <3>2, <4>2, Zenon
    <3>4. ItemShape(ItemOf(p))
      BY <3>1, <3>3, Zenon DEF ItemShape
    <3> QED
      BY <1>4, <3>3, <3>4 DEF EntrySet, RawSet
  <2>2. Received(a) = [i \in DOMAIN s |-> ItemOf(s[i])]
    BY <1>2, <1>4 DEF Each
  <2>3. Len(s) \in Nat /\ DOMAIN s = 1 .. Len(s) /\ \A i \in 1 .. Len(s) : s[i] \in PartSet
    BY <1>1, SeqIs
  <2> QED
    BY <2>1, <2>2, <2>3
<1>5. client.protocol # "responses" => Received(a) \in Seq(EntrySet(client.protocol))
  BY <1>3, OneIs
<1> QED
  BY <1>3, <1>4, <1>5 DEF s

LEMMA AnswerStepIs ==
    ASSUME KnownInv, Answer
    PROVE  /\ turn = "upstream" /\ turn' = "client" /\ UNCHANGED <<client, upstream, request>>
           /\ \E a \in AnswerSet :
                /\ AnswerAt(Round + 1, a, upstream.ids, ByWords)
                /\ answers' = Append(answers, a)
                /\ history' = history \o Received(a)
<1>1. PICK reasons \in BOOLEAN, kind \in TextKind, n \in 0 .. MaxCalls :
          /\ ~request.tools => n = 0
          /\ kind = "call" => ~request.tools
          /\ answers' = Append(answers, AnswerOf(reasons, kind, n, Round + 1, upstream.ids))
          /\ history' = history \o Received(AnswerOf(reasons, kind, n, Round + 1, upstream.ids))
  BY Zenon DEF Answer, AnswerOf, TextKind
<1> DEFINE a == AnswerOf(reasons, kind, n, Round + 1, upstream.ids)
<1>2. n \in Nat /\ Round + 1 \in Nat
  BY ConversationAssumption DEF KnownInv, Round
<1>3. a \in AnswerSet
  BY <1>2, AnswerTyped
<1>4. request.tools = ~ByWords
  BY SentIs DEF KnownInv, Answer
<1>5. AnswerAt(Round + 1, a, upstream.ids, ByWords)
  BY <1>1, <1>2, <1>4 DEF AnswerAt
<1>6. turn = "upstream" /\ turn' = "client" /\ UNCHANGED <<client, upstream, request>>
  BY DEF Answer
<1> HIDE DEF a
<1> QED
  BY <1>1, <1>3, <1>5, <1>6, Zenon DEF a

LEMMA KnownInit ==
    ASSUME Init
    PROVE  KnownInv
<1>1. /\ client \in [protocol : Protocols, streams : BOOLEAN, prompted : BOOLEAN]
      /\ upstream \in [emulated : BOOLEAN, ids : BOOLEAN]
      /\ client.protocol = "openai" => upstream.ids
      /\ history = <<>> /\ answers = <<>> /\ turn = "client"
  BY DEF Init, Protocols
<1>2. <<>> \in Seq(EntrySet(client.protocol)) /\ <<>> \in Seq(AnswerSet) /\ Len(<<>>) = 0
  BY NoneIs
<1> QED
  BY <1>1, <1>2 DEF KnownInv

\* Every step that sends adds entries that can be there.
LEMMA SendsEntries ==
    ASSUME KnownInv, Ask \/ AnswerCalls
    PROVE  \E entries \in Seq(EntrySet(client.protocol)) : Send(entries)
<1> DEFINE E == EntrySet(client.protocol)
<1>0. client.protocol \in Protocols
  BY DEF KnownInv
<1>1. CASE Ask
  <2>1. PICK entries \in Seq(AskedSet) : Send(entries)
    BY <1>1, AskIs
  <2>2. entries \in Seq(E)
    BY AskedTyped, SeqLarger
  <2> QED
    BY <2>1, <2>2
<1>2. CASE AnswerCalls
  <2>1. CASE client.protocol = "openai"
    BY <1>2, <2>1, AnswerCallsIs, ToolEntriesAre
  <2>2. CASE client.protocol = "responses"
    BY <1>2, <2>2, AnswerCallsIs, ToolEntriesAre
  <2>3. CASE client.protocol = "anthropic"
    <3>1. PICK parts \in ResultParts, system \in {<<>>, <<SystemEntry>>} :
              Send(system \o <<Entry("user", parts)>>)
      BY <1>2, <2>3, AnswerCallsIs
    <3> DEFINE e == Entry("user", parts)
    <3>2. e \in E
      BY <2>3, ResultsShapeIs DEF EntrySet, RawSet
    <3>3. SystemEntry \in E
      BY SystemEntryIs, AskedTyped
    <3>4. system \in Seq(E)
      BY <3>3, OneIs, NoneIs
    <3> HIDE DEF e, E
    <3>5. <<e>> \in Seq(E)
      BY <3>2
    <3>6. system \o <<e>> \in Seq(E)
      BY <3>4, <3>5
    <3> QED
      BY <3>1, <3>6, Zenon DEF e, E
  <2> QED
    BY <1>0, <2>1, <2>2, <2>3 DEF Protocols
<1> QED
  BY <1>1, <1>2

LEMMA KnownStep ==
    ASSUME KnownInv, [Next]_vars
    PROVE  KnownInv'
<1>0. /\ client \in [protocol : Protocols, streams : BOOLEAN, prompted : BOOLEAN]
      /\ upstream \in [emulated : BOOLEAN, ids : BOOLEAN]
      /\ client.protocol = "openai" => upstream.ids
      /\ history \in Seq(EntrySet(client.protocol))
      /\ turn \in {"client", "upstream"}
      /\ turn = "upstream" => request = Sent(history)
      /\ answers \in Seq(AnswerSet)
      /\ \A i \in 1 .. Len(answers) : AnswerAt(i, answers[i], upstream.ids, ByWords)
  BY DEF KnownInv
<1>1. CASE Ask \/ AnswerCalls
  <2>1. PICK entries \in Seq(EntrySet(client.protocol)) : Send(entries)
    BY <1>1, SendsEntries
  <2>2. /\ history' = history \o entries /\ request' = Sent(history') /\ turn' = "upstream"
        /\ UNCHANGED <<client, upstream, answers>>
    BY <2>1 DEF Send
  <2>3. history \o entries \in Seq(EntrySet(client.protocol))
    <3> DEFINE E == EntrySet(client.protocol)
    <3>1. history \in Seq(E) /\ entries \in Seq(E)
      BY <1>0
    <3> HIDE DEF E
    <3>2. history \o entries \in Seq(E)
      BY <3>1
    <3> QED
      BY <3>2 DEF E
  <2>4. Sent(history)' = Sent(history') /\ ByWords' = ByWords
    BY <2>2, SentSame
  <2>5. client' = client /\ upstream' = upstream /\ answers' = answers /\ history' \in Seq(EntrySet(client.protocol))
        /\ request' = Sent(history)' /\ ByWords' = ByWords /\ turn' \in {"client", "upstream"}
    BY <2>2, <2>3, <2>4
  <2> QED
    BY <1>0, <2>5, Zenon DEF KnownInv
<1>2. CASE Answer
  <2>1. turn' = "client" /\ UNCHANGED <<client, upstream, request>>
    BY <1>2, AnswerStepIs
  <2>2. PICK a \in AnswerSet : /\ AnswerAt(Round + 1, a, upstream.ids, ByWords)
                               /\ answers' = Append(answers, a)
                               /\ history' = history \o Received(a)
    BY <1>2, AnswerStepIs
  <2>3. Received(a) \in Seq(EntrySet(client.protocol))
    BY <1>0, ReceivedTyped
  <2>4. history \o Received(a) \in Seq(EntrySet(client.protocol))
    <3> DEFINE E == EntrySet(client.protocol)
               b == Received(a)
    <3>1. history \in Seq(E) /\ b \in Seq(E)
      BY <1>0, <2>3
    <3> HIDE DEF E, b
    <3>2. history \o b \in Seq(E)
      BY <3>1
    <3> QED
      BY <3>2 DEF E, b
  <2>5. /\ answers' \in Seq(AnswerSet)
        /\ \A i \in 1 .. Len(answers') : AnswerAt(i, answers'[i], upstream.ids, ByWords)
    <3> DEFINE b == Append(answers, a)
               n == Len(answers)
    <3>1. b \in Seq(AnswerSet) /\ Len(b) = n + 1 /\ n \in Nat /\ b[n + 1] = a
          /\ \A i \in 1 .. n : b[i] = answers[i]
      BY <1>0, AppendIs
    <3>2. AnswerAt(n + 1, a, upstream.ids, ByWords) /\ \A i \in 1 .. n : AnswerAt(i, answers[i], upstream.ids, ByWords)
      BY <1>0, <2>2 DEF Round
    <3> HIDE DEF b, n
    <3>3. \A i \in 1 .. Len(b) : AnswerAt(i, b[i], upstream.ids, ByWords)
      <4> TAKE i \in 1 .. Len(b)
      <4>1. i = n + 1 \/ i \in 1 .. n
        BY <3>1
      <4> QED
        BY <3>1, <3>2, <4>1
    <3> QED
      BY <2>2, <3>1, <3>3 DEF b
  <2>6. client' = client /\ upstream' = upstream /\ history' \in Seq(EntrySet(client.protocol))
        /\ turn' = "client" /\ turn' # "upstream" /\ turn' \in {"client", "upstream"}
        /\ ByWords' = ByWords
    BY <2>1, <2>2, <2>4, SentSame
  <2> QED
    BY <1>0, <2>5, <2>6, Zenon DEF KnownInv
<1>3. CASE UNCHANGED vars
  <2>1. client' = client /\ upstream' = upstream /\ history' = history /\ request' = request
        /\ answers' = answers /\ turn' = turn
    BY <1>3 DEF vars
  <2>2. Sent(history)' = Sent(history) /\ ByWords' = ByWords
    BY <2>1, SentSame
  <2> QED
    BY <1>0, <2>1, <2>2, Zenon DEF KnownInv
<1> QED
  BY <1>1, <1>2, <1>3 DEF Next

-----------------------------------------------------------------------------
(* The tools are told once, and the prompt comes first.                    *)

\* The elements up to n give one each, and the others nothing.
LEMMA GatherFirst ==
    ASSUME NEW S, NEW T, NEW G, Maps(G, S, T), NEW s \in Seq(S), NEW n \in 0 .. Len(s),
           \A i \in 1 .. Len(s) : IF i <= n THEN Len(G[s[i]]) = 1 ELSE G[s[i]] = <<>>
    PROVE  Len(Gather(G, s)) = n
<1> DEFINE First(x, k) == \A i \in 1 .. Len(x) : IF i <= k THEN Len(G[x[i]]) = 1 ELSE G[x[i]] = <<>>
           P == {x \in Seq(S) : \A k \in 0 .. Len(x) : First(x, k) => Len(Gather(G, x)) = k}
<1>1. <<>> \in P
  <2>1. Len(<<>>) = 0 /\ Gather(G, <<>>) = <<>> /\ <<>> \in Seq(S)
    BY GatherNone
  <2> QED
    BY <2>1
<1>2. ASSUME NEW x \in Seq(S), NEW e \in S, x \in P PROVE Append(x, e) \in P
  <2> DEFINE y == Append(x, e)
             m == Len(x)
  <2>0. y \in Seq(S)
    OBVIOUS
  <2> SUFFICES ASSUME NEW k \in 0 .. Len(y), First(y, k) PROVE Len(Gather(G, y)) = k
    BY <2>0
  <2>1. Len(y) = m + 1 /\ m \in Nat /\ y[m + 1] = e /\ \A i \in 1 .. m : y[i] = x[i]
    OBVIOUS
  <2>2. G[e] \in Seq(T)
    BY DEF Maps
  <2>3. Gather(G, x) \in Seq(T)
    <3> HIDE DEF P
    <3> QED
      BY GatherTyped
  <2>4. Gather(G, y) = Gather(G, x) \o G[e]
    <3> HIDE DEF P
    <3> QED
      BY GatherAppend
  <2> DEFINE a == Gather(G, x)
             b == G[e]
  <2>5. Len(Gather(G, y)) = Len(a) + Len(b)
    <3>1. a \in Seq(T) /\ b \in Seq(T) /\ Gather(G, y) = a \o b
      BY <2>2, <2>3, <2>4
    <3> HIDE DEF a, b, P, y
    <3>2. Len(a \o b) = Len(a) + Len(b)
      BY <3>1
    <3> QED
      BY <3>1, <3>2
  <2>6. /\ \A i \in 1 .. m : IF i <= k THEN Len(G[x[i]]) = 1 ELSE G[x[i]] = <<>>
        /\ IF m + 1 <= k THEN Len(b) = 1 ELSE b = <<>>
    <3> HIDE DEF y, P
    <3>1. m + 1 \in 1 .. Len(y) /\ \A i \in 1 .. m : i \in 1 .. Len(y)
      BY <2>1
    <3> QED
      BY <2>1, <3>1
  <2>7. \A j \in 0 .. m : First(x, j) => Len(a) = j
    <3> HIDE DEF First
    <3> QED
      BY <1>2, Zenon
  <2> HIDE DEF P, y, a, b
  <2>8. CASE k = m + 1
    <3>1. First(x, m)
      BY <2>1, <2>6, <2>8
    <3>2. Len(a) = m /\ Len(b) = 1
      BY <2>1, <2>6, <2>7, <2>8, <3>1
    <3> QED
      BY <2>1, <2>5, <2>8, <3>2
  <2>9. CASE k \in 0 .. m
    <3>1. First(x, k)
      BY <2>6
    <3>2. b = <<>>
      BY <2>1, <2>6, <2>9
    <3>3. Len(a) = k /\ Len(b) = 0
      BY <2>7, <2>9, <3>1, <3>2
    <3> QED
      BY <2>5, <2>9, <3>3
  <2>10. k = m + 1 \/ k \in 0 .. m
    BY <2>1
  <2> QED
    BY <2>8, <2>9, <2>10
<1> HIDE DEF P
<1>3. Seq(S) \subseteq P
  BY <1>1, <1>2, InductionOnSeq
<1> QED
  BY <1>3 DEF P

KindOf(kind) == [w \in AtomSet |-> IF w[1] = kind THEN <<w>> ELSE <<>>]

LEMMA OfKindIs ==
    ASSUME NEW kind, NEW s \in Seq(AtomSet)
    PROVE  /\ Maps(KindOf(kind), AtomSet, AtomSet)
           /\ OfKind(kind, s) = Gather(KindOf(kind), s)
           /\ OfKind(kind, s) \in Seq(AtomSet)
<1> DEFINE a == Each(LAMBDA w : IF w[1] = kind THEN <<w>> ELSE <<>>, s)
<1>1. \A i \in DOMAIN s : s[i] \in AtomSet
  BY SeqIs
<1>2. a = Lots(KindOf(kind), s)
  <2>1. \A i \in DOMAIN s : KindOf(kind)[s[i]] = IF s[i][1] = kind THEN <<s[i]>> ELSE <<>>
    BY <1>1 DEF KindOf
  <2> QED
    BY <2>1 DEF Each, Lots
<1>3. OfKind(kind, s) = Flat(a, Len(s))
  BY DEF OfKind, Only, All, Each
<1> HIDE DEF a
<1>4. Maps(KindOf(kind), AtomSet, AtomSet)
  <2>1. \A w \in AtomSet : <<w>> \in Seq(AtomSet) /\ <<>> \in Seq(AtomSet)
    BY OneIs, NoneIs
  <2> QED
    BY <2>1 DEF Maps, KindOf
<1>5. Gather(KindOf(kind), s) \in Seq(AtomSet)
  BY <1>4, GatherTyped, Zenon
<1> QED
  BY <1>2, <1>3, <1>4, <1>5, Zenon DEF Gather

LEMMA OfKindNone ==
    ASSUME NEW kind, NEW s \in Seq(AtomSet), \A i \in 1 .. Len(s) : s[i][1] # kind
    PROVE  OfKind(kind, s) = <<>>
<1>1. \A i \in 1 .. Len(s) : KindOf(kind)[s[i]] = <<>>
  BY SeqIs DEF KindOf
<1>2. Maps(KindOf(kind), AtomSet, AtomSet) /\ OfKind(kind, s) = Gather(KindOf(kind), s)
  BY OfKindIs
<1>3. Gather(KindOf(kind), s) = <<>>
  BY <1>1, <1>2, GatherEmpty
<1> QED
  BY <1>2, <1>3

LEMMA OfKindAppend ==
    ASSUME NEW kind, NEW s \in Seq(AtomSet), NEW w \in AtomSet, OfKind(kind, s) = <<>>, w[1] = kind
    PROVE  OfKind(kind, Append(s, w)) = <<w>>
<1>1. Append(s, w) \in Seq(AtomSet)
  OBVIOUS
<1>2. Maps(KindOf(kind), AtomSet, AtomSet) /\ OfKind(kind, s) = Gather(KindOf(kind), s)
  BY OfKindIs
<1> DEFINE t == Append(s, w)
<1>3. Gather(KindOf(kind), t) = Gather(KindOf(kind), s) \o KindOf(kind)[w]
  <2> DEFINE G == KindOf(kind)
  <2>1. Maps(G, AtomSet, AtomSet)
    BY <1>2
  <2> HIDE DEF G
  <2>2. Gather(G, Append(s, w)) = Gather(G, s) \o G[w]
    BY <2>1, GatherAppend
  <2> QED
    BY <2>2, Zenon DEF G
<1> HIDE DEF t
<1>4. OfKind(kind, t) = Gather(KindOf(kind), t)
  BY <1>1, OfKindIs DEF t
<1>5. KindOf(kind)[w] = <<w>>
  BY DEF KindOf
<1>6. <<>> \o <<w>> = <<w>>
  OBVIOUS
<1> QED
  BY <1>2, <1>3, <1>4, <1>5, <1>6, Zenon DEF t

\* What a message, once built, tells of the tools.
Tells(m) == OfKind("tools", Ready(m).text)

LEMMA TellsNothing ==
    ASSUME NEW m \in InSet(TextSet)
    PROVE  Tells(m) = <<>>
<1>1. m \in InSet(AtomSet)
  BY InLarger
<1>2. ASSUME Alone(m) PROVE Tells(m) = <<>>
  <2> DEFINE u == Urls(m)
  <2>1. u \in Seq(AtomSet) /\ Len(u) = Len(m.images)
        /\ \A i \in 1 .. Len(m.images) : m.images[i] \in PartSet /\ u[i] = ImageOut(m.images[i])
    BY UrlsTyped
  <2> HIDE DEF u
  <2>2. \A p \in PartSet : ImageOut(p)[1] # "tools"
    <3> TAKE p \in PartSet
    <3>1. p.what \in TextSet
      BY PartIs, Atomic
    <3>2. p.what[1] # "tools"
      BY <3>1, Atomic
    <3> QED
      BY <3>2 DEF ImageOut, ImageUrl
  <2>3. \A i \in 1 .. Len(u) : u[i][1] # "tools"
    BY <2>1, <2>2
  <2>4. OfKind("tools", u) = <<>>
    BY <2>1, <2>3, OfKindNone
  <2>5. Ready(m).text = u
    BY <1>1, <1>2, ReadyIs DEF u
  <2> QED
    BY <2>4, <2>5 DEF Tells
<1>3. ASSUME ~Alone(m) PROVE Tells(m) = <<>>
  <2> DEFINE t == m.text
  <2>1. t \in Seq(TextSet)
    BY InIs
  <2> HIDE DEF t
  <2>2. \A i \in 1 .. Len(t) : t[i][1] # "tools"
    BY <2>1, SeqIs, Atomic
  <2>3. t \in Seq(AtomSet)
    BY <2>1, Atomic, SeqLarger
  <2>4. OfKind("tools", t) = <<>>
    BY <2>2, <2>3, OfKindNone
  <2>5. Ready(m).text = t
    BY <1>1, <1>3, ReadyIs DEF t
  <2> QED
    BY <2>4, <2>5 DEF Tells
<1> QED
  BY <1>2, <1>3

LEMMA ToolsToldIs == ToolsTold \in AtomSet /\ ToolsTold[1] = "tools"
<1>1. "tools" \in AtomKinds /\ 0 \in Nat
  BY DEF AtomKinds
<1> QED
  BY <1>1, Atomic DEF ToolsTold

LEMMA TellsWith ==
    ASSUME NEW m \in InSet(TextSet)
    PROVE  Tells(WithTools(m)) = <<ToolsTold>>
<1> DEFINE t == m.text
<1>1. m \in MessageSet /\ t \in Seq(TextSet)
  BY InLarger, InIs DEF MessageSet
<1>2. WithTools(m) \in MessageSet /\ WithTools(m).text = Append(t, ToolsTold)
  BY <1>1, WithToolsIs
<1> HIDE DEF t
<1>3. t \in Seq(AtomSet) /\ \A i \in 1 .. Len(t) : t[i][1] # "tools"
  BY <1>1, SeqIs, Atomic, SeqLarger
<1>4. OfKind("tools", t) = <<>>
  BY <1>3, OfKindNone
<1>5. OfKind("tools", Append(t, ToolsTold)) = <<ToolsTold>>
  BY <1>3, <1>4, ToolsToldIs, OfKindAppend
<1>6. Append(t, ToolsTold) # <<>>
  <2> DEFINE a == Append(t, ToolsTold)
  <2>1. Len(a) = Len(t) + 1 /\ Len(t) \in Nat
    BY <1>3, ToolsToldIs, AppendIs
  <2> HIDE DEF a
  <2>2. a # <<>>
    BY <2>1
  <2> QED
    BY <2>2 DEF a
<1>7. Ready(WithTools(m)).text = Append(t, ToolsTold)
  BY <1>2, <1>6, ReadyIs DEF Alone, MessageSet
<1> QED
  BY <1>5, <1>7 DEF Tells

LEMMA TellsAlone == Tells(Alone_Told) = <<ToolsTold>>
<1> DEFINE d == Atom("default", 0, 0)
<1>1. d \in AtomSet /\ d[1] # "tools"
  <2>1. "default" \in AtomKinds /\ 0 \in Nat
    BY DEF AtomKinds
  <2> QED
    BY <2>1, Atomic
<1> HIDE DEF d
<1>2. <<d>> \in Seq(AtomSet) /\ \A i \in 1 .. Len(<<d>>) : <<d>>[i][1] # "tools"
  BY <1>1
<1>3. OfKind("tools", <<d>>) = <<>>
  BY <1>2, OfKindNone
<1>4. Append(<<d>>, ToolsTold) = <<d, ToolsTold>> /\ <<d, ToolsTold>> # <<>>
  BY <1>1, ToolsToldIs, TwoIs
<1>5. OfKind("tools", Append(<<d>>, ToolsTold)) = <<ToolsTold>>
  <2> DEFINE s == <<d>>
  <2>1. s \in Seq(AtomSet) /\ OfKind("tools", s) = <<>>
    BY <1>2, <1>3
  <2> HIDE DEF s
  <2>2. OfKind("tools", Append(s, ToolsTold)) = <<ToolsTold>>
    BY <2>1, ToolsToldIs, OfKindAppend
  <2> QED
    BY <2>2 DEF s
<1>6. Alone_Told \in MessageSet /\ Alone_Told.text = <<d, ToolsTold>>
  BY AloneToldIs DEF d
<1>7. Ready(Alone_Told).text = <<d, ToolsTold>>
  BY <1>4, <1>6, ReadyIs DEF Alone, MessageSet
<1> QED
  BY <1>4, <1>5, <1>7 DEF Tells

LEMMA ParsedTyped ==
    ASSUME client.protocol \in Protocols, NEW entries \in Seq(EntrySet(client.protocol))
    PROVE  Parsed(entries) \in Seq(InSet(TextSet))
<1> DEFINE X == InSet(TextSet)
           ms == Plainly(entries)
<1>1. ms \in Seq(X) /\ ms \in Seq(MessageSet)
  BY PlainlyTyped
<1>2. /\ SystemFirst(ms) = Gather(Systems, ms) \o Gather(Others, ms)
      /\ Maps(Systems, MessageSet, MessageSet) /\ Maps(Others, MessageSet, MessageSet)
  BY <1>1, SystemFirstIs
<1>3. \A m \in X : Systems[m] \in Seq(X) /\ Others[m] \in Seq(X)
  <2> TAKE m \in X
  <2>1. <<m>> \in Seq(X) /\ <<>> \in Seq(X)
    BY OneIs, NoneIs
  <2>2. m \in MessageSet
    BY InLarger DEF MessageSet
  <2> QED
    BY <2>1, <2>2 DEF Systems, Others
<1> HIDE DEF X, ms
<1>4. \A i \in 1 .. Len(ms) : Systems[ms[i]] \in Seq(X) /\ Others[ms[i]] \in Seq(X)
  BY <1>1, <1>3, SeqIs
<1>5. Gather(Systems, ms) \in Seq(X) /\ Gather(Others, ms) \in Seq(X)
  <2>1. Gather(Systems, ms) \in Seq(X)
    BY <1>1, <1>2, <1>4, GatherKind
  <2>2. Gather(Others, ms) \in Seq(X)
    BY <1>1, <1>2, <1>4, GatherKind
  <2> QED
    BY <2>1, <2>2
<1>6. SystemFirst(ms) \in Seq(X)
  <2> DEFINE a == Gather(Systems, ms)
             b == Gather(Others, ms)
  <2>1. a \in Seq(X) /\ b \in Seq(X) /\ SystemFirst(ms) = a \o b
    BY <1>2, <1>5
  <2> HIDE DEF a, b
  <2>2. a \o b \in Seq(X)
    BY <2>1
  <2> QED
    BY <2>1, <2>2
<1>7. Parsed(entries) = SystemFirst(ms) \/ Parsed(entries) = ms
  BY ParsedIs DEF ms
<1> QED
  BY <1>1, <1>6, <1>7 DEF X

\* What is told of the tools.
Tellers == [m \in OutSet |-> OfKind("tools", m.text)]

LEMMA OutIs ==
    ASSUME NEW m \in OutSet
    PROVE  m.role \in Roles /\ m.text \in Seq(AtomSet) /\ m.images \in Seq(AtomSet)
           /\ m.calls \in Seq(CallSet)
BY DEF OutSet

\* The messages d, once built, tell of the tools just at k, or nowhere.
TellsOnlyAt(d, k) == \A i \in 1 .. Len(d) : Tells(d[i]) = IF i = k THEN <<ToolsTold>> ELSE <<>>

LEMMA ToldIs ==
    ASSUME NEW d \in Seq(MessageSet), NEW k \in Nat, TellsOnlyAt(d, k)
    PROVE  All(LAMBDA m : OfKind("tools", m.text), Each(Ready, d))
              = IF k \in 1 .. Len(d) THEN <<ToolsTold>> ELSE <<>>
<1> DEFINE b == Each(Ready, d)
           a == Each(LAMBDA m : OfKind("tools", m.text), b)
<1>1. b \in Seq(OutSet) /\ Len(b) = Len(d) /\ \A i \in 1 .. Len(d) : b[i] = Ready(d[i])
  BY ReadyGathered DEF MessageSet
<1>2. All(LAMBDA m : OfKind("tools", m.text), b) = Flat(a, Len(b))
  BY DEF All, Each
<1> HIDE DEF b
<1>3. \A i \in DOMAIN b : b[i] \in OutSet
  BY <1>1, SeqIs
<1>4. a = Lots(Tellers, b)
  <2>1. \A i \in DOMAIN b : Tellers[b[i]] = OfKind("tools", b[i].text)
    BY <1>3 DEF Tellers
  <2> QED
    BY <2>1 DEF Each, Lots
<1> HIDE DEF a
<1>5. All(LAMBDA m : OfKind("tools", m.text), b) = Gather(Tellers, b)
  BY <1>2, <1>4, Zenon DEF Gather
<1>6. Maps(Tellers, OutSet, AtomSet)
  <2>1. \A m \in OutSet : OfKind("tools", m.text) \in Seq(AtomSet)
    BY OutIs, OfKindIs
  <2> QED
    BY <2>1 DEF Maps, Tellers
<1>7. Len(b) \in Nat /\ \A i \in 1 .. Len(b) : Tellers[b[i]] = IF i = k THEN <<ToolsTold>> ELSE <<>>
  <2>1. DOMAIN b = 1 .. Len(b) /\ Len(b) \in Nat
    BY <1>1, SeqIs
  <2>2. \A i \in 1 .. Len(b) : Tellers[b[i]] = Tells(d[i])
    BY <1>1, <1>3, <2>1 DEF Tellers, Tells
  <2> QED
    BY <1>1, <2>1, <2>2 DEF TellsOnlyAt
<1>8. CASE k \in 1 .. Len(b)
  <2>1. \A i \in 1 .. Len(b) : i # k => Tellers[b[i]] = <<>>
    BY <1>7
  <2>2. Gather(Tellers, b) = Tellers[b[k]]
    BY <1>1, <1>6, <1>8, <2>1, GatherOnly
  <2> QED
    BY <1>1, <1>5, <1>7, <1>8, <2>2 DEF b
<1>9. CASE k \notin 1 .. Len(b)
  <2>1. \A i \in 1 .. Len(b) : Tellers[b[i]] = <<>>
    BY <1>7, <1>9
  <2>2. Gather(Tellers, b) = <<>>
    BY <1>1, <1>6, <2>1, GatherEmpty
  <2> QED
    BY <1>1, <1>5, <1>9, <2>2 DEF b
<1> QED
  BY <1>8, <1>9

\* Where the described messages tell of the tools.
LEMMA ExplainedTells ==
    ASSUME NEW ms \in Seq(InSet(TextSet))
    PROVE  /\ Explained(ms) \in Seq(MessageSet)
           /\ \/ ~ByWords /\ TellsOnlyAt(Explained(ms), 0)
              \/ ByWords /\ \E k : FirstSystem(Explained(ms), k) /\ TellsOnlyAt(Explained(ms), k)
<1> DEFINE d == Explained(ms)
           X == InSet(TextSet)
           n == Len(ms)
<1>1. ms \in Seq(MessageSet)
  <2>1. Seq(X) \subseteq Seq(MessageSet)
    BY InLarger, SeqLarger DEF MessageSet
  <2> QED
    BY <2>1
<1>2. n \in Nat /\ \A i \in 1 .. n : ms[i] \in X /\ Tells(ms[i]) = <<>>
  BY SeqIs, TellsNothing
<1>3. CASE ~ByWords /\ d = ms
  <2>1. TellsOnlyAt(ms, 0)
    BY <1>2 DEF TellsOnlyAt
  <2> QED
    BY <1>1, <1>3, <2>1
<1>4. CASE ByWords /\ NoSystem(ms) /\ d = <<Alone_Told>> \o ms
  <2> DEFINE s == <<Alone_Told>>
  <2>1. s \in Seq(MessageSet) /\ Len(s) = 1 /\ s[1] = Alone_Told
    BY AloneToldIs, OneIs
  <2> HIDE DEF s
  <2>2. s \o ms \in Seq(MessageSet) /\ Len(s \o ms) = Len(s) + n
        /\ (\A i \in 1 .. Len(s) : (s \o ms)[i] = s[i])
        /\ \A i \in 1 .. n : (s \o ms)[Len(s) + i] = ms[i]
    BY <1>1, <2>1, Joined
  <2>3. d = s \o ms
    BY <1>4 DEF s
  <2> HIDE DEF d
  <2>4. d \in Seq(MessageSet) /\ Len(d) = 1 + n /\ d[1] = Alone_Told
        /\ \A i \in 1 .. n : d[1 + i] = ms[i]
    BY <2>1, <2>2, <2>3
  <2>5. TellsOnlyAt(d, 1)
    <3> SUFFICES ASSUME NEW i \in 1 .. Len(d) PROVE Tells(d[i]) = IF i = 1 THEN <<ToolsTold>> ELSE <<>>
      BY DEF TellsOnlyAt
    <3>1. CASE i = 1
      BY <2>4, <3>1, TellsAlone
    <3>2. CASE i # 1
      <4>1. i - 1 \in 1 .. n /\ 1 + (i - 1) = i
        BY <1>2, <2>4, <3>2
      <4>2. d[i] = ms[i - 1]
        BY <2>4, <4>1
      <4> QED
        BY <1>2, <3>2, <4>1, <4>2
    <3> QED
      BY <3>1, <3>2
  <2>6. FirstSystem(d, 1)
    BY <1>2, <2>4, AloneToldIs DEF FirstSystem
  <2> QED
    BY <1>4, <2>4, <2>5, <2>6 DEF d
<1>5. ASSUME ByWords, NEW k, FirstSystem(ms, k), ToldAt(d, ms, k)
      PROVE  d \in Seq(MessageSet) /\ FirstSystem(d, k) /\ TellsOnlyAt(d, k)
  <2> HIDE DEF d, X
  <2>1. /\ d \in Seq(MessageSet) /\ Len(d) = n /\ d[k] = WithTools(ms[k])
        /\ \A i \in 1 .. n : i # k => d[i] = ms[i]
        /\ k \in 1 .. n /\ IsSystem(ms[k])
        /\ \A j \in 1 .. n : IsSystem(ms[j]) => k <= j
    BY <1>5 DEF ToldAt, FirstSystem
  <2>2. Tells(d[k]) = <<ToolsTold>> /\ IsSystem(d[k])
    <3>1. ms[k] \in InSet(TextSet) /\ ms[k] \in MessageSet
      BY <1>2, <2>1, InLarger DEF X, MessageSet
    <3>2. Tells(WithTools(ms[k])) = <<ToolsTold>> /\ WithTools(ms[k]).role = ms[k].role
      BY <3>1, TellsWith, WithToolsIs
    <3> QED
      BY <2>1, <3>2 DEF IsSystem
  <2>3. TellsOnlyAt(d, k)
    BY <1>2, <2>1, <2>2 DEF TellsOnlyAt
  <2>4. FirstSystem(d, k)
    BY <1>2, <2>1, <2>2 DEF FirstSystem
  <2> QED
    BY <2>1, <2>3, <2>4
<1>6. \/ ~ByWords /\ d = ms
      \/ ByWords /\ NoSystem(ms) /\ d = <<Alone_Told>> \o ms
      \/ ByWords /\ \E k : FirstSystem(ms, k) /\ ToldAt(d, ms, k)
  BY <1>1, ExplainedIs
<1> HIDE DEF d
<1> QED
  BY <1>3, <1>4, <1>5, <1>6 DEF d

\* The system messages are the first n.
SystemsUpTo(ms, n) == \A i \in 1 .. Len(ms) : IsSystem(ms[i]) <=> i <= n

LEMMA SystemsAhead ==
    ASSUME NEW ms \in Seq(MessageSet)
    PROVE  /\ SystemFirst(ms) \in Seq(MessageSet)
           /\ \E n \in 0 .. Len(SystemFirst(ms)) : SystemsUpTo(SystemFirst(ms), n)
<1> DEFINE a == Gather(Systems, ms)
           b == Gather(Others, ms)
           SysSet == {m \in MessageSet : IsSystem(m)}
           OtherSet == {m \in MessageSet : ~IsSystem(m)}
<1>1. /\ SystemFirst(ms) = a \o b
      /\ Maps(Systems, MessageSet, MessageSet) /\ Maps(Others, MessageSet, MessageSet)
      /\ a \in Seq(MessageSet) /\ b \in Seq(MessageSet)
  BY SystemFirstIs
<1>2. \A m \in MessageSet : Systems[m] \in Seq(SysSet) /\ Others[m] \in Seq(OtherSet)
  <2> TAKE m \in MessageSet
  <2>1. CASE IsSystem(m)
    <3>1. <<m>> \in Seq(SysSet) /\ <<>> \in Seq(OtherSet)
      BY <2>1, OneIs, NoneIs
    <3> QED
      BY <2>1, <3>1 DEF Systems, Others
  <2>2. CASE ~IsSystem(m)
    <3>1. <<m>> \in Seq(OtherSet) /\ <<>> \in Seq(SysSet)
      BY <2>2, OneIs, NoneIs
    <3> QED
      BY <2>2, <3>1 DEF Systems, Others
  <2> QED
    BY <2>1, <2>2
<1>3. (\A m \in SysSet : IsSystem(m)) /\ (\A m \in OtherSet : ~IsSystem(m))
  OBVIOUS
<1> HIDE DEF SysSet, OtherSet
<1>4. \A i \in 1 .. Len(ms) : Systems[ms[i]] \in Seq(SysSet) /\ Others[ms[i]] \in Seq(OtherSet)
  BY <1>2, SeqIs
<1>5. a \in Seq(SysSet)
  BY <1>1, <1>4, GatherKind
<1>6. b \in Seq(OtherSet)
  BY <1>1, <1>4, GatherKind
<1> HIDE DEF a, b
<1>7. Len(a) \in Nat /\ Len(b) \in Nat
      /\ (\A i \in 1 .. Len(a) : IsSystem(a[i])) /\ (\A i \in 1 .. Len(b) : ~IsSystem(b[i]))
  BY <1>3, <1>5, <1>6, SeqIs
<1>8. a \in Seq(MessageSet) /\ b \in Seq(MessageSet)
  BY <1>1
<1>9. a \o b \in Seq(MessageSet) /\ Len(a \o b) = Len(a) + Len(b)
      /\ (\A i \in 1 .. Len(a) : (a \o b)[i] = a[i])
      /\ \A i \in 1 .. Len(b) : (a \o b)[Len(a) + i] = b[i]
  BY <1>8, Joined
<1> DEFINE c == a \o b
<1> HIDE DEF c
<1>10. SystemsUpTo(c, Len(a))
  <2> SUFFICES ASSUME NEW i \in 1 .. Len(c) PROVE IsSystem(c[i]) <=> i <= Len(a)
    BY DEF SystemsUpTo
  <2>1. CASE i <= Len(a)
    BY <1>7, <1>9, <2>1 DEF c
  <2>2. CASE i > Len(a)
    <3> DEFINE j == i - Len(a)
    <3>1. j \in 1 .. Len(b) /\ Len(a) + j = i
      BY <1>7, <1>9, <2>2 DEF c
    <3> HIDE DEF j
    <3>2. c[Len(a) + j] = b[j]
      BY <1>9, <3>1 DEF c
    <3>3. ~IsSystem(c[i])
      BY <1>7, <3>1, <3>2
    <3>4. ~(i <= Len(a))
      BY <1>7, <1>9, <2>2 DEF c
    <3> QED
      BY <3>3, <3>4
  <2> QED
    BY <1>7, <1>9, <2>1, <2>2 DEF c
<1>11. Len(a) \in 0 .. Len(c) /\ c \in Seq(MessageSet)
  BY <1>7, <1>9 DEF c
<1> QED
  BY <1>1, <1>10, <1>11 DEF c

\* Describing the tools keeps the system messages ahead.
LEMMA ExplainedAhead ==
    ASSUME NEW ms \in Seq(MessageSet), NEW n \in 0 .. Len(ms), SystemsUpTo(ms, n)
    PROVE  \E k \in 0 .. Len(Explained(ms)) : SystemsUpTo(Explained(ms), k)
<1> DEFINE d == Explained(ms)
           l == Len(ms)
<1>1. l \in Nat
  BY SeqIs
<1>2. CASE d = ms
  BY <1>2
<1>3. CASE NoSystem(ms) /\ d = <<Alone_Told>> \o ms
  <2> DEFINE s == <<Alone_Told>>
  <2>1. s \in Seq(MessageSet) /\ Len(s) = 1 /\ s[1] = Alone_Told
    BY AloneToldIs, OneIs
  <2>3. d = s \o ms
    BY <1>3
  <2>0. s \in Seq(MessageSet)
    BY <2>1
  <2> HIDE DEF s, d
  <2>2. Len(s \o ms) = Len(s) + Len(ms)
        /\ (\A i \in 1 .. Len(s) : (s \o ms)[i] = s[i])
        /\ \A i \in 1 .. Len(ms) : (s \o ms)[Len(s) + i] = ms[i]
    BY <2>0, Joined
  <2>4. Len(d) = 1 + l /\ d[1] = Alone_Told /\ \A i \in 1 .. l : d[1 + i] = ms[i]
    BY <2>1, <2>2, <2>3
  <2>5. SystemsUpTo(d, 1)
    <3> SUFFICES ASSUME NEW i \in 1 .. Len(d) PROVE IsSystem(d[i]) <=> i <= 1
      BY DEF SystemsUpTo
    <3>1. CASE i = 1
      BY <2>4, <3>1, AloneToldIs
    <3>2. CASE i # 1
      <4>1. i - 1 \in 1 .. l /\ 1 + (i - 1) = i /\ ~(i <= 1)
        BY <1>1, <2>4, <3>2
      <4>2. d[i] = ms[i - 1]
        BY <2>4, <4>1
      <4> QED
        BY <1>3, <4>1, <4>2 DEF NoSystem
    <3> QED
      BY <3>1, <3>2
  <2>6. 1 \in 0 .. Len(d)
    BY <1>1, <2>4
  <2> QED
    BY <2>5, <2>6 DEF d
<1>4. ASSUME NEW k, FirstSystem(ms, k), ToldAt(d, ms, k) PROVE SystemsUpTo(d, n) /\ n \in 0 .. Len(d)
  <2> HIDE DEF d
  <2>1. /\ Len(d) = l /\ d[k] = WithTools(ms[k]) /\ k \in 1 .. l /\ IsSystem(ms[k])
        /\ \A i \in 1 .. l : i # k => d[i] = ms[i]
    BY <1>4 DEF ToldAt, FirstSystem
  <2>2. ms[k] \in MessageSet
    BY <2>1, SeqIs
  <2>3. IsSystem(d[k])
    BY <2>1, <2>2, WithToolsIs DEF IsSystem
  <2>4. \A i \in 1 .. l : IsSystem(d[i]) <=> IsSystem(ms[i])
    BY <2>1, <2>3
  <2> QED
    BY <2>1, <2>4 DEF SystemsUpTo
<1>5. \/ d = ms
      \/ NoSystem(ms) /\ d = <<Alone_Told>> \o ms
      \/ \E k : FirstSystem(ms, k) /\ ToldAt(d, ms, k)
  BY ExplainedIs
<1> HIDE DEF d
<1> QED
  BY <1>2, <1>3, <1>4, <1>5 DEF d

OfRole(role, S) == [m \in S |-> IF m.role = role THEN <<m>> ELSE <<>>]

\* Those with a role.
WithRole(role, s) == Only(LAMBDA m : m.role = role, s)

LEMMA OnlyRole ==
    ASSUME NEW S, NEW role, NEW s \in Seq(S)
    PROVE  /\ Maps(OfRole(role, S), S, S)
           /\ WithRole(role, s) = Gather(OfRole(role, S), s)
           /\ WithRole(role, s) \in Seq(S)
<1> DEFINE a == Each(LAMBDA m : IF m.role = role THEN <<m>> ELSE <<>>, s)
           o == WithRole(role, s)
<1>1. o = Flat(a, Len(s))
  BY DEF WithRole, Only, All, Each
<1> HIDE DEF o
<1>3. \A i \in DOMAIN s : s[i] \in S
  BY SeqIs
<1>4. a = Lots(OfRole(role, S), s)
  <2>1. \A i \in DOMAIN s : OfRole(role, S)[s[i]] = IF s[i].role = role THEN <<s[i]>> ELSE <<>>
    BY <1>3 DEF OfRole
  <2> QED
    BY <2>1 DEF Each, Lots
<1> HIDE DEF a
<1>5. o = Gather(OfRole(role, S), s)
  BY <1>1, <1>4, Zenon DEF Gather
<1>6. Maps(OfRole(role, S), S, S)
  <2>1. \A m \in S : <<m>> \in Seq(S) /\ <<>> \in Seq(S)
    BY OneIs, NoneIs
  <2> QED
    BY <2>1 DEF Maps, OfRole
<1>7. Gather(OfRole(role, S), s) \in Seq(S)
  BY <1>6, GatherTyped
<1> QED
  BY <1>5, <1>6, <1>7 DEF o

LEMMA OfIs ==
    ASSUME NEW role, request.messages \in Seq(OutSet)
    PROVE  /\ Maps(OfRole(role, OutSet), OutSet, OutSet)
           /\ Of(role) = Gather(OfRole(role, OutSet), request.messages)
           /\ Of(role) \in Seq(OutSet)
<1> DEFINE s == request.messages
<1>1. Of(role) = WithRole(role, s)
  BY DEF Of, WithRole
<1>2. s \in Seq(OutSet)
  OBVIOUS
<1> HIDE DEF s
<1>3. /\ Maps(OfRole(role, OutSet), OutSet, OutSet)
      /\ WithRole(role, s) = Gather(OfRole(role, OutSet), s)
      /\ WithRole(role, s) \in Seq(OutSet)
  BY <1>2, OnlyRole
<1> QED
  BY <1>1, <1>3 DEF s

\* What the upstream was sent, in a state where it has to answer.
LEMMA RequestIs ==
    ASSUME KnownInv, turn = "upstream"
    PROVE  /\ client.protocol \in Protocols /\ history \in Seq(EntrySet(client.protocol))
           /\ request = Sent(history)
           /\ request.tools = ~ByWords
           /\ request.messages = Each(Ready, Explained(Parsed(history)))
           /\ Parsed(history) \in Seq(InSet(TextSet))
           /\ Explained(Parsed(history)) \in Seq(MessageSet)
           /\ request.messages \in Seq(OutSet)
           /\ Len(request.messages) = Len(Explained(Parsed(history)))
           /\ \A i \in 1 .. Len(request.messages) :
                 request.messages[i] = Ready(Explained(Parsed(history))[i])
<1> DEFINE d == Explained(Parsed(history))
<1>1. client.protocol \in Protocols /\ history \in Seq(EntrySet(client.protocol)) /\ request = Sent(history)
  BY DEF KnownInv
<1>2. request.tools = ~ByWords /\ request.messages = Each(Ready, d)
  BY <1>1, SentIs
<1>3. Parsed(history) \in Seq(InSet(TextSet))
  BY <1>1, ParsedTyped
<1>4. d \in Seq(MessageSet)
  BY <1>3, ExplainedTells
<1> HIDE DEF d
<1>5. Each(Ready, d) \in Seq(OutSet) /\ Len(Each(Ready, d)) = Len(d)
      /\ \A i \in 1 .. Len(d) : Each(Ready, d)[i] = Ready(d[i])
  BY <1>4, ReadyGathered DEF MessageSet
<1> QED
  BY <1>1, <1>2, <1>3, <1>4, <1>5 DEF d

LEMMA PromptFirstHolds ==
    ASSUME KnownInv
    PROVE  PromptFirst
<1> DEFINE ms == request.messages
           X == Parsed(history)
           d == Explained(X)
           systems == {i \in DOMAIN ms : IsSystem(ms[i])}
           told == All(LAMBDA m : OfKind("tools", m.text), ms)
<1> SUFFICES ASSUME turn = "upstream"
             PROVE  /\ client.protocol = "anthropic" => systems = 1 .. Len(Of("system"))
                    /\ Len(told) = IF request.tools THEN 0 ELSE 1
                    /\ ~request.tools => \E i \in systems :
                          (\A j \in systems : i <= j) /\ OfKind("tools", ms[i].text) = told
  BY DEF PromptFirst
<1>1. /\ client.protocol \in Protocols /\ history \in Seq(EntrySet(client.protocol))
      /\ request.tools = ~ByWords /\ ms = Each(Ready, d)
      /\ X \in Seq(InSet(TextSet)) /\ d \in Seq(MessageSet)
      /\ ms \in Seq(OutSet) /\ Len(ms) = Len(d) /\ \A i \in 1 .. Len(ms) : ms[i] = Ready(d[i])
  BY RequestIs
<1>2. Len(ms) \in Nat /\ DOMAIN ms = 1 .. Len(ms) /\ \A i \in 1 .. Len(ms) : ms[i] \in OutSet /\ d[i] \in MessageSet
  BY <1>1, SeqIs
<1>3. \A i \in 1 .. Len(ms) : IsSystem(ms[i]) <=> IsSystem(d[i])
  <2> TAKE i \in 1 .. Len(ms)
  <2> DEFINE m == d[i]
  <2>1. m \in InSet(AtomSet) /\ ms[i] = Ready(m)
    BY <1>1, <1>2, Zenon DEF MessageSet
  <2> HIDE DEF m, ms
  <2>2. Ready(m).role = m.role
    BY <2>1, ReadyIs
  <2> QED
    BY <2>1, <2>2, Zenon DEF IsSystem, m
<1>4. /\ \/ ~ByWords /\ TellsOnlyAt(d, 0)
         \/ ByWords /\ \E k : FirstSystem(d, k) /\ TellsOnlyAt(d, k)
  BY <1>1, ExplainedTells
<1>5. ASSUME NEW k \in Nat, TellsOnlyAt(d, k) PROVE told = IF k \in 1 .. Len(d) THEN <<ToolsTold>> ELSE <<>>
  <2> HIDE DEF d
  <2> DEFINE b == Each(Ready, d)
  <2>1. All(LAMBDA m : OfKind("tools", m.text), b) = IF k \in 1 .. Len(d) THEN <<ToolsTold>> ELSE <<>>
    BY <1>1, <1>5, ToldIs
  <2>2. ms = b
    BY <1>1
  <2> HIDE DEF b, ms
  <2> QED
    BY <2>1, <2>2
<1>6. ASSUME client.protocol = "anthropic" PROVE systems = 1 .. Len(Of("system"))
  <2>1. Plainly(history) \in Seq(MessageSet) /\ X = SystemFirst(Plainly(history))
    BY <1>1, <1>6, PlainlyTyped, ParsedIs
  <2>2. \E n \in 0 .. Len(X) : X \in Seq(MessageSet) /\ SystemsUpTo(X, n)
    BY <2>1, SystemsAhead
  <2> HIDE DEF X
  <2>3. PICK n \in 0 .. Len(d) : SystemsUpTo(d, n)
    BY <2>2, ExplainedAhead DEF d
  <2> HIDE DEF d, ms
  <2>4. n \in 0 .. Len(ms) /\ \A i \in 1 .. Len(ms) : IsSystem(ms[i]) <=> i <= n
    BY <1>1, <1>3, <2>3 DEF SystemsUpTo
  <2>5. systems = 1 .. n
    BY <1>2, <2>4
  <2>6. Maps(OfRole("system", OutSet), OutSet, OutSet) /\ Of("system") = Gather(OfRole("system", OutSet), ms)
    BY <1>1, OfIs DEF ms
  <2>7. \A i \in 1 .. Len(ms) : IF i <= n THEN Len(OfRole("system", OutSet)[ms[i]]) = 1
                                ELSE OfRole("system", OutSet)[ms[i]] = <<>>
    <3> TAKE i \in 1 .. Len(ms)
    <3>1. OfRole("system", OutSet)[ms[i]] = IF IsSystem(ms[i]) THEN <<ms[i]>> ELSE <<>>
      BY <1>2 DEF OfRole, IsSystem
    <3>2. Len(<<ms[i]>>) = 1
      OBVIOUS
    <3> QED
      BY <2>4, <3>1, <3>2
  <2> DEFINE G == OfRole("system", OutSet)
  <2>8. Len(Gather(G, ms)) = n
    <3>1. Maps(G, OutSet, OutSet) /\ \A i \in 1 .. Len(ms) : IF i <= n THEN Len(G[ms[i]]) = 1
                                ELSE G[ms[i]] = <<>>
      BY <2>6, <2>7
    <3>2. ms \in Seq(OutSet) /\ n \in 0 .. Len(ms)
      BY <1>1, <2>4
    <3> HIDE DEF G
    <3> QED
      BY <3>1, <3>2, GatherFirst
  <2> QED
    BY <2>5, <2>6, <2>8
<1>7. CASE ~ByWords
  <2>1. TellsOnlyAt(d, 0)
    BY <1>4, <1>7
  <2>2. told = <<>>
    <3> HIDE DEF d, told
    <3>1. 0 \in Nat /\ 0 \notin 1 .. Len(d)
      OBVIOUS
    <3> QED
      BY <1>5, <2>1, <3>1
  <2> HIDE DEF told, systems, ms
  <2> QED
    BY <1>1, <1>6, <1>7, <2>2
<1>8. CASE ByWords
  <2>1. PICK k : FirstSystem(d, k) /\ TellsOnlyAt(d, k)
    BY <1>4, <1>8
  <2> HIDE DEF d
  <2>2. k \in 1 .. Len(d) /\ k \in Nat /\ IsSystem(d[k]) /\ \A j \in 1 .. Len(d) : IsSystem(d[j]) => k <= j
    BY <1>1, <1>2, <2>1 DEF FirstSystem
  <2>3. told = <<ToolsTold>>
    <3> HIDE DEF told
    <3> QED
      BY <1>5, <2>1, <2>2
  <2>4. k \in systems /\ \A j \in systems : k <= j
    <3> HIDE DEF ms
    <3> QED
      BY <1>1, <1>2, <1>3, <2>2
  <2>5. OfKind("tools", ms[k].text) = <<ToolsTold>>
    <3>1. ms[k] = Ready(d[k])
      BY <1>1, <2>2
    <3> HIDE DEF ms
    <3> QED
      BY <2>1, <2>2, <3>1 DEF TellsOnlyAt, Tells
  <2>6. Len(told) = 1
    <3> HIDE DEF told
    <3>1. Len(<<ToolsTold>>) = 1
      OBVIOUS
    <3> QED
      BY <2>3, <3>1
  <2> HIDE DEF told, systems, ms
  <2> QED
    BY <1>1, <1>6, <1>8, <2>3, <2>4, <2>5, <2>6
<1> QED
  BY <1>7, <1>8

\* The prompt comes first and the tools are told once, however long the
\* conversation and however many calls there are in an answer.
THEOREM PromptComesFirst == Spec => []PromptFirst
<1>1. Init => KnownInv
  BY KnownInit
<1>2. KnownInv /\ [Next]_vars => KnownInv'
  BY KnownStep
<1>3. KnownInv => PromptFirst
  BY PromptFirstHolds
<1> QED
  BY <1>1, <1>2, <1>3, PTL DEF Spec

-----------------------------------------------------------------------------
(* What those with a role say.                                             *)

\* What G has of those with a role.
Within(G, role, S) == [m \in S |-> IF m.role = role THEN G[m] ELSE <<>>]

LEMMA WithinIs ==
    ASSUME NEW S, NEW T, NEW role, NEW G, Maps(G, S, T), NEW s \in Seq(S)
    PROVE  /\ Maps(Within(G, role, S), S, T)
           /\ Gather(G, Gather(OfRole(role, S), s)) = Gather(Within(G, role, S), s)
<1> DEFINE F == OfRole(role, S)
           W == Within(G, role, S)
<1>1. Maps(F, S, S)
  BY OnlyRole
<1>2. \A m \in S : F[m] = (IF m.role = role THEN <<m>> ELSE <<>>)
                   /\ W[m] = (IF m.role = role THEN G[m] ELSE <<>>)
  BY DEF OfRole, Within
<1>3. Maps(W, S, T)
  <2>1. <<>> \in Seq(T) /\ \A m \in S : G[m] \in Seq(T)
    BY NoneIs DEF Maps
  <2> QED
    BY <2>1 DEF Maps, Within
<1>4. \A m \in S : Gather(G, <<m>>) = G[m]
  BY GatherOne
<1> HIDE DEF F, W
<1>5. \A m \in S : Through(G, F, S)[m] = W[m]
  <2> TAKE m \in S
  <2>1. Through(G, F, S)[m] = Gather(G, F[m])
    BY DEF Through
  <2>2. CASE m.role = role
    BY <1>2, <1>4, <2>1, <2>2
  <2>3. CASE m.role # role
    BY <1>2, <2>1, <2>3, GatherNone
  <2> QED
    BY <2>2, <2>3
<1>6. Maps(Through(G, F, S), S, T) /\ Gather(G, Gather(F, s)) = Gather(Through(G, F, S), s)
  <2> DEFINE M == S
  <2>1. Maps(F, S, M) /\ Maps(G, M, T)
    BY <1>1
  <2> HIDE DEF M
  <2> QED
    BY <2>1, GatherTwice
<1>7. Gather(Through(G, F, S), s) = Gather(W, s)
  BY <1>3, <1>5, GatherAgree
<1> QED
  BY <1>3, <1>6, <1>7 DEF F, W

\* What an entry that is not only results becomes.
Made(protocol, e) ==
    IF protocol = "openai" THEN MadeOpenAI(e)
    ELSE IF protocol = "anthropic" THEN MadeAnthropic(e)
    ELSE Says(e.role, Whats(e.parts, {"text"}))

\* Whether an entry is nothing but results, to Anthropic's conversion.
Dropped(protocol, e) == protocol = "anthropic" /\ RestOf(e) = <<>>

\* What G has of what the entries with a role become.
Voice(G, role, protocol) ==
    [e \in EntrySet(protocol) |->
        IF e.role = role /\ ~Dropped(protocol, e) THEN G[Ready(Made(protocol, e))] ELSE <<>>]

LEMMA MadeIs ==
    ASSUME NEW protocol \in Protocols, NEW e \in EntrySet(protocol)
    PROVE  /\ Made(protocol, e) \in InSet(TextSet) /\ Made(protocol, e) \in MessageSet
           /\ Made(protocol, e).role = e.role
           /\ RestOf(e) = <<>> \/ RestOf(e) = <<MadeAnthropic(e)>>
<1>1. e \in RawSet
  BY EntryIs
<1>2. e.role = "tool" /\ protocol = "openai" => Len(e.parts) > 0
  <2> SUFFICES ASSUME e.role = "tool", protocol = "openai" PROVE Len(e.parts) > 0
    OBVIOUS
  <2>1. ToolShape(e)
    BY DEF EntrySet, SystemShape, AskShape, AnswerShape
  <2>2. PICK p \in ResultSet : e.parts = <<p>>
    BY <2>1 DEF ToolShape
  <2> QED
    BY <2>2
<1>3. Made(protocol, e) \in InSet(TextSet)
  BY <1>1, <1>2, MadeTyped, Zenon DEF Made
<1>4. Made(protocol, e).role = e.role
  BY DEF Made, MadeOpenAI, MadeAnthropic, Says, Message
<1> QED
  BY <1>3, <1>4, InLarger DEF MessageSet, RestOf

LEMMA VoiceIs ==
    ASSUME NEW protocol \in Protocols, NEW T, NEW G, Maps(G, OutSet, T), NEW role \in {"user", "assistant"}
    PROVE  /\ Maps(Voice(G, role, protocol), EntrySet(protocol), T)
           /\ \A e \in EntrySet(protocol) :
                 PerEntry(Within(G, role, OutSet), protocol)[e] = Voice(G, role, protocol)[e]
<1> DEFINE W == Within(G, role, OutSet)
           H == OnReady(W)
           V == Voice(G, role, protocol)
<1>1. \A m \in MessageSet : /\ Ready(m) \in OutSet
                            /\ H[m] = IF m.role = role THEN G[Ready(m)] ELSE <<>>
  <2>1. \A m \in MessageSet : Ready(m) \in OutSet /\ Ready(m).role = m.role
    BY ReadyIs DEF MessageSet
  <2> QED
    BY <2>1 DEF OnReady, Within, MessageSet
<1>2. <<>> \in Seq(T) /\ \A m \in MessageSet : G[Ready(m)] \in Seq(T)
  BY <1>1, NoneIs DEF Maps
<1>3. Maps(V, EntrySet(protocol), T)
  BY <1>2, MadeIs DEF Maps, Voice
<1>4. Maps(H, MessageSet, T)
  <2>1. H = [m \in MessageSet |-> W[Ready(m)]]
    BY DEF OnReady, MessageSet
  <2>2. \A m \in MessageSet : H[m] \in Seq(T)
    BY <1>1, <1>2
  <2> HIDE DEF H
  <2> QED
    BY <2>1, <2>2 DEF Maps
<1> HIDE DEF H, W
<1>5. ASSUME NEW e \in EntrySet(protocol) PROVE PerEntry(W, protocol)[e] = V[e]
  <2> DEFINE m == Made(protocol, e)
             x == ParsedTo(protocol, e)
  <2>1. PerEntry(W, protocol)[e] = Gather(H, x)
    BY DEF PerEntry, Through, Parse, H
  <2>2. m \in MessageSet /\ m.role = e.role
        /\ (RestOf(e) = <<>> \/ RestOf(e) = <<MadeAnthropic(e)>>)
    BY MadeIs
  <2>3. V[e] = IF e.role = role /\ ~Dropped(protocol, e) THEN G[Ready(m)] ELSE <<>>
    BY DEF Voice
  <2>4. H[m] = IF e.role = role THEN G[Ready(m)] ELSE <<>>
    BY <1>1, <2>2
  <2>5. Gather(H, <<m>>) = H[m] /\ Gather(H, <<>>) = <<>>
    <3> HIDE DEF m
    <3> QED
      BY <1>4, <2>2, GatherOne, GatherNone
  <2>6. CASE protocol = "openai"
    <3>1. x = <<m>> /\ ~Dropped(protocol, e)
      BY <2>6 DEF ParsedTo, Made, Dropped
    <3> HIDE DEF m, x, V
    <3> QED
      BY <2>1, <2>3, <2>4, <2>5, <3>1
  <2>7. CASE protocol = "responses"
    <3>1. x = (IF e.role = "" THEN <<>> ELSE <<m>>) /\ ~Dropped(protocol, e)
      BY <2>7 DEF ParsedTo, Made, Dropped
    <3>2. role # ""
      OBVIOUS
    <3> HIDE DEF m, x, V
    <3>3. CASE e.role = ""
      BY <2>1, <2>3, <2>5, <3>1, <3>2, <3>3
    <3>4. CASE e.role # ""
      BY <2>1, <2>3, <2>4, <2>5, <3>1, <3>4
    <3> QED
      BY <3>3, <3>4
  <2>8. CASE protocol = "anthropic"
    <3> DEFINE t == Gather(Tellings, e.parts)
               ToolSet == {n \in MessageSet : n.role = "tool"}
    <3>1. x = t \o RestOf(e) /\ m = MadeAnthropic(e)
      BY <2>8 DEF ParsedTo, Made
    <3>2. e.parts \in Seq(PartSet)
      BY EntryIs
    <3>3. \A p \in PartSet : Tellings[p] \in Seq(ToolSet)
      <4> TAKE p \in PartSet
      <4>1. Told(p) \in ToolSet
        BY ToldMade, InLarger DEF MessageSet, Message
      <4>2. <<Told(p)>> \in Seq(ToolSet) /\ <<>> \in Seq(ToolSet)
        <5> HIDE DEF ToolSet
        <5> QED
          BY <4>1, OneIs, NoneIs
      <4> HIDE DEF ToolSet
      <4> QED
        BY <4>2 DEF Tellings
    <3>4. \A n \in ToolSet : H[n] = <<>>
      BY <1>1
    <3>5. ToolSet \subseteq MessageSet
      OBVIOUS
    <3> HIDE DEF ToolSet
    <3>6. t \in Seq(ToolSet)
      <4>1. \A i \in 1 .. Len(e.parts) : Tellings[e.parts[i]] \in Seq(ToolSet)
        BY <3>2, <3>3, SeqIs
      <4> DEFINE y == e.parts
      <4>2. y \in Seq(PartSet) /\ \A i \in 1 .. Len(y) : Tellings[y[i]] \in Seq(ToolSet)
        BY <3>2, <4>1
      <4> HIDE DEF y
      <4>3. Gather(Tellings, y) \in Seq(ToolSet)
        BY <4>2, TellingsMaps, GatherKind
      <4> QED
        BY <4>3 DEF y
    <3> HIDE DEF t
    <3>7. t \in Seq(MessageSet)
      BY <3>5, <3>6, SeqLarger
    <3>8. Gather(H, t) = <<>>
      <4>1. \A i \in 1 .. Len(t) : H[t[i]] = <<>>
        BY <3>4, <3>6, SeqIs
      <4> QED
        BY <1>4, <3>7, <4>1, GatherEmpty
    <3>9. RestOf(e) \in Seq(MessageSet)
      <4>1. <<m>> \in Seq(MessageSet) /\ <<>> \in Seq(MessageSet)
        <5> HIDE DEF m
        <5> QED
          BY <2>2, OneIs, NoneIs
      <4> QED
        BY <2>2, <3>1, <4>1
    <3>10. Gather(H, x) = Gather(H, RestOf(e))
      <4> DEFINE y == RestOf(e)
      <4>1. y \in Seq(MessageSet) /\ x = t \o y
        BY <3>1, <3>9
      <4> HIDE DEF y, x
      <4>2. Gather(H, t \o y) = Gather(H, t) \o Gather(H, y)
        BY <1>4, <3>7, <4>1, GatherJoined
      <4>3. <<>> \o Gather(H, y) = Gather(H, y)
        <5>1. Gather(H, y) \in Seq(T)
          BY <1>4, <4>1, GatherTyped
        <5> QED
          BY <5>1, JoinedNone
      <4> QED
        BY <3>8, <4>1, <4>2, <4>3 DEF y
    <3>11. CASE RestOf(e) = <<>>
      <4>1. Dropped(protocol, e)
        BY <2>8, <3>11 DEF Dropped
      <4> HIDE DEF x, m, V
      <4> QED
        BY <2>1, <2>3, <2>5, <3>10, <3>11, <4>1
    <3>12. CASE RestOf(e) # <<>>
      <4>1. ~Dropped(protocol, e) /\ RestOf(e) = <<m>>
        BY <2>2, <3>1, <3>12 DEF Dropped
      <4> HIDE DEF x, m, V
      <4> QED
        BY <2>1, <2>3, <2>4, <2>5, <3>10, <4>1
    <3> QED
      BY <3>11, <3>12
  <2> QED
    BY <2>6, <2>7, <2>8 DEF Protocols
<1> QED
  BY <1>3, <1>5 DEF W

\* What the upstream receives from those with a role is what their entries become.
LEMMA RolePipe ==
    ASSUME KnownInv, turn = "upstream", NEW T, NEW G, Maps(G, OutSet, T),
           NEW role \in {"user", "assistant"}
    PROVE  /\ Of(role) \in Seq(OutSet)
           /\ Maps(Voice(G, role, client.protocol), EntrySet(client.protocol), T)
           /\ Gather(G, Of(role)) = Gather(Voice(G, role, client.protocol), history)
<1> DEFINE W == Within(G, role, OutSet)
           ms == request.messages
           p == client.protocol
<1>1. ms \in Seq(OutSet) /\ request = Sent(history) /\ p \in Protocols
      /\ history \in Seq(EntrySet(p))
  BY RequestIs
<1>2. Of(role) = Gather(OfRole(role, OutSet), ms) /\ Of(role) \in Seq(OutSet)
  BY <1>1, OfIs
<1>3. Maps(W, OutSet, T) /\ Gather(G, Gather(OfRole(role, OutSet), ms)) = Gather(W, ms)
  <2> DEFINE S == OutSet
             x == ms
  <2>1. x \in Seq(S) /\ Maps(G, S, T)
    BY <1>1
  <2> HIDE DEF S, x
  <2>2. Maps(Within(G, role, S), S, T) /\ Gather(G, Gather(OfRole(role, S), x)) = Gather(Within(G, role, S), x)
    BY <2>1, WithinIs
  <2> QED
    BY <2>2 DEF S, x
<1>4. \A m \in OutSet : m.role = "system" => W[m] = <<>>
  BY DEF Within
<1>5. /\ Maps(Voice(G, role, p), EntrySet(p), T)
      /\ \A e \in EntrySet(p) : PerEntry(W, p)[e] = Voice(G, role, p)[e]
  BY <1>1, VoiceIs
<1> HIDE DEF W
<1>6. Gather(W, Sent(history).messages) = Gather(PerEntry(W, p), history)
  BY <1>1, <1>3, <1>4, Pipe
<1>7. Gather(PerEntry(W, p), history) = Gather(Voice(G, role, p), history)
  <2> DEFINE V == Voice(G, role, p)
             E == EntrySet(p)
             X == PerEntry(W, p)
  <2>1. Maps(V, E, T) /\ history \in Seq(E) /\ \A e \in E : X[e] = V[e]
    BY <1>1, <1>5
  <2> HIDE DEF V, E, X
  <2>2. Gather(X, history) = Gather(V, history)
    BY <2>1, GatherAgree
  <2> QED
    BY <2>2, Zenon DEF V, X
<1> QED
  BY <1>1, <1>2, <1>3, <1>5, <1>6, <1>7, Zenon DEF p

-----------------------------------------------------------------------------
(* What the user said is kept.                                             *)

\* The parts of what a user says, and the shapes that matter.
UserPart(p) ==
    /\ p.kind \in {"text", "image", "link", "tool_result"}
    /\ p.kind = "text" => p.what[1] = "text"
    /\ p.kind = "tool_result" => p.what[1] = "result"
    /\ p.kind \in {"image", "link"} => p.what[1] = "image"

UserSet == {p \in PartSet : UserPart(p)}

TwoImages(parts) == Len(parts) = 2 /\ \A i \in 1 .. 2 : parts[i].kind = "image"

ImagesTold(parts) ==
    \/ Len(parts) = 1
    \/ \E i \in 1 .. Len(parts) : parts[i].kind = "text"
    \/ TwoImages(parts)
    \/ \A i \in 1 .. Len(parts) : parts[i].kind \notin {"image", "link"}

LEMMA UserAskIs ==
    ASSUME NEW r \in Nat, NEW parts \in AskParts(r)
    PROVE  parts \in Seq(UserSet) /\ ImagesTold(parts)
<1> DEFINE t == TextPart(r)
           i0 == ImagePart("image", r, 0)
           i1 == ImagePart("image", r, 1)
           k == ImagePart("link", r, 1)
<1>1. t \in UserSet /\ t.kind = "text"
  BY TextPartIs DEF UserSet, UserPart
<1>2. i0 \in UserSet /\ i1 \in UserSet /\ i0.kind = "image" /\ i1.kind = "image"
  BY ImagePartIs DEF UserSet, UserPart
<1>3. k \in UserSet
  BY ImagePartIs DEF UserSet, UserPart
<1> HIDE DEF t, i0, i1, k
<1>4. parts \in {<<t>>, <<i0>>, <<i0, t, k>>, <<i0, i1>>}
  BY DEF AskParts, t, i0, i1, k
<1>5. CASE parts = <<t>> \/ parts = <<i0>>
  BY <1>1, <1>2, <1>5 DEF ImagesTold
<1>6. CASE parts = <<i0, t, k>>
  <2>1. parts[2].kind = "text" /\ Len(parts) = 3
    BY <1>1, <1>6
  <2>2. parts \in Seq(UserSet)
    BY <1>1, <1>2, <1>3, <1>6
  <2> QED
    BY <2>1, <2>2 DEF ImagesTold
<1>7. CASE parts = <<i0, i1>>
  <2>1. parts \in Seq(UserSet) /\ Len(parts) = 2 /\ parts[1] = i0 /\ parts[2] = i1
    BY <1>2, <1>7
  <2>2. TwoImages(parts)
    BY <1>2, <2>1 DEF TwoImages
  <2> QED
    BY <2>1, <2>2 DEF ImagesTold
<1> QED
  BY <1>4, <1>5, <1>6, <1>7

LEMMA UserResultsIs ==
    ASSUME NEW r \in Nat, NEW results \in Seq(ResultSet), NEW parts,
           parts = results \/ parts = <<TextPart(r)>> \o results
    PROVE  parts \in Seq(UserSet) /\ ImagesTold(parts)
<1>1. ResultSet \subseteq UserSet
  BY DEF ResultSet, UserSet, UserPart
<1>2. results \in Seq(UserSet) /\ \A i \in 1 .. Len(results) : results[i].kind \notin {"image", "link"}
  <2>1. results \in Seq(UserSet)
    BY <1>1, SeqLarger
  <2>2. \A p \in ResultSet : p.kind \notin {"image", "link"}
    BY DEF ResultSet
  <2> QED
    BY <2>1, <2>2, SeqIs
<1>3. CASE parts = results
  BY <1>2, <1>3 DEF ImagesTold
<1>4. CASE parts = <<TextPart(r)>> \o results
  <2> DEFINE t == TextPart(r)
             s == <<t>>
  <2>1. t \in UserSet /\ t.kind = "text"
    BY TextPartIs DEF UserSet, UserPart
  <2> HIDE DEF t
  <2>2. s \in Seq(UserSet) /\ 1 \in 1 .. Len(s) /\ s[1] = t
    BY <2>1
  <2> HIDE DEF s
  <2>3. s \o results \in Seq(UserSet) /\ Len(s \o results) = Len(s) + Len(results)
        /\ \A i \in 1 .. Len(s) : (s \o results)[i] = s[i]
    BY <1>2, <2>2, Joined
  <2>4. parts = s \o results
    BY <1>4 DEF s, t
  <2>5. parts \in Seq(UserSet) /\ 1 \in 1 .. Len(parts) /\ parts[1] = t
    <3>1. Len(s) \in Nat /\ Len(results) \in Nat
      BY <1>2, <2>2, SeqIs
    <3> QED
      BY <2>2, <2>3, <2>4, <3>1
  <2> QED
    BY <2>1, <2>5 DEF ImagesTold
<1> QED
  BY <1>3, <1>4

LEMMA UserIs ==
    ASSUME NEW protocol \in Protocols, NEW e \in EntrySet(protocol), e.role = "user"
    PROVE  e.parts \in Seq(UserSet) /\ ImagesTold(e.parts)
<1>1. AskShape(e) \/ ResultsShape(e)
  BY DEF EntrySet, SystemShape, AnswerShape, ToolShape, ItemShape
<1>2. CASE AskShape(e)
  BY <1>2, UserAskIs DEF AskShape
<1>3. CASE ResultsShape(e)
  <2>1. PICK r \in Nat, results \in Seq(ResultSet) :
            e.parts = results \/ e.parts = <<TextPart(r)>> \o results
    BY <1>3 DEF ResultsShape
  <2> DEFINE parts == e.parts
  <2>2. parts = results \/ parts = <<TextPart(r)>> \o results
    BY <2>1
  <2> HIDE DEF parts
  <2>3. parts \in Seq(UserSet) /\ ImagesTold(parts)
    BY <2>2, UserResultsIs
  <2> QED
    BY <2>3 DEF parts
<1> QED
  BY <1>1, <1>2, <1>3

\* What gives something is not all nothing.
LEMMA GatherSome ==
    ASSUME NEW S, NEW T, NEW G, Maps(G, S, T), NEW s \in Seq(S), Gather(G, s) = <<>>
    PROVE  \A i \in 1 .. Len(s) : G[s[i]] = <<>>
<1> DEFINE P == {x \in Seq(S) : Gather(G, x) = <<>> => \A i \in 1 .. Len(x) : G[x[i]] = <<>>}
<1>1. <<>> \in P
  BY NoneIs
<1>2. ASSUME NEW x \in Seq(S), NEW e \in S, x \in P PROVE Append(x, e) \in P
  <2>1. Gather(G, x) = <<>> => \A i \in 1 .. Len(x) : G[x[i]] = <<>>
    BY <1>2
  <2> HIDE DEF P
  <2>2. Gather(G, Append(x, e)) = Gather(G, x) \o G[e]
    BY GatherAppend
  <2>3. Gather(G, x) \in Seq(T) /\ G[e] \in Seq(T)
    BY GatherTyped, Zenon DEF Maps
  <2> DEFINE a == Gather(G, x)
             b == G[e]
             y == Append(x, e)
  <2> HIDE DEF a, b
  <2>4. a \o b = <<>> => a = <<>> /\ b = <<>>
    <3>1. a \in Seq(T) /\ b \in Seq(T)
      BY <2>3 DEF a, b
    <3>2. Len(a \o b) = Len(a) + Len(b) /\ Len(a) \in Nat /\ Len(b) \in Nat
      BY <3>1, Joined, SeqIs
    <3>3. a \o b = <<>> => Len(a) = 0 /\ Len(b) = 0
      BY <3>2
    <3> QED
      BY <3>1, <3>3, NoneIs
  <2>5. y \in Seq(S) /\ Len(y) = Len(x) + 1 /\ (\A i \in 1 .. Len(x) : y[i] = x[i]) /\ y[Len(x) + 1] = e
        /\ Len(x) \in Nat
    BY AppendIs, SeqIs
  <2> HIDE DEF y
  <2>6. Gather(G, y) = <<>> => \A i \in 1 .. Len(y) : G[y[i]] = <<>>
    <3> SUFFICES ASSUME Gather(G, y) = <<>>, NEW i \in 1 .. Len(y) PROVE G[y[i]] = <<>>
      OBVIOUS
    <3>1. Gather(G, x) = <<>> /\ G[e] = <<>>
      <4>1. a \o b = <<>>
        BY <2>2 DEF y, a, b
      <4> QED
        BY <2>4, <4>1 DEF a, b
    <3>2. CASE i = Len(x) + 1
      BY <2>5, <3>1, <3>2
    <3>3. CASE i # Len(x) + 1
      BY <2>1, <2>5, <3>1, <3>3
    <3> QED
      BY <3>2, <3>3
  <2> QED
    BY <2>5, <2>6 DEF P, y
<1> HIDE DEF P
<1>3. Seq(S) \subseteq P
  BY <1>1, <1>2, InductionOnSeq
<1> QED
  BY <1>3 DEF P

LEMMA UserSetIs == UserSet \subseteq PartSet /\ Seq(UserSet) \subseteq Seq(PartSet)
<1>1. UserSet \subseteq PartSet
  BY DEF UserSet
<1> HIDE DEF UserSet
<1> QED
  BY <1>1, SeqLarger

\* What is of a kind among what parts give.
LEMMA KindSaid ==
    ASSUME NEW kind, NEW F, NEW W, Maps(F, PartSet, AtomSet), Maps(W, PartSet, AtomSet),
           NEW U, U \subseteq PartSet, NEW parts \in Seq(U), \A p \in U : OfKind(kind, F[p]) = W[p]
    PROVE  OfKind(kind, Gather(F, parts)) = Gather(W, parts)
<1> DEFINE G == KindOf(kind)
           X == Through(G, F, PartSet)
<1>1. parts \in Seq(PartSet) /\ \A i \in 1 .. Len(parts) : parts[i] \in U /\ parts[i] \in PartSet
  BY SeqLarger, SeqIs
<1>2. Gather(F, parts) \in Seq(AtomSet)
  BY <1>1, GatherTyped
<1>3. OfKind(kind, Gather(F, parts)) = Gather(G, Gather(F, parts)) /\ Maps(G, AtomSet, AtomSet)
  BY <1>2, OfKindIs
<1>4. \A p \in U : X[p] = W[p]
  <2> TAKE p \in U
  <2>1. p \in PartSet
    OBVIOUS
  <2>2. F[p] \in Seq(AtomSet)
    BY <2>1 DEF Maps
  <2>3. OfKind(kind, F[p]) = Gather(G, F[p])
    BY <2>2, OfKindIs
  <2> QED
    BY <2>1, <2>3 DEF Through
<1> HIDE DEF G
<1>5. Maps(X, PartSet, AtomSet) /\ Gather(G, Gather(F, parts)) = Gather(X, parts)
  <2> DEFINE A == AtomSet
             B == AtomSet
             P == PartSet
  <2>1. Maps(F, P, A) /\ Maps(G, A, B) /\ parts \in Seq(P)
    BY <1>1, <1>3
  <2> HIDE DEF A, B, P
  <2>2. Maps(Through(G, F, P), P, B) /\ Gather(G, Gather(F, parts)) = Gather(Through(G, F, P), parts)
    BY <2>1, GatherTwice
  <2> QED
    BY <2>2 DEF B, P
<1> HIDE DEF X
<1>6. Gather(X, parts) = Gather(W, parts)
  <2>1. Len(parts) = Len(parts) /\ \A i \in 1 .. Len(parts) : X[parts[i]] = W[parts[i]]
    BY <1>1, <1>4
  <2> DEFINE A == AtomSet
             P == PartSet
  <2>2. Maps(W, P, A) /\ parts \in Seq(P)
    BY <1>1
  <2> HIDE DEF A, P
  <2> QED
    BY <2>1, <2>2, GatherSame
<1> QED
  BY <1>3, <1>5, <1>6

LEMMA OfKindOne ==
    ASSUME NEW kind, NEW w \in AtomSet
    PROVE  OfKind(kind, <<w>>) = (IF w[1] = kind THEN <<w>> ELSE <<>>) /\ OfKind(kind, <<>>) = <<>>
<1>1. <<w>> \in Seq(AtomSet) /\ <<>> \in Seq(AtomSet)
  BY OneIs, NoneIs
<1>2. Maps(KindOf(kind), AtomSet, AtomSet) /\ OfKind(kind, <<w>>) = Gather(KindOf(kind), <<w>>)
      /\ OfKind(kind, <<>>) = Gather(KindOf(kind), <<>>)
  BY <1>1, OfKindIs
<1>3. Gather(KindOf(kind), <<w>>) = KindOf(kind)[w]
  BY <1>2, GatherOne
<1>4. Gather(KindOf(kind), <<>>) = <<>>
  BY GatherNone
<1>5. KindOf(kind)[w] = IF w[1] = kind THEN <<w>> ELSE <<>>
  BY DEF KindOf
<1> QED
  BY <1>2, <1>3, <1>4, <1>5

LEMMA TextSaid ==
    ASSUME NEW parts \in Seq(UserSet), NEW kinds, "text" \in kinds, kinds \subseteq {"text", "tool_result"}
    PROVE  OfKind("text", Whats(parts, kinds)) = Whats(parts, {"text"})
<1> DEFINE F == WhatsOf(kinds)
           W == WhatsOf({"text"})
<1>1. parts \in Seq(PartSet)
  BY UserSetIs
<1>2. Whats(parts, kinds) = Gather(F, parts) /\ Whats(parts, {"text"}) = Gather(W, parts)
  BY <1>1, WhatsIs
<1>3. Maps(F, PartSet, AtomSet) /\ Maps(W, PartSet, AtomSet)
  <2>1. SaidSet \subseteq AtomSet
    BY Atomic
  <2>2. Seq(SaidSet) \subseteq Seq(AtomSet)
    BY <2>1, SeqLarger
  <2> QED
    BY <2>2, KindsMaps DEF Maps
<1>4. \A p \in UserSet : OfKind("text", F[p]) = W[p]
  <2> TAKE p \in UserSet
  <2>1. p \in PartSet /\ UserPart(p)
    BY DEF UserSet
  <2>2. p.what \in AtomSet
    BY <2>1, PartIs, Atomic
  <2>3. OfKind("text", <<p.what>>) = (IF p.what[1] = "text" THEN <<p.what>> ELSE <<>>)
        /\ OfKind("text", <<>>) = <<>>
    BY <2>2, OfKindOne
  <2>4. F[p] = (IF p.kind \in kinds THEN <<p.what>> ELSE <<>>)
        /\ W[p] = (IF p.kind = "text" THEN <<p.what>> ELSE <<>>)
    BY <2>1 DEF WhatsOf
  <2> HIDE DEF F, W
  <2>5. CASE p.kind = "text"
    BY <2>1, <2>3, <2>4, <2>5 DEF UserPart
  <2>6. CASE p.kind # "text"
    <3>1. p.kind \in kinds => p.what[1] = "result"
      BY <2>1, <2>6 DEF UserPart
    <3> QED
      BY <2>3, <2>4, <2>6, <3>1
  <2> QED
    BY <2>5, <2>6
<1> HIDE DEF F, W
<1> QED
  BY <1>2, <1>3, <1>4, UserSetIs, KindSaid

UrlOf == [p \in PartSet |-> ImageOut(p)]

\* The kinds of image that go out as they are.
Shown == IF Raw THEN {"image", "link"} ELSE {"image"}

LEMMA UrlIs ==
    ASSUME NEW p \in PartSet
    PROVE  /\ UrlOf[p] = ImageOut(p) /\ ImageOut(p) \in AtomSet
           /\ p.kind \in Shown => ImageOut(p) = p.what
           /\ p.kind \notin Shown => Raw \/ ImageOut(p)[1] = "garbled"
<1>1. p.what \in AtomSet
  BY PartIs, Atomic
<1>2. p.what[2] \in Nat /\ p.what[3] \in Nat
  BY <1>1, Atomic
<1> DEFINE g == Atom("garbled", p.what[2], p.what[3])
<1>3. g \in AtomSet /\ g[1] = "garbled"
  <2>1. "garbled" \in AtomKinds
    BY DEF AtomKinds
  <2> QED
    BY <1>2, <2>1, Atomic
<1>4. ImageOut(p) = IF Raw \/ p.kind = "image" THEN p.what ELSE g
  BY DEF ImageOut, ImageUrl, Atom
<1> HIDE DEF g
<1> QED
  BY <1>1, <1>3, <1>4 DEF UrlOf, Shown

\* The images of a user's parts, as they are sent.
LEMMA ImagesSaid ==
    ASSUME NEW parts \in Seq(UserSet), NEW kinds, Shown \subseteq kinds, kinds \subseteq {"image", "link"},
           NEW m, m.images = Kinds(parts, kinds)
    PROVE  /\ OfKind("image", Urls(m)) = Whats(parts, Shown)
           /\ OfKind("text", Urls(m)) = <<>>
<1> DEFINE F == EachOf(UrlOf, kinds)
           W == WhatsOf(Shown)
           N == WhatsOf({})
<1>1. parts \in Seq(PartSet)
  BY UserSetIs
<1>2. Urls(m) = Gather(F, parts)
  <2>1. Urls(m) = EachIn(UrlOf, Kinds(parts, kinds))
    <3> DEFINE x == Kinds(parts, kinds)
    <3>1. x \in Seq(PartSet)
      BY <1>1, KindsIs
    <3>2. m.images = x
      OBVIOUS
    <3> HIDE DEF x
    <3>3. \A i \in DOMAIN x : UrlOf[x[i]] = ImageOut(x[i])
      BY <3>1, SeqIs, UrlIs
    <3> QED
      BY <3>2, <3>3 DEF Urls, Each, EachIn, x
  <2>2. \A p \in PartSet : UrlOf[p] \in AtomSet
    BY UrlIs
  <2> QED
    BY <1>1, <2>1, <2>2, EachKind
<1>3. Whats(parts, Shown) = Gather(W, parts) /\ Whats(parts, {}) = Gather(N, parts)
  BY <1>1, WhatsIs
<1>4. Maps(F, PartSet, AtomSet) /\ Maps(W, PartSet, AtomSet) /\ Maps(N, PartSet, AtomSet)
  <2>1. Seq(SaidSet) \subseteq Seq(AtomSet)
    BY Atomic, SeqLarger
  <2>2. Maps(W, PartSet, AtomSet) /\ Maps(N, PartSet, AtomSet)
    BY <2>1, KindsMaps DEF Maps
  <2>3. \A p \in PartSet : <<UrlOf[p]>> \in Seq(AtomSet) /\ <<>> \in Seq(AtomSet)
    BY UrlIs, OneIs, NoneIs
  <2>4. Maps(F, PartSet, AtomSet)
    BY <2>3 DEF EachOf, Maps
  <2> QED
    BY <2>2, <2>4
<1>5. \A p \in UserSet : OfKind("image", F[p]) = W[p] /\ OfKind("text", F[p]) = N[p]
  <2> TAKE p \in UserSet
  <2> DEFINE w == ImageOut(p)
  <2>1. p \in PartSet /\ UserPart(p)
    BY DEF UserSet
  <2>2. w \in AtomSet /\ (p.kind \in Shown => w = p.what)
        /\ (p.kind \notin Shown => Raw \/ w[1] = "garbled") /\ UrlOf[p] = w
    BY <2>1, UrlIs
  <2>3. F[p] = (IF p.kind \in kinds THEN <<w>> ELSE <<>>)
        /\ W[p] = (IF p.kind \in Shown THEN <<p.what>> ELSE <<>>) /\ N[p] = <<>>
    BY <2>1, <2>2 DEF WhatsOf, EachOf
  <2> HIDE DEF w, F, W, N
  <2>4. OfKind("image", <<w>>) = (IF w[1] = "image" THEN <<w>> ELSE <<>>)
        /\ OfKind("image", <<>>) = <<>>
    BY <2>2, OfKindOne
  <2>5. OfKind("text", <<w>>) = (IF w[1] = "text" THEN <<w>> ELSE <<>>)
        /\ OfKind("text", <<>>) = <<>>
    BY <2>2, OfKindOne
  <2>6. CASE p.kind \in Shown
    <3>1. w = p.what /\ w[1] = "image" /\ p.kind \in kinds
      BY <2>1, <2>2, <2>6 DEF UserPart, Shown
    <3> QED
      BY <2>3, <2>4, <2>5, <2>6, <3>1
  <2>7. CASE p.kind \notin Shown
    <3>1. p.kind \in kinds => ~Raw
      BY <2>7 DEF Shown
    <3> QED
      BY <2>2, <2>3, <2>4, <2>5, <2>7, <3>1
  <2> QED
    BY <2>6, <2>7
<1> HIDE DEF F, W, N
<1>6. OfKind("image", Gather(F, parts)) = Gather(W, parts)
  BY <1>4, <1>5, UserSetIs, KindSaid
<1>7. OfKind("text", Gather(F, parts)) = Gather(N, parts)
  BY <1>4, <1>5, UserSetIs, KindSaid
<1>8. Whats(parts, {}) = <<>>
  BY <1>1, KindsNone
<1> QED
  BY <1>2, <1>3, <1>6, <1>7, <1>8

\* What is sent of a user's parts where a body is built is their text, and their
\* images unless there is one and nothing else.
LEMMA UserBuilt ==
    ASSUME ~Raw, NEW parts \in Seq(UserSet), ImagesTold(parts),
           NEW texts, "text" \in texts, texts \subseteq {"text", "tool_result"},
           NEW images, "image" \in images, images \subseteq {"image", "link"},
           NEW m \in MessageSet, m.text = Whats(parts, texts), m.images = Kinds(parts, images)
    PROVE  /\ OfKind("text", Ready(m).text) = Whats(parts, {"text"})
           /\ OfKind("image", Ready(m).images)
                 = IF Len(parts) = 1 THEN <<>> ELSE Whats(parts, {"image"})
<1> DEFINE w == Whats(parts, {"image"})
           t == Whats(parts, texts)
<1>1. /\ Ready(m).text = IF Alone(m) THEN Urls(m) ELSE m.text
      /\ Ready(m).images = IF Alone(m) THEN <<>> ELSE Urls(m)
  BY ReadyIs DEF MessageSet
<1>2. OfKind("text", t) = Whats(parts, {"text"})
  BY TextSaid
<1>3. OfKind("image", Urls(m)) = w /\ OfKind("text", Urls(m)) = <<>>
  <2>1. Shown = {"image"} /\ Shown \subseteq images
    BY DEF Shown
  <2> QED
    BY <2>1, ImagesSaid
<1>4. OfKind("text", <<>>) = <<>> /\ OfKind("image", <<>>) = <<>>
  BY Atomic, OfKindOne
<1>5. parts \in Seq(PartSet)
  BY UserSetIs
<1>6. Alone(m) <=> (Len(Kinds(parts, images)) = 1 /\ t = <<>>)
  BY DEF Alone
<1> HIDE DEF w, t
<1>7. OfKind("text", Ready(m).text) = Whats(parts, {"text"})
  <2>1. CASE Alone(m)
    BY <1>1, <1>2, <1>3, <1>4, <1>6, <2>1
  <2>2. CASE ~Alone(m)
    BY <1>1, <1>2, <2>2 DEF t
  <2> QED
    BY <2>1, <2>2
<1>8. OfKind("image", Ready(m).images) = IF Alone(m) THEN <<>> ELSE w
  BY <1>1, <1>3, <1>4
<1>9. CASE Len(parts) = 1
  <2> DEFINE p == parts[1]
  <2>1. parts = <<p>> /\ p \in PartSet
    <3>1. 1 \in 1 .. Len(parts)
      BY <1>9
    <3>2. p \in PartSet
      BY <1>5, <3>1, SeqIs
    <3>3. \A i \in 1 .. Len(parts) : i = 1
      BY <1>9
    <3> DEFINE o == <<p>>
    <3>4. o \in Seq(PartSet) /\ Len(o) = 1 /\ o[1] = p
      BY <3>2, OneIs
    <3> HIDE DEF o
    <3>5. Len(parts) = Len(o) /\ \A i \in 1 .. Len(parts) : parts[i] = o[i]
      BY <1>9, <3>3, <3>4
    <3>6. parts = o
      BY <1>5, <3>4, <3>5, SameSeq
    <3> QED
      BY <3>2, <3>6 DEF o
  <2> HIDE DEF p
  <2>2. /\ Kinds(<<p>>, images) = IF p.kind \in images THEN <<p>> ELSE <<>>
        /\ Whats(<<p>>, texts) = IF p.kind \in texts THEN <<p.what>> ELSE <<>>
        /\ Whats(<<p>>, {"image"}) = IF p.kind = "image" THEN <<p.what>> ELSE <<>>
    BY <2>1, KindsOne
  <2>3. CASE p.kind = "image"
    <3>1. Kinds(parts, images) = <<p>> /\ t = <<>>
      BY <2>1, <2>2, <2>3 DEF t
    <3>2. Len(<<p>>) = 1
      OBVIOUS
    <3>3. Alone(m)
      BY <1>6, <3>1, <3>2
    <3> QED
      BY <1>7, <1>8, <1>9, <3>3
  <2>4. CASE p.kind # "image"
    <3>1. w = <<>>
      BY <2>1, <2>2, <2>4 DEF w
    <3> QED
      BY <1>7, <1>8, <1>9, <3>1
  <2> QED
    BY <2>3, <2>4
<1>10. CASE Len(parts) # 1
  <2>1. ASSUME NEW i \in 1 .. Len(parts), parts[i].kind = "text" PROVE ~Alone(m)
    <3>1. Maps(WhatsOf(texts), PartSet, SaidSet) /\ t = Gather(WhatsOf(texts), parts)
      BY <1>5, KindsMaps, WhatsIs DEF t
    <3>2. t = <<>> => WhatsOf(texts)[parts[i]] = <<>>
      <4> DEFINE G == WhatsOf(texts)
      <4>1. Maps(G, PartSet, SaidSet) /\ t = Gather(G, parts)
        BY <3>1
      <4> HIDE DEF G
      <4>2. Gather(G, parts) = <<>> => \A j \in 1 .. Len(parts) : G[parts[j]] = <<>>
        BY <1>5, <4>1, GatherSome
      <4> QED
        BY <4>1, <4>2 DEF G
    <3>3. WhatsOf(texts)[parts[i]] = <<parts[i].what>>
      BY <1>5, <2>1, SeqIs DEF WhatsOf
    <3>4. <<parts[i].what>> # <<>>
      OBVIOUS
    <3> QED
      BY <1>6, <3>2, <3>3, <3>4
  <2>2. ASSUME TwoImages(parts) PROVE ~Alone(m)
    <3>1. Len(parts) = 2 /\ \A i \in 1 .. Len(parts) : parts[i].kind \in images
      BY <2>2 DEF TwoImages
    <3>2. Kinds(parts, images) = parts
      BY <1>5, <3>1, KindsAll
    <3> QED
      BY <1>6, <3>1, <3>2
  <2>3. ASSUME \A i \in 1 .. Len(parts) : parts[i].kind \notin {"image", "link"} PROVE w = <<>>
    BY <1>5, <2>3, KindsNone DEF w
  <2>4. Alone(m) => w = <<>>
    BY <1>10, <2>1, <2>2, <2>3 DEF ImagesTold
  <2> QED
    BY <1>7, <1>8, <1>10, <2>4 DEF w
<1> QED
  BY <1>9, <1>10

\* The images of a user's parts that are to arrive.
Pictures(parts) ==
    IF Raw THEN Whats(parts, {"image", "link"})
    ELSE IF Len(parts) = 1 THEN <<>>
    ELSE Whats(parts, {"image"})

LEMMA UserShown ==
    ASSUME NEW parts \in Seq(UserSet), ImagesTold(parts),
           NEW texts, "text" \in texts, texts \subseteq {"text", "tool_result"},
           NEW images, Shown \subseteq images, images \subseteq {"image", "link"},
           NEW m \in MessageSet, m.text = Whats(parts, texts), m.images = Kinds(parts, images)
    PROVE  /\ OfKind("text", Ready(m).text) = Whats(parts, {"text"})
           /\ OfKind("image", Ready(m).images) = Pictures(parts)
<1>1. CASE Raw
  <2>1. /\ Ready(m).text = IF Alone(m) THEN Urls(m) ELSE m.text
        /\ Ready(m).images = IF Alone(m) THEN <<>> ELSE Urls(m)
    BY ReadyIs DEF MessageSet
  <2>2. ~Alone(m)
    BY <1>1 DEF Alone
  <2>3. OfKind("text", Whats(parts, texts)) = Whats(parts, {"text"})
    BY TextSaid
  <2>4. OfKind("image", Urls(m)) = Whats(parts, Shown)
    BY ImagesSaid
  <2>5. Pictures(parts) = Whats(parts, Shown)
    BY <1>1 DEF Pictures, Shown
  <2> QED
    BY <2>1, <2>2, <2>3, <2>4, <2>5
<1>2. CASE ~Raw
  <2>1. "image" \in images
    BY <1>2 DEF Shown
  <2>2. /\ OfKind("text", Ready(m).text) = Whats(parts, {"text"})
        /\ OfKind("image", Ready(m).images)
              = IF Len(parts) = 1 THEN <<>> ELSE Whats(parts, {"image"})
    BY <1>2, <2>1, UserBuilt
  <2> QED
    BY <1>2, <2>2 DEF Pictures
<1> QED
  BY <1>1, <1>2

TextOut == [m \in OutSet |-> OfKind("text", m.text)]
ImagesOut == [m \in OutSet |-> OfKind("image", m.images)]
TextsIn(protocol) == [e \in EntrySet(protocol) |-> Whats(e.parts, {"text"})]
ImagesIn(protocol) == [e \in EntrySet(protocol) |-> Pictures(e.parts)]

LEMMA KeptMaps ==
    ASSUME NEW protocol
    PROVE  /\ Maps(TextOut, OutSet, AtomSet) /\ Maps(ImagesOut, OutSet, AtomSet)
           /\ Maps(TextsIn(protocol), EntrySet(protocol), AtomSet)
           /\ Maps(ImagesIn(protocol), EntrySet(protocol), AtomSet)
<1>1. \A m \in OutSet : OfKind("text", m.text) \in Seq(AtomSet) /\ OfKind("image", m.images) \in Seq(AtomSet)
  BY OutIs, OfKindIs
<1>2. Seq(SaidSet) \subseteq Seq(AtomSet)
  BY Atomic, SeqLarger
<1>3. \A e \in EntrySet(protocol) :
         Whats(e.parts, {"text"}) \in Seq(AtomSet) /\ Pictures(e.parts) \in Seq(AtomSet)
  <2>1. \A e \in EntrySet(protocol) : \A kinds : Whats(e.parts, kinds) \in Seq(AtomSet)
    BY <1>2, EntryIs, WhatsIs
  <2>2. <<>> \in Seq(AtomSet)
    BY NoneIs
  <2> QED
    BY <2>1, <2>2 DEF Pictures
<1>4. Maps(TextOut, OutSet, AtomSet) /\ Maps(ImagesOut, OutSet, AtomSet)
  BY <1>1 DEF Maps, TextOut, ImagesOut
<1>5. Maps(TextsIn(protocol), EntrySet(protocol), AtomSet)
  BY <1>3 DEF Maps, TextsIn
<1>6. Maps(ImagesIn(protocol), EntrySet(protocol), AtomSet)
  BY <1>3 DEF Maps, ImagesIn
<1> QED
  BY <1>4, <1>5, <1>6

\* Nothing is dropped that has text or images.
LEMMA DroppedIs ==
    ASSUME NEW protocol \in Protocols, NEW e \in EntrySet(protocol), Dropped(protocol, e)
    PROVE  /\ Whats(e.parts, {"text"}) = <<>> /\ Whats(e.parts, {"image"}) = <<>>
           /\ \E i \in 1 .. Len(e.parts) : e.parts[i].kind = "tool_result"
<1> DEFINE parts == e.parts
<1>1. parts \in Seq(PartSet)
  BY EntryIs
<1>2. Kinds(parts, RestKinds) = <<>> /\ Kinds(parts, {"tool_result"}) # <<>>
  <2>1. RestOf(e) = <<>>
    BY DEF Dropped
  <2>2. <<MadeAnthropic(e)>> # <<>>
    OBVIOUS
  <2> QED
    BY <2>1, <2>2 DEF RestOf
<1> HIDE DEF parts
<1>3. /\ Whats(Kinds(parts, RestKinds), {"text"}) = Whats(parts, {"text"})
      /\ Whats(Kinds(parts, RestKinds), {"image"}) = Whats(parts, {"image"})
  BY <1>1, WhatsTwice DEF RestKinds
<1>4. Whats(<<>>, {"text"}) = <<>> /\ Whats(<<>>, {"image"}) = <<>>
  <2>1. <<>> \in Seq(PartSet) /\ Len(<<>>) = 0
    BY NoneIs
  <2>2. \A i \in 1 .. 0 : FALSE
    OBVIOUS
  <2> DEFINE x == <<>>
  <2>3. x \in Seq(PartSet) /\ (\A i \in 1 .. Len(x) : x[i].kind \notin {"text"})
        /\ \A i \in 1 .. Len(x) : x[i].kind \notin {"image"}
    BY <2>1, <2>2
  <2> HIDE DEF x
  <2>4. Whats(x, {"text"}) = <<>> /\ Whats(x, {"image"}) = <<>>
    BY <2>3, KindsNone
  <2> QED
    BY <2>4 DEF x
<1>5. \E i \in 1 .. Len(parts) : parts[i].kind = "tool_result"
  <2>1. (\A i \in 1 .. Len(parts) : parts[i].kind \notin {"tool_result"}) => Kinds(parts, {"tool_result"}) = <<>>
    BY <1>1, KindsNone
  <2> QED
    BY <1>2, <2>1
<1> QED
  BY <1>2, <1>3, <1>4, <1>5 DEF parts

\* Of what a user says, the text and the images come through.
LEMMA UserKept ==
    ASSUME NEW protocol \in Protocols, NEW e \in EntrySet(protocol),
           Raw => protocol = "openai"
    PROVE  /\ Voice(TextOut, "user", protocol)[e]
                 = Within(TextsIn(protocol), "user", EntrySet(protocol))[e]
           /\ protocol # "responses" =>
                 Voice(ImagesOut, "user", protocol)[e]
                    = Within(ImagesIn(protocol), "user", EntrySet(protocol))[e]
<1> DEFINE m == Made(protocol, e)
           parts == e.parts
           w == Pictures(parts)
           x == Whats(parts, {"text"})
           V == Voice(TextOut, "user", protocol)[e]
           Y == Voice(ImagesOut, "user", protocol)[e]
           R == Within(TextsIn(protocol), "user", EntrySet(protocol))[e]
           Z == Within(ImagesIn(protocol), "user", EntrySet(protocol))[e]
<1>1. m \in MessageSet
  BY MadeIs
<1>2. Ready(m) \in OutSet
  BY <1>1, ReadyIs DEF MessageSet
<1>3. /\ V = (IF e.role = "user" /\ ~Dropped(protocol, e) THEN OfKind("text", Ready(m).text) ELSE <<>>)
      /\ Y = (IF e.role = "user" /\ ~Dropped(protocol, e) THEN OfKind("image", Ready(m).images) ELSE <<>>)
  <2>1. TextOut[Ready(m)] = OfKind("text", Ready(m).text) /\ ImagesOut[Ready(m)] = OfKind("image", Ready(m).images)
    BY <1>2 DEF TextOut, ImagesOut
  <2> QED
    BY <2>1 DEF Voice
<1>4. R = (IF e.role = "user" THEN x ELSE <<>>) /\ Z = (IF e.role = "user" THEN w ELSE <<>>)
  BY DEF Within, TextsIn, ImagesIn
<1>5. CASE e.role # "user"
  <2> HIDE DEF V, Y, R, Z
  <2>1. V = R /\ Y = Z
    BY <1>3, <1>4, <1>5
  <2> QED
    BY <2>1 DEF V, Y, R, Z
<1>6. CASE e.role = "user" /\ Dropped(protocol, e)
  <2>1. x = <<>> /\ w = <<>>
    BY <1>6, DroppedIs DEF Dropped, Pictures
  <2> HIDE DEF V, Y, R, Z, x, w
  <2>2. V = R /\ Y = Z
    BY <1>3, <1>4, <1>6, <2>1
  <2> QED
    BY <2>2 DEF V, Y, R, Z
<1>7. CASE e.role = "user" /\ ~Dropped(protocol, e)
  <2>1. parts \in Seq(UserSet) /\ ImagesTold(parts)
    BY <1>7, UserIs
  <2>2. CASE protocol \in {"openai", "anthropic"}
    <3> DEFINE texts == IF protocol = "openai" THEN {"text", "tool_result"} ELSE {"text"}
               images == IF protocol = "openai" THEN {"image", "link"} ELSE {"image"}
    <3>1. m.text = Whats(parts, texts) /\ m.images = Kinds(parts, images)
      BY <2>2 DEF Made, MadeOpenAI, MadeAnthropic, Message
    <3>2. /\ "text" \in texts /\ texts \subseteq {"text", "tool_result"}
          /\ Shown \subseteq images /\ images \subseteq {"image", "link"}
      BY DEF Shown
    <3> HIDE DEF texts, images, m, parts
    <3>3. OfKind("text", Ready(m).text) = x /\ OfKind("image", Ready(m).images) = w
      BY <1>1, <2>1, <3>1, <3>2, UserShown
    <3> HIDE DEF V, Y, R, Z, x, w
    <3>4. V = R /\ Y = Z
      BY <1>3, <1>4, <1>7, <3>3
    <3> QED
      BY <3>4 DEF V, Y, R, Z
  <2>3. CASE protocol = "responses"
    <3>1. m.text = x /\ m.images = <<>>
      BY <2>3 DEF Made, Says, Message
    <3>2. Len(<<>>) # 1
      OBVIOUS
    <3> HIDE DEF m
    <3>3. Ready(m).text = m.text
      <4>1. ~Alone(m)
        BY <3>1, <3>2 DEF Alone
      <4> QED
        BY <1>1, <4>1, ReadyIs DEF MessageSet
    <3>4. OfKind("text", x) = x
      <4> HIDE DEF parts
      <4> QED
        BY <2>1, TextSaid
    <3> HIDE DEF V, Y, R, Z, x, w
    <3>5. V = R
      BY <1>3, <1>4, <1>7, <3>1, <3>3, <3>4
    <3> QED
      BY <2>3, <3>5 DEF V, R
  <2> QED
    BY <2>2, <2>3 DEF Protocols
<1> QED
  BY <1>5, <1>6, <1>7

\* The parts of QuestionsKept.
TextsOf(ms) == All(LAMBDA m : OfKind("text", m.text), ms)
ImagesOf(ms) == All(LAMBDA m : OfKind("image", m.images), ms)
TextsAsked(es) == All(LAMBDA e : Whats(e.parts, {"text"}), es)
ImagesAsked(es) == All(LAMBDA e : Pictures(e.parts), es)

LEMMA SentKept ==
    ASSUME NEW ms \in Seq(OutSet)
    PROVE  TextsOf(ms) = Gather(TextOut, ms) /\ ImagesOf(ms) = Gather(ImagesOut, ms)
<1>1. DOMAIN ms = 1 .. Len(ms) /\ \A i \in DOMAIN ms : ms[i] \in OutSet
  BY SeqIs
<1> DEFINE a == Each(LAMBDA m : OfKind("text", m.text), ms)
           b == Each(LAMBDA m : OfKind("image", m.images), ms)
<1>2. TextsOf(ms) = Flat(a, Len(ms)) /\ ImagesOf(ms) = Flat(b, Len(ms))
  BY DEF TextsOf, ImagesOf, All, Each
<1>3. a = Lots(TextOut, ms)
  <2>1. \A i \in DOMAIN ms : TextOut[ms[i]] = OfKind("text", ms[i].text)
    BY <1>1 DEF TextOut
  <2> QED
    BY <2>1 DEF Each, Lots
<1>4. b = Lots(ImagesOut, ms)
  <2>1. \A i \in DOMAIN ms : ImagesOut[ms[i]] = OfKind("image", ms[i].images)
    BY <1>1 DEF ImagesOut
  <2> QED
    BY <2>1 DEF Each, Lots
<1> HIDE DEF a, b
<1> QED
  BY <1>2, <1>3, <1>4, Zenon DEF Gather

LEMMA AskedKept ==
    ASSUME NEW protocol, NEW es \in Seq(EntrySet(protocol))
    PROVE  /\ TextsAsked(es) = Gather(TextsIn(protocol), es)
           /\ ImagesAsked(es) = Gather(ImagesIn(protocol), es)
<1> DEFINE E == EntrySet(protocol)
           T == TextsIn(protocol)
           I == ImagesIn(protocol)
<1>1. DOMAIN es = 1 .. Len(es) /\ \A i \in DOMAIN es : es[i] \in E
  <2>1. es \in Seq(E)
    OBVIOUS
  <2> HIDE DEF E
  <2> QED
    BY <2>1, SeqIs
<1> DEFINE a == Each(LAMBDA e : Whats(e.parts, {"text"}), es)
           b == Each(LAMBDA e : Pictures(e.parts), es)
<1>2. TextsAsked(es) = Flat(a, Len(es)) /\ ImagesAsked(es) = Flat(b, Len(es))
  BY DEF TextsAsked, ImagesAsked, All, Each
<1>3. a = Lots(T, es)
  <2>1. \A i \in DOMAIN es : T[es[i]] = Whats(es[i].parts, {"text"})
    BY <1>1 DEF TextsIn
  <2> HIDE DEF T
  <2> QED
    BY <2>1 DEF Each, Lots
<1>4. b = Lots(I, es)
  <2>1. \A i \in DOMAIN es : I[es[i]] = Pictures(es[i].parts)
    BY <1>1 DEF ImagesIn
  <2> HIDE DEF I
  <2> QED
    BY <2>1 DEF Each, Lots
<1> HIDE DEF a, b, T, I
<1>5. TextsAsked(es) = Gather(T, es) /\ ImagesAsked(es) = Gather(I, es)
  BY <1>2, <1>3, <1>4, Zenon DEF Gather
<1> QED
  BY <1>5 DEF T, I

LEMMA QuestionsKeptHolds ==
    ASSUME KnownInv
    PROVE  QuestionsKept
<1> DEFINE p == client.protocol
           E == EntrySet(p)
           asked == WithRole("user", history)
           T == TextsIn(p)
           I == ImagesIn(p)
           V == Voice(TextOut, "user", p)
           Y == Voice(ImagesOut, "user", p)
           R == Within(T, "user", E)
           Z == Within(I, "user", E)
<1>1. SUFFICES ASSUME turn = "upstream"
               PROVE  /\ TextsOf(Of("user")) = TextsAsked(asked)
                      /\ p # "responses" => ImagesOf(Of("user")) = ImagesAsked(asked)
  BY DEF QuestionsKept, TextsOf, ImagesOf, TextsAsked, ImagesAsked, Pictures, WithRole
<1>2. p \in Protocols /\ history \in Seq(E)
  BY DEF KnownInv
<1>3. Maps(TextOut, OutSet, AtomSet) /\ Maps(ImagesOut, OutSet, AtomSet)
      /\ Maps(T, E, AtomSet) /\ Maps(I, E, AtomSet)
  BY KeptMaps
<1>4. /\ Of("user") \in Seq(OutSet)
      /\ Maps(V, E, AtomSet)
      /\ Gather(TextOut, Of("user")) = Gather(V, history)
  BY <1>1, <1>3, RolePipe
<1>5. /\ Maps(Y, E, AtomSet)
      /\ Gather(ImagesOut, Of("user")) = Gather(Y, history)
  BY <1>1, <1>3, RolePipe
<1>6. TextsOf(Of("user")) = Gather(V, history) /\ ImagesOf(Of("user")) = Gather(Y, history)
  BY <1>4, <1>5, SentKept, Zenon
<1>7. \A e \in E : V[e] = R[e] /\ (p # "responses" => Y[e] = Z[e])
  <2>1. Raw => p = "openai"
    BY DEF Raw
  <2> QED
    BY <1>2, <2>1, UserKept
<1> HIDE DEF E
<1>8. asked = Gather(OfRole("user", E), history) /\ asked \in Seq(E)
  BY <1>2, OnlyRole
<1> HIDE DEF asked, T, I
<1>9. Maps(R, E, AtomSet) /\ Gather(T, Gather(OfRole("user", E), history)) = Gather(R, history)
  BY <1>2, <1>3, WithinIs
<1>10. Maps(Z, E, AtomSet) /\ Gather(I, Gather(OfRole("user", E), history)) = Gather(Z, history)
  BY <1>2, <1>3, WithinIs
<1>11. TextsAsked(asked) = Gather(T, asked) /\ ImagesAsked(asked) = Gather(I, asked)
  BY <1>8, AskedKept DEF E, T, I
<1> HIDE DEF V, Y, R, Z
<1>12. Gather(V, history) = Gather(R, history)
  BY <1>2, <1>7, <1>9, GatherAgree
<1>13. p # "responses" => Gather(Y, history) = Gather(Z, history)
  <2> SUFFICES ASSUME p # "responses" PROVE Gather(Y, history) = Gather(Z, history)
    OBVIOUS
  <2>1. \A e \in E : Y[e] = Z[e]
    BY <1>7
  <2> QED
    BY <1>2, <1>10, <2>1, GatherAgree
<1> QED
  BY <1>6, <1>8, <1>9, <1>10, <1>11, <1>12, <1>13, Zenon

\* What the user said reaches the upstream, all of it and in order, every time,
\* however long the conversation.
THEOREM QuestionsAlwaysKept == Spec => []QuestionsKept
<1>1. Init => KnownInv
  BY KnownInit
<1>2. KnownInv /\ [Next]_vars => KnownInv'
  BY KnownStep
<1>3. KnownInv => QuestionsKept
  BY QuestionsKeptHolds
<1> QED
  BY <1>1, <1>2, <1>3, PTL DEF Spec

-----------------------------------------------------------------------------
(* The answers come back.                                                  *)

\* Entries that are not answers.
QuietSet(protocol) == {e \in EntrySet(protocol) : e.role # "assistant"}

LEMMA SendsQuiet ==
    ASSUME KnownInv, Ask \/ AnswerCalls
    PROVE  \E entries \in Seq(QuietSet(client.protocol)) : Send(entries)
<1> DEFINE E == EntrySet(client.protocol)
           Q == QuietSet(client.protocol)
<1>0. client.protocol \in Protocols
  BY DEF KnownInv
<1>1. CASE Ask
  <2>1. PICK entries \in Seq(AskedSet) : Send(entries)
    BY <1>1, AskIs
  <2>2. AskedSet \subseteq Q
    <3>1. \A e \in AskedSet : e.role # "assistant"
      BY DEF AskedSet, SystemShape, AskShape
    <3> QED
      BY <3>1, AskedTyped DEF QuietSet
  <2> HIDE DEF Q
  <2>3. entries \in Seq(Q)
    BY <2>2, SeqLarger
  <2> QED
    BY <2>1, <2>3 DEF Q
<1>2. CASE AnswerCalls
  <2>1. CASE client.protocol = "openai"
    <3>1. ToolEntries \in Seq(E) /\ Len(ToolEntries) = Len(OpenCalls)
          /\ \A i \in 1 .. Len(OpenCalls) : ToolEntries[i].role = "tool"
      BY <1>2, <2>1, ToolEntriesAre
    <3> DEFINE t == ToolEntries
    <3>2. DOMAIN t = 1 .. Len(t) /\ \A i \in 1 .. Len(t) : t[i] \in Q
      <4> HIDE DEF t
      <4>1. t \in Seq(E) /\ \A i \in 1 .. Len(t) : t[i].role = "tool"
        BY <3>1 DEF t
      <4> DEFINE F == E
      <4>2. t \in Seq(F)
        BY <4>1
      <4> HIDE DEF F
      <4>3. DOMAIN t = 1 .. Len(t) /\ \A i \in 1 .. Len(t) : t[i] \in F
        BY <4>2, SeqIs
      <4> QED
        BY <4>1, <4>3 DEF QuietSet, F
    <3>3. t \in Seq(Q)
      <4> HIDE DEF t, Q
      <4>1. t \in Seq(E)
        BY <3>1 DEF t
      <4> HIDE DEF E
      <4> QED
        BY <3>2, <4>1
    <3> QED
      BY <1>2, <2>1, <3>3, AnswerCallsIs
  <2>2. CASE client.protocol = "responses"
    <3>1. NoRoleEntries \in Seq(E) /\ Len(NoRoleEntries) = Len(OpenCalls)
          /\ \A i \in 1 .. Len(OpenCalls) : NoRoleEntries[i].role = ""
      BY <1>2, <2>2, ToolEntriesAre
    <3> DEFINE t == NoRoleEntries
    <3>2. DOMAIN t = 1 .. Len(t) /\ \A i \in 1 .. Len(t) : t[i] \in Q
      <4> HIDE DEF t
      <4>1. t \in Seq(E) /\ \A i \in 1 .. Len(t) : t[i].role # "assistant"
        BY <3>1 DEF t
      <4> DEFINE F == E
      <4>2. t \in Seq(F)
        BY <4>1
      <4> HIDE DEF F
      <4>3. DOMAIN t = 1 .. Len(t) /\ \A i \in 1 .. Len(t) : t[i] \in F
        BY <4>2, SeqIs
      <4> QED
        BY <4>1, <4>3 DEF QuietSet, F
    <3>3. t \in Seq(Q)
      <4> HIDE DEF t, Q
      <4>1. t \in Seq(E)
        BY <3>1 DEF t
      <4> HIDE DEF E
      <4> QED
        BY <3>2, <4>1
    <3> QED
      BY <1>2, <2>2, <3>3, AnswerCallsIs
  <2>3. CASE client.protocol = "anthropic"
    <3>1. PICK parts \in ResultParts, system \in {<<>>, <<SystemEntry>>} :
              Send(system \o <<Entry("user", parts)>>)
      BY <1>2, <2>3, AnswerCallsIs
    <3> DEFINE e == Entry("user", parts)
    <3>2. e \in Q
      BY <2>3, ResultsShapeIs DEF EntrySet, RawSet, QuietSet
    <3>3. SystemEntry \in Q
      BY SystemEntryIs, AskedTyped DEF QuietSet, SystemShape
    <3> HIDE DEF e, Q
    <3>4. system \in Seq(Q)
      BY <3>3, OneIs, NoneIs
    <3>5. <<e>> \in Seq(Q)
      BY <3>2
    <3>6. system \o <<e>> \in Seq(Q)
      BY <3>4, <3>5
    <3> QED
      BY <3>1, <3>6, Zenon DEF e, Q
  <2> QED
    BY <1>0, <2>1, <2>2, <2>3 DEF Protocols
<1> QED
  BY <1>1, <1>2

\* The answers in a history, and for a Responses client their text.
Replies(protocol, entries) == Gather(OfRole("assistant", EntrySet(protocol)), entries)
TextVoice(protocol) == Voice(TextOut, "assistant", protocol)
AnswerText == [a \in AnswerSet |-> OfKind("text", a.text)]

\* The parts of the i-th answer as the client heard it.
HeardAt(i) == PartsHeard(Heard(answers[i]))

\* The history has just the answers that were given.
BackInv ==
    IF client.protocol = "responses"
    THEN Gather(TextVoice(client.protocol), history) = Gather(AnswerText, answers)
    ELSE /\ Len(Replies(client.protocol, history)) = Len(answers)
         /\ \A i \in 1 .. Len(answers) :
               Replies(client.protocol, history)[i].parts = HeardAt(i)

LEMMA BackInit ==
    ASSUME Init
    PROVE  BackInv
<1>1. history = <<>> /\ answers = <<>>
  BY DEF Init
<1>2. Len(<<>>) = 0
  OBVIOUS
<1>3. Replies(client.protocol, <<>>) = <<>>
  BY GatherNone DEF Replies
<1>4. \A i \in 1 .. 0 : FALSE
  OBVIOUS
<1>5. \A i \in 1 .. Len(answers) : FALSE
  BY <1>1, <1>2, <1>4
<1>6. Gather(TextVoice(client.protocol), <<>>) = <<>> /\ Gather(AnswerText, <<>>) = <<>>
  BY GatherNone
<1>7. Len(Replies(client.protocol, history)) = Len(answers)
  BY <1>1, <1>3
<1>8. Gather(TextVoice(client.protocol), history) = Gather(AnswerText, answers)
  BY <1>1, <1>6
<1> QED
  BY <1>5, <1>7, <1>8, Zenon DEF BackInv

\* How an answer is heard depends on nothing that changes.
LEMMA HeardSameNext ==
    ASSUME UNCHANGED <<client, upstream>>, NEW i
    PROVE  HeardAt(i)' = PartsHeard(Heard(answers'[i]))
<1>1. client' = client /\ upstream' = upstream
  OBVIOUS
<1> DEFINE b == Heard(answers[i])
           c == Heard(answers'[i])
<1>2. b' = c
  BY <1>1, Zenon DEF Heard, Streamed
<1>3. CallParts(b)' = CallParts(c)
  <2>1. \A j : IdFor(b, j)' = IdFor(c, j)
    <3> HIDE DEF b, c
    <3> QED
      BY <1>1, <1>2 DEF IdFor
  <2> QED
    BY <1>2, <2>1, Zenon DEF CallParts
<1>4. PartsOf("thinking", b.reasoning)' = PartsOf("thinking", c.reasoning)
      /\ PartsOf("text", b.text)' = PartsOf("text", c.text)
  BY <1>2, Zenon
<1> QED
  BY <1>3, <1>4, Zenon DEF PartsHeard, HeardAt

LEMMA HeardSame ==
    ASSUME UNCHANGED <<client, upstream, answers>>, NEW i
    PROVE  HeardAt(i)' = HeardAt(i)
<1>1. UNCHANGED <<client, upstream>> /\ answers' = answers
  OBVIOUS
<1>2. HeardAt(i)' = PartsHeard(Heard(answers'[i]))
  BY <1>1, HeardSameNext
<1> QED
  BY <1>1, <1>2, Zenon DEF HeardAt

LEMMA BackMaps ==
    ASSUME NEW protocol \in Protocols
    PROVE  /\ Maps(OfRole("assistant", EntrySet(protocol)), EntrySet(protocol), EntrySet(protocol))
           /\ Maps(TextVoice(protocol), EntrySet(protocol), AtomSet)
           /\ Maps(AnswerText, AnswerSet, AtomSet)
<1>1. Maps(OfRole("assistant", EntrySet(protocol)), EntrySet(protocol), EntrySet(protocol))
  <2> DEFINE E == EntrySet(protocol)
  <2>1. <<>> \in Seq(E)
    BY NoneIs
  <2> HIDE DEF E
  <2>2. Maps(OfRole("assistant", E), E, E)
    BY <2>1, OnlyRole
  <2> QED
    BY <2>2 DEF E
<1>2. Maps(TextVoice(protocol), EntrySet(protocol), AtomSet)
  BY KeptMaps, VoiceIs DEF TextVoice
<1>3. Maps(AnswerText, AnswerSet, AtomSet)
  <2>1. Seq(SaidSet) \subseteq Seq(AtomSet)
    BY Atomic, SeqLarger
  <2>2. \A a \in AnswerSet : OfKind("text", a.text) \in Seq(AtomSet)
    BY <2>1, AnswerIs, OfKindIs
  <2> QED
    BY <2>2 DEF Maps, AnswerText
<1> QED
  BY <1>1, <1>2, <1>3

\* What is not an answer adds nothing to them.
LEMMA QuietAdds ==
    ASSUME NEW protocol \in Protocols, NEW entries \in Seq(EntrySet(protocol)),
           NEW more \in Seq(QuietSet(protocol))
    PROVE  /\ Replies(protocol, entries \o more) = Replies(protocol, entries)
           /\ Gather(TextVoice(protocol), entries \o more) = Gather(TextVoice(protocol), entries)
<1> DEFINE E == EntrySet(protocol)
           R == OfRole("assistant", E)
           V == TextVoice(protocol)
<1>1. more \in Seq(E)
  BY SeqLarger DEF QuietSet
<1>2. Maps(R, E, E) /\ Maps(V, E, AtomSet)
  BY BackMaps
<1>3. \A e \in QuietSet(protocol) : R[e] = <<>> /\ V[e] = <<>>
  BY DEF QuietSet, OfRole, TextVoice, Voice
<1>4. \A i \in 1 .. Len(more) : R[more[i]] = <<>> /\ V[more[i]] = <<>>
  BY <1>3, SeqIs
<1>5. entries \in Seq(E)
  OBVIOUS
<1> HIDE DEF E, R, V
<1>6. Gather(R, more) = <<>>
  BY <1>1, <1>2, <1>4, GatherEmpty
<1>7. Gather(V, more) = <<>>
  BY <1>1, <1>2, <1>4, GatherEmpty
<1>8. Gather(R, entries \o more) = Gather(R, entries) \o Gather(R, more)
  BY <1>1, <1>2, <1>5, GatherJoined
<1>9. Gather(V, entries \o more) = Gather(V, entries) \o Gather(V, more)
  BY <1>1, <1>2, <1>5, GatherJoined
<1>10. Gather(R, entries) \in Seq(E) /\ Gather(V, entries) \in Seq(AtomSet)
  BY <1>2, <1>5, GatherTyped
<1>11. Gather(R, entries) \o <<>> = Gather(R, entries)
  BY <1>10, JoinedNone
<1>12. Gather(V, entries) \o <<>> = Gather(V, entries)
  BY <1>10, JoinedNone
<1>13. Gather(R, entries \o more) = Gather(R, entries) /\ Gather(V, entries \o more) = Gather(V, entries)
  BY <1>6, <1>7, <1>8, <1>9, <1>11, <1>12
<1>14. Replies(protocol, entries \o more) = Gather(R, entries \o more)
       /\ Replies(protocol, entries) = Gather(R, entries)
  BY DEF Replies, R, E
<1> QED
  BY <1>13, <1>14 DEF V

\* What a Responses client keeps of an answer gives its text.
LEMMA HeardText ==
    ASSUME NEW r \in Nat, NEW a \in AnswerSet, AnswerAt(r, a, upstream.ids, ByWords)
    PROVE  OfKind("text", Heard(a).text) = OfKind("text", a.text)
<1>1. CASE Heard(a) = a
  BY <1>1
<1>2. CASE /\ upstream.emulated /\ a.text # <<>>
           /\ a.text[1][1] = "call" /\ Heard(a).text = <<>>
  <2>1. PICK reasons \in BOOLEAN, kind \in TextKind, n \in Nat : a = AnswerOf(reasons, kind, n, r, upstream.ids)
    BY DEF AnswerAt
  <2> DEFINE w == Atom(kind, r, 0)
  <2>2. a.text = IF kind = "" THEN <<>> ELSE <<w>>
    BY <2>1 DEF AnswerOf
  <2>3. a.text = <<w>>
    BY <1>2, <2>2
  <2> DEFINE c == a.text[1]
  <2>4. c = w
    BY <2>3
  <2>5. c \in AtomSet
    <3>0. a.text \in Seq(SaidSet)
      BY AnswerIs
    <3>2. 1 \in 1 .. Len(a.text)
      <4> HIDE DEF w
      <4>1. 1 \in 1 .. Len(<<w>>)
        OBVIOUS
      <4> QED
        BY <2>3, <4>1
    <3>1. a.text \in Seq(SaidSet) /\ 1 \in 1 .. Len(a.text)
      BY <3>0, <3>2
    <3> QED
      BY <3>1, SeqIs, Atomic
  <2>6. c[1] = "call" /\ a.text = <<c>>
    BY <1>2, <2>3, <2>4
  <2> HIDE DEF c
  <2>7. OfKind("text", <<c>>) = (IF c[1] = "text" THEN <<c>> ELSE <<>>) /\ OfKind("text", <<>>) = <<>>
    BY <2>5, OfKindOne
  <2> QED
    BY <1>2, <2>6, <2>7
<1> QED
  BY <1>1, <1>2, HeardTyped

LEMMA PartsAlike ==
    ASSUME NEW E, NEW X, NEW V, Maps(X, PartSet, AtomSet), NEW s \in Seq(PartSet),
           NEW t \in Seq(E), Agree(X, s, V, t)
    PROVE  Gather(V, t) = Gather(X, s)
<1> DEFINE P == PartSet
           A == AtomSet
<1>1. Maps(X, P, A) /\ s \in Seq(P)
  OBVIOUS
<1> HIDE DEF P, A
<1> QED
  BY <1>1, GatherAlike

LEMMA ItemsSaid ==
    ASSUME client.protocol = "responses", NEW r \in Nat, NEW a \in AnswerSet, AnswerAt(r, a, upstream.ids, ByWords)
    PROVE  Gather(TextVoice("responses"), Received(a)) = OfKind("text", a.text)
<1> DEFINE b == Heard(a)
           s == PartsHeard(b)
           V == TextVoice("responses")
           E == EntrySet("responses")
           X == [p \in PartSet |-> V[ItemOf(p)]]
           F == WhatsOf({"text"})
<1>1. client.protocol \in Protocols /\ "responses" \in Protocols
  BY DEF Protocols
<1>2. b \in AnswerSet
  BY HeardTyped
<1>3. s \in Seq(PartSet) /\ Whats(s, {"text"}) = b.text
  BY <1>1, <1>2, PartsHeardIs
<1>4. Received(a) = Each(ItemOf, s)
  BY ReceivedIs
<1>5. Maps(V, E, AtomSet)
  BY <1>1, BackMaps
<1>6. ASSUME NEW p \in PartSet
      PROVE  /\ ItemOf(p) \in E
             /\ V[ItemOf(p)] = IF p.kind = "text" THEN OfKind("text", <<p.what>>) ELSE <<>>
  <2> DEFINE e == ItemOf(p)
             role == IF p.kind = "text" THEN "assistant" ELSE ""
             m == Made("responses", e)
  <2>1. <<p>> \in Seq(PartSet)
    BY OneIs
  <2>2. role \in Roles
    BY RolesAre
  <2>3. e = Entry(role, <<p>>)
    BY DEF ItemOf
  <2>4. e \in RawSet /\ e.role = role /\ e.parts = <<p>>
    <3> HIDE DEF e, role
    <3> QED
      BY <2>1, <2>2, <2>3, EntryMade
  <2>5. e \in E
    BY <2>4 DEF EntrySet, RawSet, ItemShape
  <2>6. V[e] = IF role = "assistant" THEN TextOut[Ready(m)] ELSE <<>>
    BY <2>4, <2>5 DEF TextVoice, Voice, Dropped
  <2>7. m \in MessageSet
    BY <1>1, <2>5, MadeIs
  <2>8. m.images = <<>> /\ m.text = Whats(<<p>>, {"text"})
    BY <2>4 DEF Made, Says, Message
  <2>9. Whats(<<p>>, {"text"}) = IF p.kind = "text" THEN <<p.what>> ELSE <<>>
    BY KindsOne
  <2> HIDE DEF m, e
  <2>10. Ready(m) \in OutSet /\ Ready(m).text = m.text
    <3>1. Len(<<>>) # 1
      OBVIOUS
    <3>2. ~Alone(m)
      BY <2>8, <3>1 DEF Alone
    <3> QED
      BY <2>7, <3>2, ReadyIs DEF MessageSet
  <2>11. TextOut[Ready(m)] = OfKind("text", m.text)
    BY <2>10 DEF TextOut
  <2>12. V[e] = IF p.kind = "text" THEN OfKind("text", <<p.what>>) ELSE <<>>
    <3> HIDE DEF V
    <3>1. CASE p.kind = "text"
      BY <2>6, <2>8, <2>9, <2>11, <3>1
    <3>2. CASE p.kind # "text"
      <4>1. role # "assistant"
        BY <3>2
      <4> QED
        BY <2>6, <3>2, <4>1
    <3> QED
      BY <3>1, <3>2
  <2> QED
    BY <2>5, <2>12 DEF e
<1> HIDE DEF V, E
<1>7. Maps(X, PartSet, AtomSet)
  BY <1>5, <1>6 DEF Maps
<1>8. \A p \in PartSet : X[p] = V[ItemOf(p)]
  OBVIOUS
<1> HIDE DEF s, X
<1>9. Gather(V, Each(ItemOf, s)) = Gather(X, s)
  <2> DEFINE t == Each(ItemOf, s)
  <2>1. DOMAIN s = 1 .. Len(s) /\ Len(s) \in Nat /\ \A i \in 1 .. Len(s) : s[i] \in PartSet
    BY <1>3, SeqIs
  <2>2. t = [i \in 1 .. Len(s) |-> ItemOf(s[i])]
    BY <2>1 DEF Each
  <2> DEFINE n == Len(s)
  <2>0. n \in Nat /\ (\A i \in 1 .. n : ItemOf(s[i]) \in E) /\ t = [i \in 1 .. n |-> ItemOf(s[i])]
    BY <1>6, <2>1, <2>2
  <2> HIDE DEF t, n
  <2>3. t \in Seq(E) /\ Len(t) = n /\ \A i \in 1 .. n : t[i] = ItemOf(s[i])
    BY <2>0
  <2>4. \A i \in 1 .. Len(s) : V[t[i]] = X[s[i]]
    BY <1>8, <2>1, <2>3 DEF n
  <2>5. Len(t) = Len(s)
    BY <2>3 DEF n
  <2>6. t \in Seq(E)
    BY <2>3
  <2>7. Agree(X, s, V, t)
    BY <2>4, <2>5 DEF Agree
  <2>8. Gather(V, t) = Gather(X, s)
    BY <1>3, <1>7, <2>6, <2>7, PartsAlike
  <2> QED
    BY <2>8 DEF t
<1>10. Whats(s, {"text"}) = Gather(F, s)
  BY <1>3, WhatsIs
<1>11. Maps(F, PartSet, AtomSet)
  <2>1. Seq(SaidSet) \subseteq Seq(AtomSet)
    BY Atomic, SeqLarger
  <2> QED
    BY <2>1, KindsMaps DEF Maps
<1>12. \A p \in PartSet : OfKind("text", F[p]) = X[p]
  <2> TAKE p \in PartSet
  <2>1. F[p] = IF p.kind = "text" THEN <<p.what>> ELSE <<>>
    BY DEF WhatsOf
  <2>2. OfKind("text", <<>>) = <<>>
    BY Atomic, OfKindOne
  <2>3. X[p] = IF p.kind = "text" THEN OfKind("text", <<p.what>>) ELSE <<>>
    BY <1>6, <1>8
  <2> HIDE DEF F
  <2> QED
    BY <2>1, <2>2, <2>3
<1> HIDE DEF F
<1>13. OfKind("text", Gather(F, s)) = Gather(X, s)
  BY <1>3, <1>7, <1>11, <1>12, KindSaid
<1>14. OfKind("text", b.text) = OfKind("text", a.text)
  BY HeardText
<1> QED
  BY <1>3, <1>4, <1>9, <1>10, <1>13, <1>14, Zenon DEF V

\* What it takes for it to hold in the next state.
LEMMA BackNext ==
    ASSUME client' = client,
           client.protocol = "responses" =>
               Gather(TextVoice(client.protocol), history') = Gather(AnswerText, answers'),
           client.protocol # "responses" =>
               /\ Len(Replies(client.protocol, history')) = Len(answers')
               /\ \A i \in 1 .. Len(answers') :
                     Replies(client.protocol, history')[i].parts = HeardAt(i)'
    PROVE  BackInv'
<1>0. TextVoice(client.protocol)' = TextVoice(client.protocol)
  <2>1. Raw' = Raw
    BY Zenon DEF Raw
  <2>2. \A m : Ready(m)' = Ready(m)
    BY <2>1, Zenon DEF Ready
  <2> QED
    BY <2>2, Zenon DEF TextVoice, Voice
<1>1. CASE client.protocol = "responses"
  <2>1. client'.protocol = "responses"
    BY <1>1
  <2>2. Gather(TextVoice(client'.protocol), history') = Gather(AnswerText, answers')
    BY <1>1
  <2> QED
    BY <1>0, <1>1, <2>1, <2>2, Zenon DEF BackInv
<1>2. CASE client.protocol # "responses"
  <2>1. client'.protocol # "responses"
    BY <1>2
  <2>2. Len(Replies(client'.protocol, history')) = Len(answers')
    BY <1>2
  <2>3. \A i \in 1 .. Len(answers') :
           Replies(client'.protocol, history')[i].parts = HeardAt(i)'
    BY <1>2
  <2> QED
    BY <2>1, <2>2, <2>3 DEF BackInv
<1> QED
  BY <1>1, <1>2

LEMMA BackStep ==
    ASSUME KnownInv, BackInv, [Next]_vars
    PROVE  BackInv'
<1> DEFINE p == client.protocol
           E == EntrySet(p)
           R == OfRole("assistant", E)
<1>0. p \in Protocols /\ history \in Seq(E) /\ answers \in Seq(AnswerSet)
  BY DEF KnownInv
<1>1. CASE Ask \/ AnswerCalls
  <2>1. PICK entries \in Seq(QuietSet(p)) : Send(entries)
    BY <1>1, SendsQuiet
  <2>2. history' = history \o entries /\ UNCHANGED <<client, upstream, answers>>
    BY <2>1 DEF Send
  <2>3. /\ Replies(p, history') = Replies(p, history)
        /\ Gather(TextVoice(p), history') = Gather(TextVoice(p), history)
    BY <1>0, <2>2, QuietAdds
  <2>4. \A i : HeardAt(i)' = HeardAt(i)
    BY <2>2, HeardSame
  <2>5. client' = client /\ answers' = answers
    BY <2>2
  <2>6. p = "responses" => Gather(TextVoice(p), history') = Gather(AnswerText, answers')
    BY <2>3, <2>5 DEF BackInv
  <2>7. ASSUME p # "responses"
        PROVE  /\ Len(Replies(p, history')) = Len(answers')
               /\ \A i \in 1 .. Len(answers') :
                     Replies(p, history')[i].parts = HeardAt(i)'
    BY <2>3, <2>4, <2>5, <2>7, Zenon DEF BackInv
  <2> QED
    BY <2>5, <2>6, <2>7, BackNext
<1>2. CASE Answer
  <2>1. client' = client /\ upstream' = upstream
    BY <1>2, AnswerStepIs
  <2>2. PICK a \in AnswerSet : /\ AnswerAt(Round + 1, a, upstream.ids, ByWords)
                               /\ answers' = Append(answers, a)
                               /\ history' = history \o Received(a)
    BY <1>2, AnswerStepIs
  <2>3. Round + 1 \in Nat
    BY <1>0 DEF Round
  <2>4. CASE p = "responses"
    <3> DEFINE V == TextVoice(p)
               b == Received(a)
    <3>1. Maps(V, E, AtomSet) /\ Maps(AnswerText, AnswerSet, AtomSet)
      BY <1>0, BackMaps
    <3>2. b \in Seq(E)
      BY <1>0, ReceivedTyped
    <3>3. Gather(V, b) = OfKind("text", a.text)
      BY <2>2, <2>3, <2>4, ItemsSaid
    <3>4. Gather(V, history) = Gather(AnswerText, answers)
      BY <2>4 DEF BackInv
    <3> HIDE DEF V, b, E
    <3>5. Gather(V, history \o b) = Gather(V, history) \o Gather(V, b)
      BY <1>0, <3>1, <3>2, GatherJoined
    <3>6. Gather(AnswerText, Append(answers, a)) = Gather(AnswerText, answers) \o AnswerText[a]
      BY <1>0, <3>1, GatherAppend
    <3>7. AnswerText[a] = OfKind("text", a.text)
      BY DEF AnswerText
    <3>8. Gather(V, history') = Gather(AnswerText, answers')
      BY <2>2, <3>3, <3>4, <3>5, <3>6, <3>7 DEF b
    <3> QED
      BY <2>1, <2>4, <3>8, BackNext DEF V
  <2>5. CASE p # "responses"
    <3>1. PICK e \in E : /\ Received(a) = <<e>> /\ e.role = "assistant"
                         /\ e.parts = PartsHeard(Heard(a))
      BY <1>0, <2>5, ReceivedTyped
    <3> DEFINE x == Replies(p, history)
               y == Replies(p, history')
    <3>2. Len(x) = Len(answers) /\ \A i \in 1 .. Len(answers) : x[i].parts = PartsHeard(Heard(answers[i]))
      BY <2>5, Zenon DEF BackInv, HeardAt
    <3>3. x \in Seq(E) /\ y = Append(x, e)
      <4>1. Maps(R, E, E)
        BY <1>0, BackMaps
      <4>2. R[e] = <<e>>
        BY <3>1 DEF OfRole
      <4>3. x = Gather(R, history) /\ y = Gather(R, history')
        BY DEF Replies
      <4> HIDE DEF R, E, x, y
      <4>4. Gather(R, history) \in Seq(E)
        BY <1>0, <4>1, GatherTyped
      <4>5. Append(history, e) = history \o <<e>>
        BY <1>0, AppendIs
      <4>6. Gather(R, Append(history, e)) = Gather(R, history) \o R[e]
        BY <1>0, <4>1, GatherAppend
      <4>7. Append(x, e) = x \o <<e>>
        BY <4>3, <4>4, AppendIs
      <4> QED
        BY <2>2, <3>1, <4>2, <4>3, <4>4, <4>5, <4>6, <4>7
    <3> HIDE DEF x, y, E
    <3> DEFINE c == Append(answers, a)
               n == Len(answers)
    <3>4. /\ Len(y) = Len(x) + 1 /\ y[Len(x) + 1] = e /\ \A i \in 1 .. Len(x) : y[i] = x[i]
      BY <3>3, AppendIs
    <3>5. /\ Len(c) = n + 1 /\ c[n + 1] = a /\ (\A i \in 1 .. n : c[i] = answers[i]) /\ n \in Nat
      BY <1>0, AppendIs, SeqIs
    <3> HIDE DEF c
    <3>6. Len(y) = Len(c) /\ \A i \in 1 .. Len(c) : y[i].parts = PartsHeard(Heard(c[i]))
      <4>1. Len(y) = Len(c)
        BY <3>2, <3>4, <3>5
      <4>2. ASSUME NEW i \in 1 .. Len(c) PROVE y[i].parts = PartsHeard(Heard(c[i]))
        <5>1. CASE i = n + 1
          <6>1. y[i] = e /\ c[i] = a
            BY <3>2, <3>4, <3>5, <5>1
          <6> QED
            BY <3>1, <6>1
        <5>2. CASE i # n + 1
          <6>1. i \in 1 .. n
            BY <3>5, <5>2
          <6>2. y[i] = x[i] /\ c[i] = answers[i] /\ x[i].parts = PartsHeard(Heard(answers[i]))
            BY <3>2, <3>4, <3>5, <6>1
          <6> QED
            BY <6>2
        <5> QED
          BY <5>1, <5>2
      <4> QED
        BY <4>1, <4>2
    <3>7. answers' = c
      BY <2>2 DEF c
    <3>8. \A i : HeardAt(i)' = PartsHeard(Heard(answers'[i]))
      BY <2>1, HeardSameNext
    <3>9. Len(Replies(p, history')) = Len(answers')
          /\ \A i \in 1 .. Len(answers') : Replies(p, history')[i].parts = HeardAt(i)'
      BY <3>6, <3>7, <3>8 DEF y
    <3> QED
      BY <2>1, <2>5, <3>9, BackNext
  <2> QED
    BY <2>4, <2>5
<1>3. CASE UNCHANGED vars
  <2>1. client' = client /\ upstream' = upstream /\ history' = history /\ answers' = answers
    BY <1>3 DEF vars
  <2>2. \A i : HeardAt(i)' = HeardAt(i)
    BY <2>1, HeardSame
  <2>3. p = "responses" => Gather(TextVoice(p), history') = Gather(AnswerText, answers')
    BY <2>1 DEF BackInv
  <2>4. ASSUME p # "responses"
        PROVE  /\ Len(Replies(p, history')) = Len(answers')
               /\ \A i \in 1 .. Len(answers') :
                     Replies(p, history')[i].parts = HeardAt(i)'
    BY <2>1, <2>2, <2>4, Zenon DEF BackInv
  <2> QED
    BY <2>1, <2>3, <2>4, BackNext
<1> QED
  BY <1>1, <1>2, <1>3 DEF Next

\* What the upstream gets back of an answer.
LEMMA BackIs ==
    ASSUME client.protocol \in {"openai", "anthropic"}, NEW r \in Nat,
           NEW a \in AnswerSet, AnswerAt(r, a, upstream.ids, ByWords),
           NEW e \in EntrySet(client.protocol), e.role = "assistant", e.parts = PartsHeard(Heard(a)),
           NEW m, m = Ready(Made(client.protocol, e))
    PROVE  /\ ~Dropped(client.protocol, e)
           /\ m.role = "assistant" /\ m.reasoning = a.reasoning /\ m.text = Heard(a).text
           /\ Len(m.calls) = Len(Heard(a).calls) /\ m.calls \in Seq(CallSet)
           /\ \A i \in 1 .. Len(m.calls) :
                 m.calls[i].what = Heard(a).calls[i].what /\ m.calls[i].id = IdFor(Heard(a), i)
<1> DEFINE p == client.protocol
           b == Heard(a)
           s == PartsHeard(b)
           n == Made(p, e)
           texts == IF p = "openai" THEN {"text", "tool_result"} ELSE {"text"}
           images == IF p = "openai" THEN {"image", "link"} ELSE {"image"}
<1>1. p \in Protocols
  BY DEF Protocols
<1>2. b \in AnswerSet /\ b.reasoning = a.reasoning
  BY HeardTyped
<1>3. /\ s \in Seq(PartSet)
      /\ \A i \in 1 .. Len(s) : s[i].kind \in {"thinking", "text", "tool_use"}
      /\ Whats(s, {"thinking"}) = b.reasoning
      /\ Whats(s, {"text", "tool_result"}) = b.text
      /\ Whats(s, {"text"}) = b.text
      /\ Calls(s) = [i \in 1 .. Len(b.calls) |-> Call(IdFor(b, i), b.calls[i].what)]
  BY <1>1, <1>2, PartsHeardIs
<1>4. n \in MessageSet /\ n.role = "assistant"
  BY <1>1, MadeIs
<1>5. /\ n.reasoning = Whats(s, {"thinking"}) /\ n.text = Whats(s, texts)
      /\ n.images = Kinds(s, images) /\ n.calls = Calls(s)
  BY DEF Made, MadeOpenAI, MadeAnthropic, Message
<1>6. ~Dropped(p, e)
  <2>1. ~\E i \in 1 .. Len(s) : s[i].kind = "tool_result"
    BY <1>3
  <2> HIDE DEF s
  <2> QED
    BY <1>1, <2>1, DroppedIs DEF s
<1>7. n.images = <<>> /\ n.text = b.text
  <2>1. \A i \in 1 .. Len(s) : s[i].kind \notin images
    BY <1>3
  <2> HIDE DEF s, images
  <2>2. Kinds(s, images) = <<>>
    BY <1>3, <2>1, KindsNone
  <2> QED
    BY <1>3, <1>5, <2>2
<1> DEFINE c == Calls(s)
<1>8. c \in Seq(CallSet) /\ n.calls = c
  <2> HIDE DEF s
  <2> QED
    BY <1>3, <1>5, CallsIs
<1>9. Len(b.calls) \in Nat /\ DOMAIN b.calls = 1 .. Len(b.calls)
  BY <1>2, AnswerIs, SeqIs
<1>10. Len(c) = Len(b.calls) /\ \A i \in 1 .. Len(c) : c[i].id = IdFor(b, i) /\ c[i].what = b.calls[i].what
  <2> DEFINE k == Len(b.calls)
  <2>1. k \in Nat /\ c = [i \in 1 .. k |-> Call(IdFor(b, i), b.calls[i].what)]
    BY <1>3, <1>9
  <2> HIDE DEF k, c, b
  <2>2. Len(c) = k
    BY <2>1
  <2>3. \A i \in 1 .. k : c[i] = Call(IdFor(b, i), b.calls[i].what)
    BY <2>1
  <2>4. \A i \in 1 .. k : c[i].id = IdFor(b, i) /\ c[i].what = b.calls[i].what
    <3> TAKE i \in 1 .. k
    <3> DEFINE u == IdFor(b, i)
               v == b.calls[i].what
    <3>1. c[i] = Call(u, v)
      BY <2>3
    <3> HIDE DEF u, v
    <3>2. Call(u, v).id = u /\ Call(u, v).what = v
      BY DEF Call
    <3> QED
      BY <3>1, <3>2 DEF u, v
  <2> QED
    BY <2>2, <2>4 DEF k
<1>11. \A i \in 1 .. Len(c) : IdFor(b, i) # NoId
  BY <1>1, <1>2, <1>9, <1>10, IdForTyped
<1> HIDE DEF c, n, s, b
<1>12. ~Alone(n)
  <2>1. Len(<<>>) # 1
    OBVIOUS
  <2> QED
    BY <1>7, <2>1 DEF Alone
<1>13. m.text = n.text /\ m.role = n.role /\ m.reasoning = n.reasoning /\ m.calls = Named(c)
  <2>1. m = Ready(n)
    BY DEF n
  <2> QED
    BY <1>4, <1>8, <1>12, <2>1, ReadyIs DEF MessageSet
<1>14. Named(c) \in Seq(CallSet) /\ Len(Named(c)) = Len(c)
       /\ \A i \in 1 .. Len(c) : Named(c)[i].what = c[i].what /\ Named(c)[i].id = c[i].id
  <2>1. /\ Named(c) \in Seq(CallSet) /\ Len(Named(c)) = Len(c)
        /\ \A i \in 1 .. Len(c) :
              /\ Named(c)[i].what = c[i].what
              /\ Named(c)[i].id = IF ~Raw /\ c[i].id = NoId THEN Atom("call", 0, i) ELSE c[i].id
    BY <1>8, NamedTyped
  <2> QED
    BY <1>10, <1>11, <2>1
<1>15. m.reasoning = a.reasoning /\ m.text = b.text /\ m.role = "assistant"
  BY <1>2, <1>3, <1>4, <1>5, <1>7, <1>13
<1>16. Len(m.calls) = Len(b.calls) /\ m.calls \in Seq(CallSet)
       /\ \A i \in 1 .. Len(m.calls) : m.calls[i].what = b.calls[i].what /\ m.calls[i].id = IdFor(b, i)
  BY <1>10, <1>13, <1>14
<1> QED
  BY <1>6, <1>15, <1>16 DEF b, p

\* Whether the whole of an answer comes back.
Whole(m, a) ==
    /\ m.reasoning = a.reasoning
    /\ m.text \o CallWhats(m.calls) = a.text \o CallWhats(a.calls)
    /\ upstream.ids /\ ~ByWords => m.calls = a.calls

LEMMA CallWhatsIs ==
    ASSUME NEW calls \in Seq(CallSet)
    PROVE  /\ CallWhats(calls) \in Seq(SaidSet) /\ Len(CallWhats(calls)) = Len(calls)
           /\ \A i \in 1 .. Len(calls) : CallWhats(calls)[i] = calls[i].what
<1> DEFINE n == Len(calls)
           c == CallWhats(calls)
<1>1. n \in Nat /\ DOMAIN calls = 1 .. n /\ \A i \in 1 .. n : calls[i] \in CallSet
  BY SeqIs
<1>2. \A i \in 1 .. n : calls[i].what \in SaidSet
  BY <1>1 DEF CallSet
<1>3. c = [i \in 1 .. n |-> calls[i].what]
  BY <1>1 DEF CallWhats, Each
<1> HIDE DEF n, c
<1>4. c \in Seq(SaidSet) /\ Len(c) = n /\ \A i \in 1 .. n : c[i] = calls[i].what
  BY <1>1, <1>2, <1>3
<1> QED
  BY <1>4 DEF n, c

LEMMA WholeBack ==
    ASSUME client.protocol \in {"openai", "anthropic"}, NEW r \in Nat,
           NEW a \in AnswerSet, AnswerAt(r, a, upstream.ids, ByWords),
           NEW e \in EntrySet(client.protocol), e.role = "assistant", e.parts = PartsHeard(Heard(a))
    PROVE  /\ ~Dropped(client.protocol, e)
           /\ Whole(Ready(Made(client.protocol, e)), a)
<1> DEFINE m == Ready(Made(client.protocol, e))
           b == Heard(a)
<1>1. /\ ~Dropped(client.protocol, e)
      /\ m.role = "assistant" /\ m.reasoning = a.reasoning /\ m.text = b.text
      /\ Len(m.calls) = Len(b.calls) /\ m.calls \in Seq(CallSet)
      /\ \A i \in 1 .. Len(m.calls) : m.calls[i].what = b.calls[i].what /\ m.calls[i].id = IdFor(b, i)
  BY BackIs
<1>2. b \in AnswerSet
  BY HeardTyped
<1>3. b.calls \in Seq(CallSet) /\ a.text \in Seq(SaidSet) /\ a.calls \in Seq(CallSet)
  BY <1>2, AnswerIs
<1> HIDE DEF m, b
<1>4. CallWhats(m.calls) = CallWhats(b.calls)
  <2> DEFINE x == m.calls
             y == b.calls
  <2>1. /\ x \in Seq(CallSet) /\ y \in Seq(CallSet) /\ Len(x) = Len(y)
        /\ \A i \in 1 .. Len(x) : x[i].what = y[i].what
    BY <1>1, <1>3
  <2> HIDE DEF x, y
  <2>2. CallWhats(x) \in Seq(SaidSet) /\ Len(CallWhats(x)) = Len(x)
        /\ \A i \in 1 .. Len(x) : CallWhats(x)[i] = x[i].what
    BY <2>1, CallWhatsIs
  <2>3. CallWhats(y) \in Seq(SaidSet) /\ Len(CallWhats(y)) = Len(y)
        /\ \A i \in 1 .. Len(y) : CallWhats(y)[i] = y[i].what
    BY <2>1, CallWhatsIs
  <2>4. CallWhats(x) = CallWhats(y)
    BY <2>1, <2>2, <2>3, SameSeq
  <2> QED
    BY <2>4 DEF x, y
<1>5. PICK reasons \in BOOLEAN, kind \in TextKind, n \in Nat :
          /\ ByWords => n = 0
          /\ a = AnswerOf(reasons, kind, n, r, upstream.ids)
  BY DEF AnswerAt
<1>6. b.text \o CallWhats(b.calls) = a.text \o CallWhats(a.calls)
  <2>1. CASE b = a
    BY <2>1
  <2>2. CASE /\ ByWords /\ a.text # <<>> /\ b.text = <<>> /\ b.calls = <<Call(NoId, a.text[1])>>
    <3> DEFINE w == a.text[1]
               c == Call(NoId, w)
    <3>1. a.text = <<w>>
      <4> DEFINE v == Atom(kind, r, 0)
      <4>1. a.text = IF kind = "" THEN <<>> ELSE <<v>>
        BY <1>5 DEF AnswerOf
      <4>2. a.text = <<v>>
        BY <2>2, <4>1
      <4> HIDE DEF v
      <4> QED
        BY <4>2
    <3>2. a.calls = <<>>
      <4>1. n = 0
        BY <1>5, <2>2
      <4>2. a.calls = [i \in 1 .. 0 |-> Call(IF upstream.ids THEN Atom("id", r, i) ELSE NoId, Atom("call", r, i))]
        BY <1>5, <4>1 DEF AnswerOf
      <4>3. DOMAIN a.calls = 1 .. 0
        BY <4>2
      <4>4. Len(a.calls) = 0
        BY <1>3, <4>3, SeqIs
      <4> QED
        BY <1>3, <4>4, NoneIs
    <3>3. c \in CallSet /\ c.what = w
      <4>1. b.calls \in Seq(CallSet) /\ b.calls = <<c>>
        BY <1>3, <2>2
      <4> HIDE DEF c
      <4>2. 1 \in 1 .. Len(b.calls) /\ b.calls[1] = c
        BY <4>1
      <4>3. c \in CallSet
        BY <4>1, <4>2, SeqIs
      <4> QED
        BY <4>3 DEF c, Call
    <3> HIDE DEF c
    <3>4. CallWhats(<<c>>) = <<w>>
      <4> DEFINE o == <<c>>
                 q == <<w>>
      <4>1. o \in Seq(CallSet) /\ Len(o) = 1 /\ o[1] = c
        BY <3>3, OneIs
      <4>2. q \in Seq(SaidSet) /\ Len(q) = 1 /\ q[1] = w
        <5>1. a.text \in Seq(SaidSet) /\ a.text = q
          BY <1>3, <3>1
        <5> HIDE DEF w
        <5> QED
          BY <5>1
      <4> HIDE DEF o, q
      <4>3. CallWhats(o) \in Seq(SaidSet) /\ Len(CallWhats(o)) = Len(o)
            /\ \A i \in 1 .. Len(o) : CallWhats(o)[i] = o[i].what
        BY <4>1, CallWhatsIs
      <4>4. CallWhats(o) = q
        BY <3>3, <4>1, <4>2, <4>3, SameSeq
      <4> QED
        BY <4>4 DEF o, q
    <3>5. CallWhats(<<>>) = <<>>
      <4> DEFINE o == <<>>
      <4>1. o \in Seq(CallSet) /\ Len(o) = 0
        BY NoneIs
      <4> HIDE DEF o
      <4>2. CallWhats(o) \in Seq(SaidSet) /\ Len(CallWhats(o)) = 0
        BY <4>1, CallWhatsIs
      <4>3. CallWhats(o) = <<>>
        BY <4>2, NoneIs
      <4> QED
        BY <4>3 DEF o
    <3> DEFINE t == a.text
    <3>6. b.text = <<>> /\ CallWhats(b.calls) = t /\ CallWhats(a.calls) = <<>>
      BY <2>2, <3>1, <3>2, <3>4, <3>5 DEF c
    <3>7. t \in Seq(SaidSet)
      BY <1>3
    <3> HIDE DEF t
    <3>8. <<>> \o t = t /\ t \o <<>> = t
      BY <3>7, JoinedNone
    <3> QED
      BY <3>6, <3>8 DEF t
  <2> QED
    BY <2>1, <2>2, HeardTyped DEF b
<1>7. ASSUME upstream.ids, ~ByWords PROVE m.calls = a.calls
  <2>1. b = a
    BY <1>7, HeardTyped DEF b
  <2>2. ASSUME NEW i \in 1 .. Len(a.calls) PROVE m.calls[i] = a.calls[i]
    <3>1. DOMAIN a.calls = 1 .. Len(a.calls)
      BY <1>3, SeqIs
    <3>2. a.calls = [j \in 1 .. n |-> Call(Atom("id", r, j), Atom("call", r, j))]
      BY <1>5, <1>7 DEF AnswerOf
    <3>3. i \in 1 .. n
      BY <3>1, <3>2
    <3>4. a.calls[i] = Call(Atom("id", r, i), Atom("call", r, i))
      BY <3>2, <3>3
    <3>5. a.calls[i].id = Atom("id", r, i) /\ Atom("id", r, i) # NoId
      <4>1. a.calls[i].id = Atom("id", r, i)
        BY <3>4 DEF Call
      <4>2. Atom("id", r, i)[1] = "id" /\ NoId[1] = "none"
        BY DEF Atom, NoId
      <4> QED
        BY <4>1, <4>2
    <3>6. client.protocol \in Protocols /\ i \in DOMAIN a.calls
      BY <3>1 DEF Protocols
    <3>7. IdFor(a, i) = a.calls[i].id
      BY <3>5, <3>6, IdForTyped
    <3>8. m.calls[i].what = a.calls[i].what /\ m.calls[i].id = a.calls[i].id
      BY <1>1, <2>1, <3>7
    <3>9. m.calls[i] \in CallSet /\ a.calls[i] \in CallSet
      BY <1>1, <1>3, <2>1, SeqIs
    <3> QED
      BY <3>8, <3>9 DEF CallSet
  <2>3. Len(m.calls) = Len(a.calls)
    BY <1>1, <2>1
  <2> QED
    BY <1>1, <1>3, <2>2, <2>3, SameSeq
<1>8. Whole(m, a)
  BY <1>1, <1>4, <1>6, <1>7, Zenon DEF Whole
<1> QED
  BY <1>1, <1>8 DEF m

Selves == [m \in OutSet |-> <<m>>]

\* What is sent of each entry that is not dropped.
SentOf(protocol) ==
    [e \in EntrySet(protocol) |->
        IF Dropped(protocol, e) THEN <<>> ELSE <<Ready(Made(protocol, e))>>]

LEMMA SentOfIs ==
    ASSUME NEW protocol \in Protocols
    PROVE  /\ Maps(Selves, OutSet, OutSet)
           /\ Maps(SentOf(protocol), EntrySet(protocol), OutSet)
           /\ \A e \in EntrySet(protocol) :
                 Voice(Selves, "assistant", protocol)[e]
                    = Within(SentOf(protocol), "assistant", EntrySet(protocol))[e]
<1>1. \A e \in EntrySet(protocol) : Ready(Made(protocol, e)) \in OutSet
  BY MadeIs, ReadyIs DEF MessageSet
<1>2. \A m \in OutSet : <<m>> \in Seq(OutSet)
  BY OneIs
<1>3. <<>> \in Seq(OutSet)
  BY NoneIs
<1>4. Maps(Selves, OutSet, OutSet)
  BY <1>2 DEF Maps, Selves
<1>5. Maps(SentOf(protocol), EntrySet(protocol), OutSet)
  BY <1>1, <1>2, <1>3 DEF Maps, SentOf
<1>6. \A e \in EntrySet(protocol) : Selves[Ready(Made(protocol, e))] = <<Ready(Made(protocol, e))>>
  BY <1>1 DEF Selves
<1>7. \A e \in EntrySet(protocol) :
         Voice(Selves, "assistant", protocol)[e]
            = Within(SentOf(protocol), "assistant", EntrySet(protocol))[e]
  BY <1>6 DEF Voice, Within, SentOf
<1> QED
  BY <1>4, <1>5, <1>7

LEMMA RepliesAre ==
    ASSUME NEW protocol \in Protocols, NEW entries \in Seq(EntrySet(protocol))
    PROVE  /\ Replies(protocol, entries) \in Seq(EntrySet(protocol))
           /\ \A i \in 1 .. Len(Replies(protocol, entries)) :
                 Replies(protocol, entries)[i].role = "assistant"
<1> DEFINE E == EntrySet(protocol)
           R == OfRole("assistant", E)
           A == {e \in E : e.role = "assistant"}
           s == Replies(protocol, entries)
<1>1. Maps(R, E, E)
  BY BackMaps
<1>2. \A e \in E : R[e] \in Seq(A)
  <2> TAKE e \in E
  <2>1. CASE e.role = "assistant"
    <3>1. e \in A
      BY <2>1
    <3>2. R[e] = <<e>>
      BY <2>1 DEF OfRole
    <3> HIDE DEF A
    <3> QED
      BY <3>1, <3>2, OneIs
  <2>2. CASE e.role # "assistant"
    <3>1. R[e] = <<>>
      BY <2>2 DEF OfRole
    <3> HIDE DEF A
    <3> QED
      BY <3>1, NoneIs
  <2> QED
    BY <2>1, <2>2
<1>3. s = Gather(R, entries)
  BY DEF Replies
<1>4. \A e \in A : e.role = "assistant"
  OBVIOUS
<1>5. entries \in Seq(E)
  OBVIOUS
<1> HIDE DEF E, R, A, s
<1>6. \A i \in 1 .. Len(entries) : R[entries[i]] \in Seq(A)
  BY <1>2, <1>5, SeqIs
<1>7. s \in Seq(A)
  BY <1>1, <1>3, <1>5, <1>6, GatherKind
<1>8. s \in Seq(E)
  BY <1>1, <1>3, <1>5, GatherTyped
<1>9. \A i \in 1 .. Len(s) : s[i] \in A
  BY <1>7, SeqIs
<1> QED
  BY <1>4, <1>8, <1>9 DEF s, E

LEMMA AnswersComeBackHolds ==
    ASSUME KnownInv, BackInv
    PROVE  AnswersComeBack
<1> DEFINE p == client.protocol
           E == EntrySet(p)
           back == Of("assistant")
<1>0. turn = "upstream" => (request.tools <=> ~ByWords)
  <2>1. turn = "upstream" => request = Sent(history)
    BY DEF KnownInv
  <2>2. Sent(history).tools = ~ByWords
    BY SentIs
  <2> QED
    BY <2>1, <2>2, Zenon
<1>1. SUFFICES ASSUME turn = "upstream"
               PROVE  IF p = "responses"
                      THEN TextsOf(back) = All(LAMBDA a : OfKind("text", a.text), answers)
                      ELSE /\ Len(back) = Len(answers)
                           /\ \A i \in DOMAIN back : Whole(back[i], answers[i])
  BY <1>0 DEF AnswersComeBack, TextsOf, Whole
<1>2. p \in Protocols /\ history \in Seq(E) /\ answers \in Seq(AnswerSet)
      /\ \A i \in 1 .. Len(answers) : AnswerAt(i, answers[i], upstream.ids, ByWords)
  BY DEF KnownInv
<1>3. CASE p = "responses"
  <2>1. Maps(TextOut, OutSet, AtomSet)
    BY KeptMaps
  <2>2. back \in Seq(OutSet) /\ Gather(TextOut, back) = Gather(TextVoice(p), history)
    BY <1>1, <2>1, RolePipe DEF TextVoice
  <2>3. TextsOf(back) = Gather(TextOut, back)
    BY <2>2, SentKept
  <2>4. Gather(TextVoice(p), history) = Gather(AnswerText, answers)
    BY <1>3 DEF BackInv
  <2>5. All(LAMBDA a : OfKind("text", a.text), answers) = Gather(AnswerText, answers)
    <3> DEFINE b == Each(LAMBDA a : OfKind("text", a.text), answers)
    <3>1. All(LAMBDA a : OfKind("text", a.text), answers) = Flat(b, Len(answers))
      BY DEF All, Each
    <3>2. b = Lots(AnswerText, answers)
      <4>1. \A i \in DOMAIN answers : answers[i] \in AnswerSet
        BY <1>2, SeqIs
      <4>2. \A i \in DOMAIN answers : AnswerText[answers[i]] = OfKind("text", answers[i].text)
        BY <4>1 DEF AnswerText
      <4> QED
        BY <4>2 DEF Each, Lots
    <3> HIDE DEF b
    <3> QED
      BY <3>1, <3>2, Zenon DEF Gather
  <2> QED
    BY <1>3, <2>2, <2>3, <2>4, <2>5
<1>4. CASE p # "responses"
  <2> DEFINE s == Replies(p, history)
             V == Voice(Selves, "assistant", p)
             H == SentOf(p)
             W == Within(H, "assistant", E)
  <2>0. p \in {"openai", "anthropic"}
    BY <1>2, <1>4 DEF Protocols
  <2>1. Maps(Selves, OutSet, OutSet) /\ Maps(H, E, OutSet) /\ \A e \in E : V[e] = W[e]
    BY <1>2, SentOfIs
  <2>2. /\ back \in Seq(OutSet) /\ Maps(V, E, OutSet)
        /\ Gather(Selves, back) = Gather(V, history)
    BY <1>1, <2>1, RolePipe
  <2>3. Gather(Selves, back) = back
    <3> HIDE DEF back
    <3>1. \A i \in 1 .. Len(back) : Selves[back[i]] = <<back[i]>>
      BY <2>2, SeqIs DEF Selves
    <3> QED
      BY <2>1, <2>2, <3>1, GatherSelf
  <2>4. s \in Seq(E) /\ \A i \in 1 .. Len(s) : s[i].role = "assistant"
    BY <1>2, RepliesAre
  <2>5. Len(s) = Len(answers) /\ \A i \in 1 .. Len(answers) : s[i].parts = PartsHeard(Heard(answers[i]))
    BY <1>4, Zenon DEF BackInv, HeardAt
  <2>6. ASSUME NEW i \in 1 .. Len(s)
        PROVE  /\ H[s[i]] = <<Ready(Made(p, s[i]))>>
               /\ Whole(Ready(Made(p, s[i])), answers[i])
    <3>1. /\ s[i] \in E /\ s[i].role = "assistant" /\ s[i].parts = PartsHeard(Heard(answers[i]))
          /\ answers[i] \in AnswerSet /\ AnswerAt(i, answers[i], upstream.ids, ByWords) /\ i \in Nat
      <4> HIDE DEF s, E
      <4> QED
        BY <1>2, <2>4, <2>5, SeqIs
    <3> DEFINE e == s[i]
               a == answers[i]
    <3> HIDE DEF s
    <3>2. e \in E /\ e.role = "assistant" /\ e.parts = PartsHeard(Heard(a)) /\ a \in AnswerSet /\ AnswerAt(i, a, upstream.ids, ByWords)
      BY <3>1
    <3> HIDE DEF e, a
    <3>3. ~Dropped(p, e) /\ Whole(Ready(Made(p, e)), a)
      BY <2>0, <3>1, <3>2, WholeBack
    <3>4. H[e] = <<Ready(Made(p, e))>>
      BY <3>2, <3>3 DEF SentOf
    <3> QED
      BY <3>3, <3>4 DEF e, a
  <2> HIDE DEF s, V, H, W, E, back
  <2>7. Maps(W, E, OutSet) /\ Gather(H, s) = Gather(W, history)
    <3>1. Maps(W, E, OutSet) /\ Gather(H, Gather(OfRole("assistant", E), history)) = Gather(W, history)
      BY <1>2, <2>1, WithinIs DEF W
    <3>2. s = Gather(OfRole("assistant", E), history)
      BY DEF s, Replies, E
    <3> QED
      BY <3>1, <3>2
  <2>8. Gather(V, history) = Gather(W, history)
    BY <1>2, <2>1, <2>7, GatherAgree
  <2>9. back = Gather(H, s)
    BY <2>2, <2>3, <2>7, <2>8
  <2>10. \A i \in 1 .. Len(s) : Len(H[s[i]]) = 1 /\ H[s[i]][1] = Ready(Made(p, s[i]))
    <3> TAKE i \in 1 .. Len(s)
    <3> DEFINE m == Ready(Made(p, s[i]))
    <3>1. H[s[i]] = <<m>>
      BY <2>6
    <3> HIDE DEF m
    <3> QED
      BY <3>1 DEF m
  <2>11. Len(Gather(H, s)) = Len(s) /\ \A i \in 1 .. Len(s) : Gather(H, s)[i] = H[s[i]][1]
    <3>1. \A i \in 1 .. Len(s) : Len(H[s[i]]) = 1
      BY <2>10
    <3> QED
      BY <2>1, <2>4, <3>1, GatherEach
  <2>12. Len(back) = Len(answers) /\ \A i \in 1 .. Len(s) : back[i] = Ready(Made(p, s[i]))
    BY <2>5, <2>9, <2>10, <2>11
  <2>13. DOMAIN back = 1 .. Len(s)
    BY <2>2, <2>5, <2>12, SeqIs
  <2>14. \A i \in DOMAIN back : Whole(back[i], answers[i])
    BY <2>6, <2>12, <2>13
  <2> QED
    BY <1>4, <2>12, <2>14
<1> QED
  BY <1>3, <1>4

\* With every request the upstream gets back what it answered, each answer once
\* and in order, however many there are and however many calls they have.
THEOREM AnswersAlwaysComeBack == Spec => []AnswersComeBack
<1>1. Init => KnownInv /\ BackInv
  BY KnownInit, BackInit
<1>2. KnownInv /\ BackInv /\ [Next]_vars => (KnownInv /\ BackInv)'
  BY KnownStep, BackStep
<1>3. KnownInv /\ BackInv => AnswersComeBack
  BY AnswersComeBackHolds
<1> QED
  BY <1>1, <1>2, <1>3, PTL DEF Spec

-----------------------------------------------------------------------------
(* Results and calls in a sequence of messages.                            *)

\* t has the same roles, calls and results as s.
Like(s, t) ==
    /\ DOMAIN t = DOMAIN s
    /\ \A i \in DOMAIN s :
          /\ t[i].role = s[i].role
          /\ t[i].calls = s[i].calls
          /\ t[i].of = s[i].of
          /\ s[i].role = "tool" => t[i].text = s[i].text

LEMMA PairedLike ==
    ASSUME NEW S, NEW s \in Seq(S), NEW t, Like(s, t), Paired(s)
    PROVE  Paired(t)
<1>0. DOMAIN s = 1 .. Len(s) /\ Len(s) \in Nat
  BY SeqIs
<1>1. /\ DOMAIN t = DOMAIN s
      /\ \A i \in DOMAIN s :
            /\ t[i].role = s[i].role
            /\ t[i].calls = s[i].calls
            /\ t[i].of = s[i].of
            /\ s[i].role = "tool" => t[i].text = s[i].text
  BY DEF Like
<1>2. \A i \in DOMAIN s : After(t, i) = After(s, i)
  <2> TAKE i \in DOMAIN s
  <2>1. \A k \in DOMAIN s : \A j \in i + 1 .. k : j \in DOMAIN s
    BY <1>0
  <2> QED
    BY <1>1, <2>1 DEF After
<1>3. \A i \in DOMAIN s : \A k \in After(s, i) : k \in DOMAIN s /\ s[k].role = "tool"
  <2> TAKE i \in DOMAIN s
  <2> TAKE k \in After(s, i)
  <2>1. k \in DOMAIN s /\ k > i /\ \A j \in i + 1 .. k : s[j].role = "tool"
    BY DEF After
  <2>2. k \in i + 1 .. k
    BY <1>0, <2>1
  <2> QED
    BY <2>1, <2>2
<1>4. \A c : \A i \in DOMAIN s : \A k \in After(s, i) : Matches(t[k], c) <=> Matches(s[k], c)
  BY <1>1, <1>3 DEF Matches
<1>5. \A i \in DOMAIN s : Answered(s, i) => Answered(t, i)
  <2> SUFFICES ASSUME NEW i \in DOMAIN s, Answered(s, i) PROVE Answered(t, i)
    OBVIOUS
  <2> DEFINE calls == s[i].calls
  <2>1. /\ \A k \in After(s, i) : \E c \in DOMAIN calls :
              /\ Matches(s[k], calls[c])
              /\ \A d \in DOMAIN calls : calls[d].id = calls[c].id => d = c
        /\ \A c \in DOMAIN calls : \E k \in After(s, i) : Matches(s[k], calls[c])
    BY DEF Answered
  <2>2. t[i].calls = calls /\ After(t, i) = After(s, i)
    BY <1>1, <1>2
  <2>3. \A c : \A k \in After(s, i) : Matches(t[k], c) <=> Matches(s[k], c)
    BY <1>4
  <2> HIDE DEF calls
  <2>4. \A k \in After(t, i) : \E c \in DOMAIN calls :
           /\ Matches(t[k], calls[c])
           /\ \A d \in DOMAIN calls : calls[d].id = calls[c].id => d = c
    <3> TAKE k \in After(t, i)
    <3>1. k \in After(s, i)
      BY <2>2
    <3>2. PICK c \in DOMAIN calls :
              /\ Matches(s[k], calls[c])
              /\ \A d \in DOMAIN calls : calls[d].id = calls[c].id => d = c
      BY <2>1, <3>1
    <3>3. Matches(t[k], calls[c])
      BY <2>3, <3>1, <3>2
    <3> QED
      BY <3>2, <3>3
  <2>5. \A c \in DOMAIN calls : \E k \in After(t, i) : Matches(t[k], calls[c])
    <3> TAKE c \in DOMAIN calls
    <3>1. PICK k \in After(s, i) : Matches(s[k], calls[c])
      BY <2>1
    <3>2. Matches(t[k], calls[c])
      BY <2>3, <3>1
    <3> QED
      BY <2>2, <3>1, <3>2
  <2> QED
    BY <2>2, <2>4, <2>5, Zenon DEF Answered
<1>6. /\ \A k \in DOMAIN s : s[k].role = "tool" =>
            \E i \in DOMAIN s : s[i].role = "assistant" /\ k \in After(s, i)
      /\ \A i \in DOMAIN s : s[i].role = "assistant" => Answered(s, i)
  BY DEF Paired
<1> QED
  BY <1>1, <1>2, <1>5, <1>6 DEF Paired

\* Messages that are no results, nor have calls that want any.
Plain(m) == m.role # "tool" /\ (m.role = "assistant" => m.calls = <<>>)

LEMMA PairedPlain ==
    ASSUME NEW S, NEW s \in Seq(S), \A i \in 1 .. Len(s) : Plain(s[i])
    PROVE  Paired(s)
<1>1. DOMAIN s = 1 .. Len(s) /\ Len(s) \in Nat
  BY SeqIs
<1>2. \A i \in DOMAIN s : After(s, i) = {}
  <2> SUFFICES ASSUME NEW i \in DOMAIN s, NEW k \in After(s, i) PROVE FALSE
    OBVIOUS
  <2>1. k \in DOMAIN s /\ k > i /\ \A j \in i + 1 .. k : s[j].role = "tool"
    BY DEF After
  <2>2. k \in i + 1 .. k
    BY <1>1, <2>1
  <2> QED
    BY <1>1, <2>1, <2>2 DEF Plain
<1>3. \A i \in DOMAIN s : s[i].role # "tool" /\ (s[i].role = "assistant" => DOMAIN s[i].calls = {})
  BY <1>1, NoneIs DEF Plain
<1>4. \A i \in DOMAIN s : s[i].role = "assistant" => Answered(s, i)
  BY <1>2, <1>3 DEF Answered
<1> QED
  BY <1>3, <1>4 DEF Paired

\* Where the results are, in one sequence after another.
LEMMA AfterJoined ==
    ASSUME NEW S, NEW s \in Seq(S), NEW t \in Seq(S), Len(t) > 0 => t[1].role # "tool"
    PROVE  /\ \A i \in 1 .. Len(s) : After(s \o t, i) = After(s, i)
           /\ \A i \in 1 .. Len(t) : \A k : k \in After(s \o t, Len(s) + i) <=>
                 \E l \in After(t, i) : k = Len(s) + l
<1> DEFINE u == s \o t
           a == Len(s)
           b == Len(t)
<1>1. /\ u \in Seq(S) /\ Len(u) = a + b /\ (\A i \in 1 .. a : u[i] = s[i])
      /\ \A i \in 1 .. b : u[a + i] = t[i]
  BY Joined
<1>2. /\ DOMAIN s = 1 .. a /\ a \in Nat /\ DOMAIN t = 1 .. b /\ b \in Nat
      /\ DOMAIN u = 1 .. a + b
  <2> HIDE DEF u
  <2> QED
    BY <1>1, SeqIs
<1>3. b > 0 => t[1].role # "tool"
  OBVIOUS
<1> HIDE DEF u, a, b
<1>4. ASSUME NEW i \in 1 .. a PROVE After(u, i) = After(s, i)
  <2>1. ASSUME NEW k \in After(u, i) PROVE k \in After(s, i)
    <3>1. k \in 1 .. a + b /\ k > i /\ \A j \in i + 1 .. k : u[j].role = "tool"
      BY <1>2 DEF After
    <3>2. k <= a
      <4> SUFFICES ASSUME k > a PROVE FALSE
        BY <1>2, <3>1
      <4>1. a + 1 \in i + 1 .. k /\ b > 0 /\ 1 \in 1 .. b
        BY <1>2, <3>1
      <4>2. u[a + 1] = t[1]
        BY <1>1, <4>1
      <4> QED
        BY <1>3, <3>1, <4>1, <4>2
    <3>3. \A j \in i + 1 .. k : s[j].role = "tool"
      <4> TAKE j \in i + 1 .. k
      <4>1. j \in 1 .. a
        BY <1>2, <3>1, <3>2
      <4> QED
        BY <1>1, <3>1, <4>1
    <3> QED
      BY <1>2, <3>1, <3>2, <3>3 DEF After
  <2>2. ASSUME NEW k \in After(s, i) PROVE k \in After(u, i)
    <3>1. k \in 1 .. a /\ k > i /\ \A j \in i + 1 .. k : s[j].role = "tool"
      BY <1>2 DEF After
    <3>2. \A j \in i + 1 .. k : u[j].role = "tool"
      <4> TAKE j \in i + 1 .. k
      <4>1. j \in 1 .. a
        BY <1>2, <3>1
      <4> QED
        BY <1>1, <3>1, <4>1
    <3>3. k \in 1 .. a + b
      BY <1>2, <3>1
    <3> QED
      BY <1>2, <3>1, <3>2, <3>3 DEF After
  <2> QED
    BY <2>1, <2>2
<1>5. ASSUME NEW i \in 1 .. b, NEW k
      PROVE  k \in After(u, a + i) <=> \E l \in After(t, i) : k = a + l
  <2>1. ASSUME k \in After(u, a + i) PROVE \E l \in After(t, i) : k = a + l
    <3>1. k \in 1 .. a + b /\ k > a + i /\ \A j \in a + i + 1 .. k : u[j].role = "tool"
      BY <1>2, <2>1 DEF After
    <3> DEFINE l == k - a
    <3>2. l \in 1 .. b /\ l > i /\ k = a + l
      BY <1>2, <3>1
    <3> HIDE DEF l
    <3>3. \A j \in i + 1 .. l : t[j].role = "tool"
      <4> TAKE j \in i + 1 .. l
      <4>1. j \in 1 .. b /\ a + j \in a + i + 1 .. k
        BY <1>2, <3>2
      <4>2. u[a + j] = t[j]
        BY <1>1, <4>1
      <4> QED
        BY <3>1, <4>1, <4>2
    <3>4. l \in After(t, i)
      BY <1>2, <3>2, <3>3 DEF After
    <3> QED
      BY <3>2, <3>4
  <2>2. ASSUME NEW l \in After(t, i), k = a + l PROVE k \in After(u, a + i)
    <3>1. l \in 1 .. b /\ l > i /\ \A j \in i + 1 .. l : t[j].role = "tool"
      BY <1>2 DEF After
    <3>2. k \in 1 .. a + b /\ k > a + i
      BY <1>2, <2>2, <3>1
    <3>3. \A j \in a + i + 1 .. k : u[j].role = "tool"
      <4> TAKE j \in a + i + 1 .. k
      <4> DEFINE h == j - a
      <4>1. h \in i + 1 .. l /\ h \in 1 .. b /\ j = a + h
        BY <1>2, <2>2, <3>1
      <4> HIDE DEF h
      <4>2. u[a + h] = t[h]
        BY <1>1, <4>1
      <4> QED
        BY <3>1, <4>1, <4>2
    <3> QED
      BY <1>2, <3>2, <3>3 DEF After
  <2> QED
    BY <2>1, <2>2
<1> QED
  BY <1>4, <1>5 DEF u, a, b

\* The results that follow position i of s follow position j of t, n further on.
Moved(s, i, t, j, n) ==
    /\ t[j].calls = s[i].calls
    /\ \A k : k \in After(t, j) <=> \E l \in After(s, i) : k = n + l
    /\ \A l \in After(s, i) : t[n + l].of = s[l].of /\ t[n + l].text = s[l].text

LEMMA AnsweredMoved ==
    ASSUME NEW s, NEW i, NEW t, NEW j, NEW n, Moved(s, i, t, j, n), Answered(s, i)
    PROVE  Answered(t, j)
<1> DEFINE calls == s[i].calls
<1>1. /\ \A k \in After(s, i) : \E c \in DOMAIN calls :
            /\ Matches(s[k], calls[c])
            /\ \A d \in DOMAIN calls : calls[d].id = calls[c].id => d = c
      /\ \A c \in DOMAIN calls : \E k \in After(s, i) : Matches(s[k], calls[c])
  BY DEF Answered
<1>2. /\ t[j].calls = calls
      /\ \A k : k \in After(t, j) <=> \E l \in After(s, i) : k = n + l
  BY DEF Moved
<1>3. \A l \in After(s, i) : \A c : Matches(t[n + l], c) <=> Matches(s[l], c)
  BY DEF Moved, Matches
<1> HIDE DEF calls
<1>4. ASSUME NEW k \in After(t, j)
      PROVE  \E c \in DOMAIN calls :
                /\ Matches(t[k], calls[c])
                /\ \A d \in DOMAIN calls : calls[d].id = calls[c].id => d = c
  <2>1. PICK l \in After(s, i) : k = n + l
    BY <1>2
  <2>2. PICK c \in DOMAIN calls :
            /\ Matches(s[l], calls[c])
            /\ \A d \in DOMAIN calls : calls[d].id = calls[c].id => d = c
    BY <1>1
  <2>3. Matches(t[k], calls[c])
    BY <1>3, <2>1, <2>2
  <2> QED
    BY <2>2, <2>3
<1>5. ASSUME NEW c \in DOMAIN calls PROVE \E k \in After(t, j) : Matches(t[k], calls[c])
  <2>1. PICK l \in After(s, i) : Matches(s[l], calls[c])
    BY <1>1
  <2>2. n + l \in After(t, j) /\ Matches(t[n + l], calls[c])
    BY <1>2, <1>3, <2>1
  <2> QED
    BY <2>2
<1> QED
  BY <1>2, <1>4, <1>5 DEF Answered

LEMMA PairedJoined ==
    ASSUME NEW S, NEW s \in Seq(S), NEW t \in Seq(S), Paired(s), Paired(t)
    PROVE  s \o t \in Seq(S) /\ Paired(s \o t)
<1> DEFINE u == s \o t
           a == Len(s)
           b == Len(t)
<1>1. /\ u \in Seq(S) /\ Len(u) = a + b /\ (\A i \in 1 .. a : u[i] = s[i])
      /\ \A i \in 1 .. b : u[a + i] = t[i]
  BY Joined
<1>2. /\ DOMAIN s = 1 .. a /\ a \in Nat /\ DOMAIN t = 1 .. b /\ b \in Nat
      /\ DOMAIN u = 1 .. a + b
  <2> HIDE DEF u
  <2> QED
    BY <1>1, SeqIs
<1>3. /\ \A k \in 1 .. a : s[k].role = "tool" =>
            \E i \in 1 .. a : s[i].role = "assistant" /\ k \in After(s, i)
      /\ \A i \in 1 .. a : s[i].role = "assistant" => Answered(s, i)
  BY <1>2 DEF Paired
<1>4. /\ \A k \in 1 .. b : t[k].role = "tool" =>
            \E i \in 1 .. b : t[i].role = "assistant" /\ k \in After(t, i)
      /\ \A i \in 1 .. b : t[i].role = "assistant" => Answered(t, i)
  BY <1>2 DEF Paired
<1>5. b > 0 => t[1].role # "tool"
  <2> SUFFICES ASSUME b > 0, t[1].role = "tool" PROVE FALSE
    OBVIOUS
  <2>1. PICK i \in 1 .. b : 1 \in After(t, i)
    BY <1>2, <1>4
  <2>2. 1 > i
    BY <2>1 DEF After
  <2> QED
    BY <1>2, <2>2
<1>6. /\ \A i \in 1 .. a : After(u, i) = After(s, i)
      /\ \A i \in 1 .. b : \A k : k \in After(u, a + i) <=> \E l \in After(t, i) : k = a + l
  BY <1>5, AfterJoined
<1>7. /\ \A i : After(s, i) \subseteq 1 .. a
      /\ \A i : After(t, i) \subseteq 1 .. b
  BY <1>2 DEF After
<1> HIDE DEF u, a, b
<1>8. ASSUME NEW k \in 1 .. a + b, u[k].role = "tool"
      PROVE  \E i \in 1 .. a + b : u[i].role = "assistant" /\ k \in After(u, i)
  <2>1. CASE k <= a
    <3>1. k \in 1 .. a
      BY <1>2, <2>1
    <3>2. PICK i \in 1 .. a : s[i].role = "assistant" /\ k \in After(s, i)
      BY <1>1, <1>3, <1>8, <3>1
    <3>3. i \in 1 .. a + b
      BY <1>2
    <3> QED
      BY <1>1, <1>6, <3>2, <3>3
  <2>2. CASE k > a
    <3> DEFINE l == k - a
    <3>1. l \in 1 .. b /\ k = a + l
      BY <1>2, <2>2
    <3> HIDE DEF l
    <3>2. PICK i \in 1 .. b : t[i].role = "assistant" /\ l \in After(t, i)
      BY <1>1, <1>4, <1>8, <3>1
    <3>3. a + i \in 1 .. a + b
      BY <1>2
    <3>4. k \in After(u, a + i) /\ u[a + i].role = "assistant"
      BY <1>1, <1>6, <3>1, <3>2
    <3> QED
      BY <3>3, <3>4
  <2> QED
    BY <1>2, <2>1, <2>2
<1>9. ASSUME NEW i \in 1 .. a, u[i].role = "assistant" PROVE Answered(u, i)
  <2>1. \A l \in After(s, i) : l \in 1 .. a /\ 0 + l = l
    BY <1>2, <1>7
  <2>2. Moved(s, i, u, i, 0)
    BY <1>1, <1>6, <2>1 DEF Moved
  <2>3. Answered(s, i)
    BY <1>1, <1>3, <1>9
  <2> QED
    BY <2>2, <2>3, AnsweredMoved
<1>10. ASSUME NEW i \in 1 .. b, u[a + i].role = "assistant" PROVE Answered(u, a + i)
  <2>1. \A l \in After(t, i) : l \in 1 .. b
    BY <1>7
  <2>2. Moved(t, i, u, a + i, a)
    BY <1>1, <1>6, <2>1 DEF Moved
  <2>3. Answered(t, i)
    BY <1>1, <1>4, <1>10
  <2> QED
    BY <2>2, <2>3, AnsweredMoved
<1>11. ASSUME NEW i \in 1 .. a + b, u[i].role = "assistant" PROVE Answered(u, i)
  <2>1. CASE i <= a
    BY <1>2, <1>9, <1>11, <2>1
  <2>2. CASE i > a
    <3> DEFINE l == i - a
    <3>1. l \in 1 .. b /\ i = a + l
      BY <1>2, <2>2
    <3> HIDE DEF l
    <3> QED
      BY <1>10, <1>11, <3>1
  <2> QED
    BY <1>2, <2>1, <2>2
<1> QED
  BY <1>1, <1>2, <1>8, <1>11 DEF Paired, u

\* A message that has just the calls of open, each named by its id alone, and
\* their results, in order.
Calling(m, open) ==
    /\ m.role = "assistant"
    /\ DOMAIN m.calls = 1 .. Len(open)
    /\ \A i \in 1 .. Len(open) : m.calls[i].id = open[i].id /\ m.calls[i].what = open[i].what
    /\ \A i, j \in 1 .. Len(open) : open[i].id = open[j].id => i = j

Resulting(t, open) ==
    /\ Len(t) = Len(open)
    /\ \A i \in 1 .. Len(open) :
          /\ t[i].role = "tool"
          /\ t[i].of = open[i].id
          /\ t[i].text = <<Atom("result", open[i].what[2], open[i].what[3])>>

LEMMA PairedUnit ==
    ASSUME NEW S, NEW m \in S, NEW t \in Seq(S), NEW R, NEW open \in Seq(R),
           Calling(m, open), Resulting(t, open)
    PROVE  <<m>> \o t \in Seq(S) /\ Paired(<<m>> \o t)
<1> DEFINE o == <<m>>
           u == o \o t
           n == Len(open)
           calls == m.calls
<1>1. n \in Nat /\ Len(t) = n
  BY DEF Resulting
<1>2. o \in Seq(S) /\ Len(o) = 1 /\ o[1] = m
  BY OneIs
<1>3. /\ u \in Seq(S) /\ Len(u) = 1 + n /\ u[1] = m
      /\ \A i \in 1 .. n : u[1 + i] = t[i]
  <2>0. o \in Seq(S)
    BY <1>2
  <2> HIDE DEF o
  <2>1. /\ u \in Seq(S) /\ Len(u) = Len(o) + Len(t)
        /\ (\A i \in 1 .. Len(o) : u[i] = o[i])
        /\ \A i \in 1 .. Len(t) : u[Len(o) + i] = t[i]
    BY <2>0, Joined
  <2> HIDE DEF u
  <2> QED
    BY <1>1, <1>2, <2>1
<1>4. DOMAIN u = 1 .. 1 + n
  <2> HIDE DEF u
  <2> QED
    BY <1>3, SeqIs
<1>5. /\ m.role = "assistant" /\ DOMAIN calls = 1 .. n
      /\ \A i \in 1 .. n : calls[i].id = open[i].id /\ calls[i].what = open[i].what
      /\ \A i, j \in 1 .. n : open[i].id = open[j].id => i = j
  BY DEF Calling
<1>6. \A i \in 1 .. n :
         /\ u[1 + i].role = "tool"
         /\ u[1 + i].of = open[i].id
         /\ u[1 + i].text = <<Atom("result", open[i].what[2], open[i].what[3])>>
  BY <1>3 DEF Resulting
<1> HIDE DEF u, n, o, calls
<1>7. ASSUME NEW k \in 2 .. 1 + n PROVE \E i \in 1 .. n : k = 1 + i
  <2>1. k - 1 \in 1 .. n /\ k = 1 + (k - 1)
    BY <1>1
  <2> QED
    BY <2>1
<1>8. \A k : k \in After(u, 1) <=> k \in 2 .. 1 + n
  <2>1. ASSUME NEW k \in 2 .. 1 + n PROVE k \in After(u, 1)
    <3>1. \A j \in 1 + 1 .. k : u[j].role = "tool"
      <4> TAKE j \in 1 + 1 .. k
      <4>1. j \in 2 .. 1 + n
        BY <1>1
      <4>2. PICK i \in 1 .. n : j = 1 + i
        BY <1>7, <4>1
      <4> QED
        BY <1>6, <4>2
    <3>2. k \in 1 .. 1 + n /\ k > 1
      BY <1>1
    <3> QED
      BY <1>4, <3>1, <3>2 DEF After
  <2>2. ASSUME NEW k \in After(u, 1) PROVE k \in 2 .. 1 + n
    <3>1. k \in 1 .. 1 + n /\ k > 1
      BY <1>4 DEF After
    <3> QED
      BY <1>1, <3>1
  <2> QED
    BY <2>1, <2>2
<1>9. \A i \in 1 .. n : Matches(u[1 + i], calls[i])
  BY <1>5, <1>6 DEF Matches
<1>10. \A i, d \in 1 .. n : calls[d].id = calls[i].id => d = i
  BY <1>5
<1>11. Answered(u, 1)
  <2>1. ASSUME NEW k \in After(u, 1)
        PROVE  \E c \in DOMAIN calls :
                  /\ Matches(u[k], calls[c])
                  /\ \A d \in DOMAIN calls : calls[d].id = calls[c].id => d = c
    <3>1. PICK i \in 1 .. n : k = 1 + i
      BY <1>7, <1>8
    <3> QED
      BY <1>5, <1>9, <1>10, <3>1
  <2>2. ASSUME NEW c \in DOMAIN calls PROVE \E k \in After(u, 1) : Matches(u[k], calls[c])
    <3>1. c \in 1 .. n /\ 1 + c \in 2 .. 1 + n
      BY <1>1, <1>5
    <3> QED
      BY <1>8, <1>9, <3>1
  <2>3. u[1].calls = calls
    BY <1>3 DEF calls
  <2> QED
    BY <2>1, <2>2, <2>3 DEF Answered
<1>12. \A k \in 1 .. 1 + n : k = 1 \/ (u[k].role = "tool" /\ k \in After(u, 1))
  <2> TAKE k \in 1 .. 1 + n
  <2>1. CASE k # 1
    <3>1. k \in 2 .. 1 + n
      BY <1>1, <2>1
    <3>2. PICK i \in 1 .. n : k = 1 + i
      BY <1>7, <3>1
    <3> QED
      BY <1>6, <1>8, <3>1, <3>2
  <2> QED
    BY <2>1
<1>13. 1 \in 1 .. 1 + n /\ u[1].role = "assistant"
  BY <1>1, <1>3, <1>5
<1>14. /\ \A k \in DOMAIN u : u[k].role = "tool" =>
             \E i \in DOMAIN u : u[i].role = "assistant" /\ k \in After(u, i)
       /\ \A i \in DOMAIN u : u[i].role = "assistant" => Answered(u, i)
  BY <1>4, <1>11, <1>12, <1>13
<1>15. Paired(u)
  BY <1>14 DEF Paired
<1> QED
  BY <1>3, <1>15 DEF u, o

-----------------------------------------------------------------------------
(* What pairing looks at: what each entry becomes, once built.             *)

NotSystem == [m \in OutSet |-> IF m.role = "system" THEN <<>> ELSE <<m>>]

\* An Anthropic client's system messages go to the front: they do not matter.
Talk(protocol) == IF protocol = "anthropic" THEN NotSystem ELSE Selves

Talks(protocol) == PerEntry(Talk(protocol), protocol)

Spoken(protocol, entries) == Gather(Talks(protocol), entries)

PlainSet == {m \in OutSet : Plain(m)}

LEMMA PlainIs ==
    ASSUME NEW s \in Seq(PlainSet)
    PROVE  s \in Seq(OutSet) /\ Paired(s)
<1>1. PlainSet \subseteq OutSet
  BY DEF PlainSet
<1>2. s \in Seq(OutSet)
  BY <1>1, SeqLarger
<1>3. \A i \in 1 .. Len(s) : Plain(s[i])
  <2>1. \A i \in 1 .. Len(s) : s[i] \in PlainSet
    BY SeqIs
  <2> QED
    BY <2>1 DEF PlainSet
<1> QED
  BY <1>2, <1>3, PairedPlain

LEMMA TalkMaps ==
    ASSUME NEW protocol \in Protocols
    PROVE  /\ Maps(Talk(protocol), OutSet, OutSet) /\ Maps(Selves, OutSet, OutSet)
           /\ Maps(NotSystem, OutSet, OutSet)
           /\ Maps(OnReady(Talk(protocol)), MessageSet, OutSet)
           /\ Maps(Parse(protocol), EntrySet(protocol), MessageSet)
           /\ Maps(Talks(protocol), EntrySet(protocol), OutSet)
           /\ \A e \in EntrySet(protocol) :
                 Talks(protocol)[e] = Gather(OnReady(Talk(protocol)), ParsedTo(protocol, e))
<1>1. \A m \in OutSet : <<m>> \in Seq(OutSet)
  BY OneIs
<1>2. <<>> \in Seq(OutSet)
  BY NoneIs
<1>3. Maps(Selves, OutSet, OutSet) /\ Maps(NotSystem, OutSet, OutSet)
  BY <1>1, <1>2 DEF Maps, Selves, NotSystem
<1>4. Maps(Talk(protocol), OutSet, OutSet)
  BY <1>3 DEF Talk
<1>5. Maps(OnReady(Talk(protocol)), MessageSet, OutSet)
  <2> DEFINE G == Talk(protocol)
  <2>1. Maps(G, OutSet, OutSet)
    BY <1>4
  <2> HIDE DEF G
  <2>2. \A m \in InSet(AtomSet) : Ready(m) \in OutSet
    BY ReadyIs
  <2>3. \A m \in InSet(AtomSet) : G[Ready(m)] \in Seq(OutSet)
    BY <2>1, <2>2 DEF Maps
  <2>4. Maps(OnReady(G), InSet(AtomSet), OutSet)
    BY <2>3 DEF OnReady, Maps
  <2> QED
    BY <2>4 DEF G, MessageSet
<1>6. Maps(Parse(protocol), EntrySet(protocol), MessageSet)
  <2>1. Maps(Parse(protocol), EntrySet(protocol), InSet(TextSet))
    BY ParseMaps
  <2>2. Seq(InSet(TextSet)) \subseteq Seq(MessageSet)
    BY InLarger, SeqLarger DEF MessageSet
  <2> HIDE DEF MessageSet
  <2> QED
    BY <2>1, <2>2 DEF Maps
<1> DEFINE F == Parse(protocol)
           G == OnReady(Talk(protocol))
           E == EntrySet(protocol)
           T == Talks(protocol)
<1>7. Maps(F, E, MessageSet) /\ Maps(G, MessageSet, OutSet) /\ T = Through(G, F, E)
  BY <1>5, <1>6 DEF Talks, PerEntry
<1>8. \A e \in E : F[e] = ParsedTo(protocol, e)
  BY DEF Parse
<1> HIDE DEF F, G, E, T
<1>9. Maps(Through(G, F, E), E, OutSet)
  <2> DEFINE none == <<>>
             M == MessageSet
             O == OutSet
  <2>1. none \in Seq(E)
    BY NoneIs
  <2>2. Maps(F, E, M) /\ Maps(G, M, O)
    BY <1>7
  <2> HIDE DEF none, M, O
  <2>3. Maps(Through(G, F, E), E, O) /\ Gather(G, Gather(F, none)) = Gather(Through(G, F, E), none)
    BY <2>1, <2>2, GatherTwice
  <2> QED
    BY <2>3 DEF O
<1>10. \A e \in E : T[e] = Gather(G, ParsedTo(protocol, e))
  BY <1>7, <1>8 DEF Through
<1> QED
  BY <1>3, <1>4, <1>5, <1>6, <1>7, <1>9, <1>10 DEF G, E, T

LEMMA SpokenIs ==
    ASSUME NEW protocol \in Protocols, NEW s \in Seq(EntrySet(protocol)), NEW t \in Seq(EntrySet(protocol))
    PROVE  /\ Spoken(protocol, s) \in Seq(OutSet)
           /\ Spoken(protocol, s \o t) = Spoken(protocol, s) \o Spoken(protocol, t)
           /\ (\A i \in 1 .. Len(s) : Talks(protocol)[s[i]] \in Seq(PlainSet)) =>
                 Spoken(protocol, s) \in Seq(PlainSet)
<1> DEFINE E == EntrySet(protocol)
           T == Talks(protocol)
           O == OutSet
           P == PlainSet
<1>1. Maps(T, E, O) /\ s \in Seq(E) /\ t \in Seq(E)
  BY TalkMaps
<1> HIDE DEF E, T, O, P
<1>2. Gather(T, s) \in Seq(O)
  BY <1>1, GatherTyped
<1>3. Gather(T, s \o t) = Gather(T, s) \o Gather(T, t)
  BY <1>1, GatherJoined
<1>4. (\A i \in 1 .. Len(s) : T[s[i]] \in Seq(P)) => Gather(T, s) \in Seq(P)
  <2> HAVE \A i \in 1 .. Len(s) : T[s[i]] \in Seq(P)
  <2> QED
    BY <1>1, GatherKind
<1> QED
  BY <1>2, <1>3, <1>4 DEF Spoken, T, O, P

\* What is sent is what was spoken, behind system messages; but for the text of
\* a system message.
LEMMA SpokenSent ==
    ASSUME client.protocol \in {"openai", "responses"}, NEW entries \in Seq(EntrySet(client.protocol))
    PROVE  /\ Parsed(entries) \in Seq(MessageSet)
           /\ \E a \in Seq(PlainSet) :
                 Each(Ready, Parsed(entries)) = a \o Spoken(client.protocol, entries)
<1> DEFINE p == client.protocol
           E == EntrySet(p)
           X == Parsed(entries)
           Y == Gather(Parse(p), entries)
           c == Each(Ready, X)
           F == OnReady(Selves)
           O == OutSet
           M == MessageSet
<1>1. p \in Protocols /\ p # "anthropic" /\ Talk(p) = Selves
  BY DEF Protocols, Talk
<1>2. X = Prompt \o Y /\ X \in Seq(M) /\ Y \in Seq(M) /\ Prompt \in Seq(M)
  BY <1>1, ParsedIs, PlainlyTyped DEF Plainly
<1>3. Maps(Selves, O, O) /\ Maps(F, M, O) /\ Maps(Parse(p), E, M) /\ Talks(p) = Through(F, Parse(p), E)
  BY <1>1, TalkMaps DEF Talks, PerEntry
<1>4. /\ c \in Seq(O) /\ Gather(Selves, c) = Gather(F, X)
  <2>1. X \in Seq(InSet(AtomSet))
    BY <1>2 DEF MessageSet
  <2> HIDE DEF X
  <2> QED
    BY <1>3, <2>1, ReadyGathered
<1>5. Gather(Selves, c) = c
  <2> HIDE DEF c
  <2>1. \A i \in 1 .. Len(c) : Selves[c[i]] = <<c[i]>>
    BY <1>4, SeqIs DEF Selves
  <2> QED
    BY <1>3, <1>4, <2>1, GatherSelf
<1>6. \A i \in 1 .. Len(Prompt) : F[Prompt[i]] \in Seq(PlainSet)
  <2> TAKE i \in 1 .. Len(Prompt)
  <2>1. IsSystem(Prompt[i])
    BY PromptIs
  <2>2. Prompt[i] \in InSet(AtomSet)
    BY <1>2, SeqIs DEF MessageSet
  <2> DEFINE b == Ready(Prompt[i])
  <2>3. b \in OutSet /\ b.role = "system"
    BY <2>1, <2>2, ReadyIs DEF IsSystem
  <2>4. F[Prompt[i]] = <<b>>
    <3>1. F[Prompt[i]] = Selves[b]
      BY <2>2 DEF OnReady
    <3> HIDE DEF b, F
    <3> QED
      BY <2>3, <3>1 DEF Selves
  <2> HIDE DEF b, F
  <2>5. b \in PlainSet
    BY <2>3 DEF PlainSet, Plain
  <2> QED
    BY <2>4, <2>5, OneIs
<1> DEFINE a == Gather(F, Prompt)
           G == Parse(p)
           n == entries
<1>7. n \in Seq(E) /\ Maps(G, E, M) /\ Y = Gather(G, n) /\ Talks(p) = Through(F, G, E)
  BY <1>3
<1> HIDE DEF X, Y, c, F, O, M, E, G, n
<1>8. a \in Seq(PlainSet)
  <2> DEFINE P == PlainSet
             q == Prompt
  <2>1. q \in Seq(M) /\ Maps(F, M, O) /\ \A i \in 1 .. Len(q) : F[q[i]] \in Seq(P)
    BY <1>2, <1>3, <1>6
  <2> HIDE DEF P, q
  <2>2. Gather(F, q) \in Seq(P)
    BY <2>1, GatherKind
  <2> QED
    BY <2>2 DEF P, q
<1>9. Gather(F, X) = a \o Gather(F, Y)
  <2> DEFINE q == Prompt
  <2>1. q \in Seq(M) /\ Y \in Seq(M) /\ Maps(F, M, O)
    BY <1>2, <1>3
  <2> HIDE DEF q
  <2>2. Gather(F, q \o Y) = Gather(F, q) \o Gather(F, Y)
    BY <2>1, GatherJoined
  <2> QED
    BY <1>2, <2>2 DEF q
<1>10. Gather(F, Y) = Spoken(p, entries)
  <2>1. Maps(Through(F, G, E), E, O) /\ Gather(F, Gather(G, n)) = Gather(Through(F, G, E), n)
    BY <1>3, <1>7, GatherTwice
  <2> QED
    BY <1>7, <2>1, Zenon DEF Spoken, n
<1>11. c = a \o Spoken(p, entries)
  BY <1>4, <1>5, <1>9, <1>10, Zenon
<1> HIDE DEF a, p
<1>12. X \in Seq(M) /\ \E d \in Seq(PlainSet) : c = d \o Spoken(p, entries)
  BY <1>2, <1>8, <1>11
<1> QED
  BY <1>12 DEF X, c, p, M

LEMMA PairedSent ==
    ASSUME KnownInv, turn = "upstream", client.protocol # "anthropic",
           Paired(Spoken(client.protocol, history))
    PROVE  Paired(request.messages)
<1> DEFINE p == client.protocol
           X == Parsed(history)
           d == Explained(X)
           ms == request.messages
           c == Each(Ready, X)
           s == Spoken(p, history)
<1>1. /\ p \in {"openai", "responses"} /\ p \in Protocols /\ history \in Seq(EntrySet(p))
      /\ d \in Seq(MessageSet) /\ ms = Each(Ready, d)
  BY RequestIs DEF Protocols
<1>2. X \in Seq(MessageSet) /\ \E a \in Seq(PlainSet) : c = a \o s
  BY <1>1, SpokenSent
<1>3. s \in Seq(OutSet) /\ Paired(s)
  BY <1>1, SpokenIs
<1> HIDE DEF s, X
<1>4. c \in Seq(OutSet) /\ Paired(c)
  <2>1. PICK a \in Seq(PlainSet) : c = a \o s
    BY <1>2
  <2>2. a \in Seq(OutSet) /\ Paired(a)
    BY PlainIs
  <2> HIDE DEF c
  <2>3. a \o s \in Seq(OutSet) /\ Paired(a \o s)
    BY <1>3, <2>2, PairedJoined
  <2> QED
    BY <2>1, <2>3
<1>5. /\ Len(c) = Len(X) /\ \A i \in 1 .. Len(X) : X[i] \in InSet(AtomSet) /\ c[i] = Ready(X[i])
  BY <1>2, ReadyGathered DEF MessageSet
<1>6. /\ ms \in Seq(OutSet) /\ Len(ms) = Len(d)
      /\ \A i \in 1 .. Len(d) : d[i] \in InSet(AtomSet) /\ ms[i] = Ready(d[i])
  <2>1. d \in Seq(InSet(AtomSet))
    BY <1>1 DEF MessageSet
  <2> HIDE DEF d
  <2>2. /\ Each(Ready, d) \in Seq(OutSet) /\ Len(Each(Ready, d)) = Len(d)
        /\ \A i \in 1 .. Len(d) : d[i] \in InSet(AtomSet) /\ Each(Ready, d)[i] = Ready(d[i])
    BY <2>1, ReadyGathered
  <2> QED
    BY <1>1, <2>2
<1>7. DOMAIN c = 1 .. Len(X) /\ DOMAIN ms = 1 .. Len(d) /\ Len(X) \in Nat
  <2> HIDE DEF c, ms
  <2> QED
    BY <1>2, <1>4, <1>5, <1>6, SeqIs
<1>8. CASE d = X
  BY <1>1, <1>4, <1>8
<1>9. CASE d = <<Alone_Told>> \o X
  <2> DEFINE b == Ready(Alone_Told)
             o == <<b>>
  <2>1. b \in OutSet /\ b.role = "system"
    BY AloneToldIs, ReadyIs DEF IsSystem, MessageSet
  <2>2. b \in PlainSet
    BY <2>1 DEF PlainSet, Plain
  <2>3. o \in Seq(PlainSet) /\ Len(o) = 1 /\ o[1] = b
    <3> HIDE DEF b
    <3> QED
      BY <2>2, OneIs
  <2> HIDE DEF o, b, c, d
  <2>4. o \in Seq(OutSet) /\ Paired(o)
    BY <2>3, PlainIs
  <2>5. o \o c \in Seq(OutSet) /\ Paired(o \o c)
    BY <1>4, <2>4, PairedJoined
  <2>6. ms = o \o c
    <3> DEFINE t == <<Alone_Told>>
    <3>1. t \in Seq(MessageSet) /\ Len(t) = 1 /\ t[1] = Alone_Told
      BY AloneToldIs, OneIs
    <3>2. d = t \o X
      BY <1>9
    <3> HIDE DEF t, ms
    <3>3. t \in Seq(MessageSet)
      BY <3>1
    <3>4. /\ Len(d) = Len(t) + Len(X) /\ (\A i \in 1 .. Len(t) : d[i] = t[i])
          /\ \A i \in 1 .. Len(X) : d[Len(t) + i] = X[i]
      <4>1. /\ Len(t \o X) = Len(t) + Len(X) /\ (\A i \in 1 .. Len(t) : (t \o X)[i] = t[i])
            /\ \A i \in 1 .. Len(X) : (t \o X)[Len(t) + i] = X[i]
        BY <1>2, <3>3, Joined
      <4> QED
        BY <3>2, <4>1
    <3>5. o \in Seq(OutSet) /\ c \in Seq(OutSet)
      BY <1>4, <2>4
    <3>6. /\ Len(o \o c) = Len(o) + Len(c) /\ (\A i \in 1 .. Len(o) : (o \o c)[i] = o[i])
          /\ \A i \in 1 .. Len(c) : (o \o c)[Len(o) + i] = c[i]
      BY <3>5, Joined
    <3> DEFINE u == o \o c
    <3>7. /\ Len(u) = 1 + Len(X) /\ u[1] = b /\ \A i \in 1 .. Len(X) : u[1 + i] = c[i]
      BY <1>5, <2>3, <3>6
    <3>8. /\ Len(d) = 1 + Len(X) /\ d[1] = Alone_Told /\ \A i \in 1 .. Len(X) : d[1 + i] = X[i]
      BY <3>1, <3>4
    <3> HIDE DEF u
    <3>9. \A i \in 1 .. Len(ms) : ms[i] = u[i]
      <4> TAKE i \in 1 .. Len(ms)
      <4>1. CASE i = 1
        BY <1>6, <3>7, <3>8, <4>1 DEF b
      <4>2. CASE i # 1
        <5> DEFINE j == i - 1
        <5>1. j \in 1 .. Len(X) /\ i = 1 + j
          BY <1>6, <1>7, <3>8, <4>2
        <5> HIDE DEF j
        <5>2. u[i] = Ready(X[j]) /\ d[i] = X[j]
          BY <1>5, <3>7, <3>8, <5>1
        <5> QED
          BY <1>6, <5>2
      <4> QED
        BY <4>1, <4>2
    <3>10. u \in Seq(OutSet) /\ Len(ms) = Len(u)
      BY <1>6, <2>5, <3>7, <3>8 DEF u
    <3>11. ms = u
      BY <1>6, <3>9, <3>10, SameSeq
    <3> QED
      BY <3>11 DEF u
  <2> QED
    BY <2>5, <2>6
<1>10. CASE \E k : FirstSystem(X, k) /\ ToldAt(d, X, k)
  <2>1. PICK k : FirstSystem(X, k) /\ ToldAt(d, X, k)
    BY <1>10
  <2> HIDE DEF d, c, ms
  <2>2. /\ k \in 1 .. Len(X) /\ IsSystem(X[k]) /\ Len(d) = Len(X) /\ d[k] = WithTools(X[k])
        /\ \A i \in 1 .. Len(X) : i # k => d[i] = X[i]
    BY <2>1 DEF FirstSystem, ToldAt
  <2>3. Like(c, ms)
    <3>1. ASSUME NEW i \in 1 .. Len(X)
          PROVE  /\ ms[i].role = c[i].role /\ ms[i].calls = c[i].calls /\ ms[i].of = c[i].of
                 /\ c[i].role = "tool" => ms[i].text = c[i].text
      <4>1. CASE i # k
        BY <1>5, <1>6, <2>2, <4>1
      <4>2. CASE i = k
        <5> DEFINE x == X[i]
                   w == WithTools(X[i])
        <5>1. x \in MessageSet /\ IsSystem(x) /\ c[i] = Ready(x) /\ ms[i] = Ready(w)
          BY <1>5, <1>6, <2>2, <4>2 DEF MessageSet
        <5>2. w \in MessageSet /\ w.role = x.role
          BY <5>1, WithToolsIs
        <5>3. w.calls = x.calls /\ w.of = x.of
          BY <5>1 DEF WithTools, MessageSet, InSet
        <5> HIDE DEF x, w
        <5>4. x.role = "system"
          BY <5>1 DEF IsSystem
        <5>5. /\ Ready(x).role = x.role /\ Ready(x).of = x.of /\ Ready(x).calls = Named(x.calls)
              /\ Ready(w).role = w.role /\ Ready(w).of = w.of /\ Ready(w).calls = Named(w.calls)
          BY <5>1, <5>2, ReadyIs DEF MessageSet
        <5> QED
          BY <5>1, <5>2, <5>3, <5>4, <5>5
      <4> QED
        BY <4>1, <4>2
    <3> QED
      BY <1>7, <2>2, <3>1 DEF Like
  <2> QED
    BY <1>4, <2>3, PairedLike DEF ms
<1>11. d = X \/ d = <<Alone_Told>> \o X \/ \E k : FirstSystem(X, k) /\ ToldAt(d, X, k)
  BY <1>2, ExplainedIs
<1> HIDE DEF d, ms
<1>12. Paired(ms)
  BY <1>8, <1>9, <1>10, <1>11, Zenon DEF ms
<1> QED
  BY <1>12 DEF ms

\* An Anthropic client's system messages are in front.
LEMMA PairedBehind ==
    ASSUME KnownInv, turn = "upstream", client.protocol = "anthropic",
           Paired(Spoken(client.protocol, history))
    PROVE  Paired(request.messages)
<1> DEFINE p == client.protocol
           X == Parsed(history)
           d == Explained(X)
           ms == request.messages
           O == OutSet
           N == NotSystem
<1>1. /\ p \in Protocols /\ history \in Seq(EntrySet(p)) /\ request = Sent(history)
      /\ d \in Seq(MessageSet) /\ ms \in Seq(O) /\ Len(ms) = Len(d)
      /\ \A i \in 1 .. Len(ms) : ms[i] = Ready(d[i])
  BY RequestIs
<1>2. /\ Talk(p) = N /\ Maps(N, O, O) /\ \A m \in O : m.role = "system" => N[m] = <<>>
  BY <1>1, TalkMaps DEF Talk, NotSystem
<1>3. Gather(N, ms) = Spoken(p, history)
  <2>1. Gather(NotSystem, Sent(history).messages) = Gather(PerEntry(NotSystem, p), history)
    BY <1>1, <1>2, Pipe
  <2>2. ms = Sent(history).messages
    BY <1>1
  <2> HIDE DEF ms
  <2> QED
    BY <1>2, <2>1, <2>2 DEF Spoken, Talks
<1>4. PICK n \in 0 .. Len(d) : SystemsUpTo(d, n)
  <2>1. Plainly(history) \in Seq(MessageSet) /\ X = SystemFirst(Plainly(history))
    BY <1>1, PlainlyTyped, ParsedIs
  <2>2. \E n \in 0 .. Len(X) : X \in Seq(MessageSet) /\ SystemsUpTo(X, n)
    BY <2>1, SystemsAhead
  <2> HIDE DEF X
  <2> QED
    BY <2>2, ExplainedAhead DEF d
<1> DEFINE l == Len(ms)
           a == [i \in 1 .. n |-> ms[i]]
           b == [i \in 1 .. l - n |-> ms[n + i]]
<1> HIDE DEF d, ms, X, O, N
<1>5. \A i \in 1 .. l : ms[i] \in O /\ (ms[i].role = "system" <=> i <= n)
  <2>1. \A i \in 1 .. l : ms[i] \in O /\ d[i] \in MessageSet
    BY <1>1, SeqIs
  <2>2. \A i \in 1 .. l : IsSystem(d[i]) <=> i <= n
    BY <1>1, <1>4 DEF SystemsUpTo
  <2>3. \A i \in 1 .. l : Ready(d[i]).role = d[i].role
    BY <2>1, ReadyIs DEF MessageSet
  <2> QED
    BY <1>1, <2>1, <2>2, <2>3 DEF IsSystem
<1>6. n \in Nat /\ l \in Nat /\ n <= l
  <2>1. l \in Nat
    BY <1>1, SeqIs
  <2> QED
    BY <1>1, <1>4, <2>1
<1>7. a \in Seq(O) /\ Len(a) = n /\ \A i \in 1 .. n : a[i] = ms[i] /\ a[i].role = "system"
  <2>1. \A i \in 1 .. n : ms[i] \in O /\ ms[i].role = "system"
    BY <1>5, <1>6
  <2> QED
    BY <1>6, <2>1
<1>8. b \in Seq(O) /\ Len(b) = l - n /\ \A i \in 1 .. l - n : b[i] = ms[n + i] /\ b[i].role # "system"
  <2>1. \A i \in 1 .. l - n : ms[n + i] \in O /\ ms[n + i].role # "system"
    BY <1>5, <1>6
  <2> DEFINE k == l - n
             f == [i \in 1 .. k |-> ms[n + i]]
  <2>2. k \in Nat /\ \A i \in 1 .. k : ms[n + i] \in O /\ ms[n + i].role # "system"
    BY <1>6, <2>1
  <2> HIDE DEF k
  <2>3. f \in Seq(O) /\ Len(f) = k /\ \A i \in 1 .. k : f[i] = ms[n + i]
    BY <2>2
  <2>4. b = f
    BY DEF k
  <2> HIDE DEF f, b
  <2> QED
    BY <2>2, <2>3, <2>4 DEF k
<1> HIDE DEF a, b, l
<1>9. ms = a \o b
  <2> DEFINE u == a \o b
  <2>0. a \in Seq(O) /\ b \in Seq(O)
    BY <1>7, <1>8
  <2>1. /\ u \in Seq(O) /\ Len(u) = Len(a) + Len(b) /\ (\A i \in 1 .. Len(a) : u[i] = a[i])
        /\ \A i \in 1 .. Len(b) : u[Len(a) + i] = b[i]
    BY <2>0, Joined
  <2> HIDE DEF u
  <2>2. \A i \in 1 .. Len(ms) : ms[i] = u[i]
    <3> TAKE i \in 1 .. Len(ms)
    <3>1. CASE i <= n
      BY <1>6, <1>7, <2>1, <3>1
    <3>2. CASE i > n
      <4> DEFINE j == i - n
      <4>1. j \in 1 .. l - n /\ i = n + j
        BY <1>6, <3>2 DEF l
      <4> HIDE DEF j
      <4> QED
        BY <1>7, <1>8, <2>1, <4>1
    <3> QED
      BY <1>6, <3>1, <3>2
  <2>3. Len(ms) = Len(u)
    BY <1>6, <1>7, <1>8, <2>1 DEF l
  <2>4. ms = u
    BY <1>1, <2>1, <2>2, <2>3, SameSeq
  <2> QED
    BY <2>4 DEF u
<1>10. Gather(N, a) = <<>>
  <2>1. \A i \in 1 .. Len(a) : a[i] \in O /\ N[a[i]] = <<>>
    <3>1. \A i \in 1 .. Len(a) : a[i] \in O
      BY <1>7, SeqIs
    <3> QED
      BY <1>2, <1>7, <3>1
  <2> QED
    BY <1>2, <1>7, <2>1, GatherEmpty
<1>11. Gather(N, b) = b
  <2>1. \A i \in 1 .. Len(b) : N[b[i]] = <<b[i]>>
    <3>1. \A i \in 1 .. Len(b) : b[i] \in O /\ b[i].role # "system"
      BY <1>8, SeqIs
    <3> QED
      BY <3>1 DEF N, O, NotSystem
  <2> QED
    BY <1>2, <1>8, <2>1, GatherSelf
<1>12. Spoken(p, history) = b
  <2>1. a \in Seq(O) /\ b \in Seq(O)
    BY <1>7, <1>8
  <2>2. Gather(N, a \o b) = Gather(N, a) \o Gather(N, b)
    BY <1>2, <2>1, GatherJoined
  <2>3. <<>> \o b = b
    BY <2>1, JoinedNone
  <2> QED
    BY <1>3, <1>9, <1>10, <1>11, <2>2, <2>3
<1>13. Paired(a)
  <2>1. \A i \in 1 .. Len(a) : Plain(a[i])
    BY <1>7 DEF Plain
  <2> QED
    BY <1>7, <2>1, PairedPlain
<1>14. Paired(a \o b)
  <2>1. a \in Seq(O) /\ b \in Seq(O) /\ Paired(b)
    BY <1>7, <1>8, <1>12
  <2> QED
    BY <1>13, <2>1, PairedJoined
<1> QED
  BY <1>9, <1>14 DEF ms

\* What is spoken of a message.
LEMMA TalkOne ==
    ASSUME NEW protocol \in Protocols, NEW m \in MessageSet
    PROVE  /\ Ready(m) \in OutSet /\ Ready(m).role = m.role
           /\ OnReady(Talk(protocol))[m] =
                 IF protocol = "anthropic" /\ m.role = "system" THEN <<>> ELSE <<Ready(m)>>
<1> DEFINE b == Ready(m)
<1>1. b \in OutSet /\ b.role = m.role
  BY ReadyIs DEF MessageSet
<1>2. OnReady(Talk(protocol))[m] = Talk(protocol)[b]
  BY DEF OnReady, MessageSet
<1> HIDE DEF b
<1>3. Talk(protocol)[b] = IF protocol = "anthropic" /\ b.role = "system" THEN <<>> ELSE <<b>>
  BY <1>1 DEF Talk, Selves, NotSystem
<1> QED
  BY <1>1, <1>2, <1>3 DEF b

LEMMA TalkPlain ==
    ASSUME NEW protocol \in Protocols, NEW s \in Seq(MessageSet),
           \A i \in 1 .. Len(s) : s[i].role \in {"system", "user"}
    PROVE  Gather(OnReady(Talk(protocol)), s) \in Seq(PlainSet)
<1> DEFINE F == OnReady(Talk(protocol))
           M == MessageSet
           O == OutSet
           P == PlainSet
<1>1. Maps(F, M, O) /\ s \in Seq(M)
  BY TalkMaps
<1>2. ASSUME NEW i \in 1 .. Len(s) PROVE F[s[i]] \in Seq(P)
  <2> DEFINE b == Ready(s[i])
  <2>1. s[i] \in MessageSet /\ s[i].role \in {"system", "user"}
    BY SeqIs
  <2>2. b \in OutSet /\ b.role = s[i].role /\ (F[s[i]] = <<>> \/ F[s[i]] = <<b>>)
    BY <2>1, TalkOne
  <2> HIDE DEF b, F
  <2>3. b \in P
    BY <2>1, <2>2 DEF PlainSet, Plain
  <2> HIDE DEF P
  <2>4. <<>> \in Seq(P) /\ <<b>> \in Seq(P)
    BY <2>3, OneIs, NoneIs
  <2> QED
    BY <2>2, <2>4
<1> HIDE DEF F, M, O, P
<1>3. Gather(F, s) \in Seq(P)
  BY <1>1, <1>2, GatherKind
<1> QED
  BY <1>3 DEF F, P

LEMMA TellingsNone ==
    ASSUME NEW s \in Seq(PartSet), \A i \in 1 .. Len(s) : s[i].kind # "tool_result"
    PROVE  Gather(Tellings, s) = <<>>
<1>1. \A i \in 1 .. Len(s) : Tellings[s[i]] = <<>>
  <2>1. \A i \in 1 .. Len(s) : s[i] \in PartSet
    BY SeqIs
  <2> QED
    BY <2>1 DEF Tellings
<1> DEFINE T == Tellings
           P == PartSet
           I == InSet(TextSet)
<1>2. Maps(T, P, I) /\ s \in Seq(P) /\ \A i \in 1 .. Len(s) : T[s[i]] = <<>>
  BY <1>1, TellingsMaps
<1> HIDE DEF T, P, I
<1>3. Gather(T, s) = <<>>
  BY <1>2, GatherEmpty
<1> QED
  BY <1>3 DEF T

\* What is asked wants no results, and is none.
LEMMA AskedPlain ==
    ASSUME NEW protocol \in {"openai", "anthropic"}, NEW e \in AskedSet
    PROVE  Talks(protocol)[e] \in Seq(PlainSet)
<1>1. /\ protocol \in Protocols /\ e \in EntrySet(protocol) /\ e.parts \in Seq(PartSet)
      /\ e.role \in {"system", "user"}
  BY AskedTyped, EntryIs DEF Protocols, AskedSet, SystemShape, AskShape
<1>2. \A i \in 1 .. Len(e.parts) : e.parts[i].kind # "tool_result"
  <2>1. CASE SystemShape(e)
    <3>1. PICK r \in Nat : e.parts = <<Part("text", Atom("system", r, 0), NoId)>>
      BY <2>1 DEF SystemShape
    <3> DEFINE x == Part("text", Atom("system", r, 0), NoId)
    <3>2. x.kind = "text"
      BY TextPartIs
    <3> HIDE DEF x
    <3>3. e.parts = <<x>>
      BY <3>1 DEF x
    <3> QED
      BY <3>2, <3>3
  <2>2. CASE AskShape(e)
    <3>1. PICK r \in Nat : e.parts \in AskParts(r)
      BY <2>2 DEF AskShape
    <3>2. \A i \in 1 .. Len(e.parts) : e.parts[i].kind \in {"text", "image", "link"}
      BY <3>1, AskPartsTyped
    <3> QED
      BY <3>2
  <2> QED
    BY <2>1, <2>2 DEF AskedSet
<1> DEFINE m == Made(protocol, e)
           s == ParsedTo(protocol, e)
<1>3. m \in MessageSet /\ m.role = e.role /\ (RestOf(e) = <<>> \/ RestOf(e) = <<MadeAnthropic(e)>>)
  BY <1>1, MadeIs
<1>4. s = <<m>> \/ s = <<>>
  <2>1. CASE protocol = "openai"
    BY <2>1 DEF ParsedTo, Made
  <2>2. CASE protocol = "anthropic"
    <3>1. Gather(Tellings, e.parts) = <<>>
      BY <1>1, <1>2, TellingsNone
    <3>2. s = <<>> \o RestOf(e) /\ m = MadeAnthropic(e)
      BY <2>2, <3>1 DEF ParsedTo, Made
    <3> HIDE DEF s, m
    <3>3. <<>> \o <<m>> = <<m>> /\ <<>> \o <<>> = <<>>
      OBVIOUS
    <3> QED
      BY <1>3, <3>2, <3>3
  <2> QED
    BY <2>1, <2>2
<1>5. Talks(protocol)[e] = Gather(OnReady(Talk(protocol)), s)
  BY <1>1, TalkMaps
<1> HIDE DEF s, m
<1>6. s \in Seq(MessageSet) /\ \A i \in 1 .. Len(s) : s[i].role \in {"system", "user"}
  <2> DEFINE M == MessageSet
  <2>1. m \in M /\ m.role \in {"system", "user"}
    BY <1>1, <1>3
  <2> HIDE DEF M
  <2>2. CASE s = <<m>>
    <3>1. s \in Seq(M) /\ Len(s) = 1 /\ s[1] = m
      BY <2>1, <2>2
    <3>2. \A i \in 1 .. Len(s) : i = 1
      BY <3>1
    <3> QED
      BY <2>1, <3>1, <3>2 DEF M
  <2>3. CASE s = <<>>
    <3>1. s \in Seq(M) /\ Len(s) = 0
      BY <2>3
    <3>2. ~\E i \in 1 .. Len(s) : TRUE
      BY <3>1
    <3> QED
      BY <3>1, <3>2 DEF M
  <2> QED
    BY <1>4, <2>2, <2>3
<1> QED
  BY <1>1, <1>5, <1>6, TalkPlain

-----------------------------------------------------------------------------
(* The calls that are open.                                                *)

LEMMA OpenIs ==
    ASSUME NEW protocol, NEW r, NEW s \in Seq(EntrySet(protocol))
    PROVE  /\ OpenIn(protocol, s, r) \in Seq(PartSet)
           /\ \A t \in Seq(EntrySet(protocol)) :
                 OpenIn(protocol, s \o t, r) = OpenIn(protocol, s, r) \o OpenIn(protocol, t, r)
           /\ \A e \in EntrySet(protocol) : OpenIn(protocol, <<e>>, r) = Gather(OpenParts(r), e.parts)
           /\ (\A i \in 1 .. Len(s) : Gather(OpenParts(r), s[i].parts) = <<>>) =>
                 OpenIn(protocol, s, r) = <<>>
<1> DEFINE E == EntrySet(protocol)
           P == PartSet
           F == AllParts(protocol)
           G == OpenParts(r)
           H == Through(G, F, E)
<1>1. Maps(F, E, P) /\ Maps(G, P, P)
  BY OpenMaps
<1>2. s \in Seq(E) /\ \A x \in E : F[x] = x.parts
  BY DEF AllParts
<1> HIDE DEF E, P, F, G
<1>3. \A x \in E : H[x] = Gather(G, x.parts)
  BY <1>2 DEF Through
<1> HIDE DEF H
<1>4. ASSUME NEW u \in Seq(E)
      PROVE  Maps(H, E, P) /\ OpenIn(protocol, u, r) = Gather(H, u)
  <2>1. Maps(Through(G, F, E), E, P) /\ Gather(G, Gather(F, u)) = Gather(Through(G, F, E), u)
    BY <1>1, GatherTwice
  <2> QED
    BY <2>1, Zenon DEF H, OpenIn, G, F
<1>5. Maps(H, E, P) /\ OpenIn(protocol, s, r) = Gather(H, s)
  BY <1>2, <1>4
<1>6. OpenIn(protocol, s, r) \in Seq(P)
  BY <1>2, <1>5, GatherTyped
<1>7. ASSUME NEW t \in Seq(E)
      PROVE  OpenIn(protocol, s \o t, r) = OpenIn(protocol, s, r) \o OpenIn(protocol, t, r)
  <2> DEFINE u == s \o t
  <2>1. u \in Seq(E)
    BY <1>2, Joined
  <2>2. Gather(H, s \o t) = Gather(H, s) \o Gather(H, t)
    BY <1>2, <1>5, GatherJoined
  <2> HIDE DEF u
  <2>3. OpenIn(protocol, u, r) = Gather(H, u) /\ OpenIn(protocol, t, r) = Gather(H, t)
    BY <1>4, <2>1
  <2> QED
    BY <1>5, <2>2, <2>3, Zenon DEF u
<1>8. ASSUME NEW e \in E PROVE OpenIn(protocol, <<e>>, r) = Gather(G, e.parts)
  <2> DEFINE o == <<e>>
  <2>1. o \in Seq(E)
    BY OneIs
  <2>2. Gather(H, <<e>>) = H[e]
    BY <1>5, GatherOne
  <2> HIDE DEF o
  <2>3. OpenIn(protocol, o, r) = Gather(H, o)
    BY <1>4, <2>1
  <2> QED
    BY <1>3, <2>2, <2>3, Zenon DEF o
<1>9. (\A i \in 1 .. Len(s) : Gather(G, s[i].parts) = <<>>) => OpenIn(protocol, s, r) = <<>>
  <2> HAVE \A i \in 1 .. Len(s) : Gather(G, s[i].parts) = <<>>
  <2>1. \A i \in 1 .. Len(s) : H[s[i]] = <<>>
    BY <1>2, <1>3, SeqIs
  <2>2. Gather(H, s) = <<>>
    BY <1>2, <1>5, <2>1, GatherEmpty
  <2> QED
    BY <1>5, <2>2
<1> QED
  BY <1>6, <1>7, <1>8, <1>9 DEF P, G, E

LEMMA OpenNone ==
    ASSUME NEW r, NEW s \in Seq(PartSet), \A i \in 1 .. Len(s) : s[i].kind = "tool_use" => s[i].what[2] # r
    PROVE  Gather(OpenParts(r), s) = <<>>
<1> DEFINE G == OpenParts(r)
           P == PartSet
<1>1. \A i \in 1 .. Len(s) : G[s[i]] = <<>>
  <2>1. \A i \in 1 .. Len(s) : s[i] \in PartSet
    BY SeqIs
  <2> QED
    BY <2>1 DEF OpenParts
<1>2. Maps(G, P, P) /\ s \in Seq(P)
  BY OpenMaps
<1> HIDE DEF G, P
<1>3. Gather(G, s) = <<>>
  BY <1>1, <1>2, GatherEmpty
<1> QED
  BY <1>3 DEF G

LEMMA OpenEvery ==
    ASSUME NEW r, NEW s \in Seq(PartSet), \A i \in 1 .. Len(s) : s[i].kind = "tool_use" /\ s[i].what[2] = r
    PROVE  Gather(OpenParts(r), s) = s
<1> DEFINE G == OpenParts(r)
           P == PartSet
<1>1. \A i \in 1 .. Len(s) : G[s[i]] = <<s[i]>>
  <2>1. \A i \in 1 .. Len(s) : s[i] \in PartSet
    BY SeqIs
  <2> QED
    BY <2>1 DEF OpenParts
<1>2. Maps(G, P, P) /\ s \in Seq(P)
  BY OpenMaps
<1> HIDE DEF G, P
<1>3. Gather(G, s) = s
  BY <1>1, <1>2, GatherSelf
<1> QED
  BY <1>3 DEF G

\* What is not an answer has no calls.
LEMMA QuietParts ==
    ASSUME NEW protocol \in {"openai", "anthropic"}, NEW e \in QuietSet(protocol)
    PROVE  /\ e \in EntrySet(protocol) /\ e.parts \in Seq(PartSet)
           /\ \A i \in 1 .. Len(e.parts) : e.parts[i].kind # "tool_use"
<1>1. /\ e \in EntrySet(protocol) /\ e.role # "assistant" /\ e.parts \in Seq(PartSet)
  BY EntryIs DEF QuietSet
<1>2. SystemShape(e) \/ AskShape(e) \/ ResultsShape(e) \/ ToolShape(e)
  BY <1>1 DEF EntrySet, AnswerShape
<1>3. CASE SystemShape(e)
  <2>1. PICK r \in Nat : e.parts = <<Part("text", Atom("system", r, 0), NoId)>>
    BY <1>3 DEF SystemShape
  <2> DEFINE x == Part("text", Atom("system", r, 0), NoId)
  <2>2. x.kind = "text"
    BY TextPartIs
  <2> HIDE DEF x
  <2>3. e.parts = <<x>>
    BY <2>1 DEF x
  <2> QED
    BY <1>1, <2>2, <2>3
<1>4. CASE AskShape(e)
  <2>1. PICK r \in Nat : e.parts \in AskParts(r)
    BY <1>4 DEF AskShape
  <2>2. \A i \in 1 .. Len(e.parts) : e.parts[i].kind \in {"text", "image", "link"}
    BY <2>1, AskPartsTyped
  <2> QED
    BY <1>1, <2>2
<1>5. CASE ToolShape(e)
  <2>1. PICK x \in ResultSet : e.parts = <<x>>
    BY <1>5 DEF ToolShape
  <2>2. x.kind = "tool_result"
    BY DEF ResultSet
  <2> QED
    BY <1>1, <2>1, <2>2
<1>6. CASE ResultsShape(e)
  <2>1. PICK r \in Nat, results \in Seq(ResultSet) :
            e.parts = results \/ e.parts = <<TextPart(r)>> \o results
    BY <1>6 DEF ResultsShape
  <2>2. \A i \in 1 .. Len(results) : results[i].kind # "tool_use"
    <3>1. \A i \in 1 .. Len(results) : results[i] \in ResultSet
      BY SeqIs
    <3> QED
      BY <3>1 DEF ResultSet
  <2>3. CASE e.parts = results
    BY <1>1, <2>2, <2>3
  <2>4. CASE e.parts = <<TextPart(r)>> \o results
    <3> DEFINE x == TextPart(r)
               o == <<x>>
    <3>1. x \in PartSet /\ x.kind = "text"
      BY TextPartIs
    <3> HIDE DEF x
    <3>2. o \in Seq(PartSet) /\ Len(o) = 1 /\ o[1].kind = "text"
      BY <3>1, OneIs
    <3>3. results \in Seq(PartSet)
      <4>1. ResultSet \subseteq PartSet
        BY DEF ResultSet
      <4> QED
        BY <4>1, SeqLarger
    <3>4. e.parts = o \o results
      BY <2>4 DEF x
    <3> HIDE DEF o
    <3>5. o \in Seq(PartSet)
      BY <3>2
    <3> DEFINE u == o \o results
    <3>6. /\ Len(u) = Len(o) + Len(results) /\ (\A i \in 1 .. Len(o) : u[i] = o[i])
          /\ \A i \in 1 .. Len(results) : u[Len(o) + i] = results[i]
      BY <3>3, <3>5, Joined
    <3> HIDE DEF u
    <3>7. ASSUME NEW i \in 1 .. Len(u) PROVE u[i].kind # "tool_use"
      <4>1. CASE i = 1
        BY <3>2, <3>6, <4>1
      <4>2. CASE i # 1
        <5> DEFINE j == i - 1
        <5>1. Len(results) \in Nat
          BY <3>3, SeqIs
        <5>2. j \in 1 .. Len(results) /\ i = 1 + j
          BY <3>2, <3>6, <4>2, <5>1
        <5> HIDE DEF j
        <5> QED
          BY <2>2, <3>2, <3>6, <5>2
      <4> QED
        BY <4>1, <4>2
    <3>8. e.parts = u
      BY <3>4 DEF u
    <3> QED
      BY <1>1, <3>7, <3>8
  <2> QED
    BY <2>1, <2>3, <2>4
<1> QED
  BY <1>2, <1>3, <1>4, <1>5, <1>6

LEMMA QuietOpens ==
    ASSUME NEW protocol \in {"openai", "anthropic"}, NEW s \in Seq(QuietSet(protocol)), NEW r
    PROVE  OpenIn(protocol, s, r) = <<>>
<1>1. QuietSet(protocol) \subseteq EntrySet(protocol)
  BY DEF QuietSet
<1>2. s \in Seq(EntrySet(protocol))
  BY <1>1, SeqLarger
<1>3. ASSUME NEW i \in 1 .. Len(s) PROVE Gather(OpenParts(r), s[i].parts) = <<>>
  <2>1. s[i] \in QuietSet(protocol)
    BY SeqIs
  <2> DEFINE x == s[i].parts
  <2>2. x \in Seq(PartSet) /\ \A k \in 1 .. Len(x) : x[k].kind # "tool_use"
    BY <2>1, QuietParts
  <2> HIDE DEF x
  <2>3. Gather(OpenParts(r), x) = <<>>
    BY <2>2, OpenNone
  <2> QED
    BY <2>3 DEF x
<1> QED
  BY <1>2, <1>3, OpenIs

\* The calls of an answer are of its round.
LEMMA HeardWhat ==
    ASSUME NEW r \in Nat, NEW a \in AnswerSet, AnswerAt(r, a, upstream.ids, ByWords)
    PROVE  \A i \in 1 .. Len(Heard(a).calls) : Heard(a).calls[i].what[2] = r
<1> DEFINE b == Heard(a)
<1>1. PICK reasons \in BOOLEAN, kind \in TextKind, n \in Nat : a = AnswerOf(reasons, kind, n, r, upstream.ids)
  BY DEF AnswerAt
<1>2. \A k, i : Atom(k, r, i)[2] = r
  BY DEF Atom
<1>3. CASE b = a
  <2> DEFINE C(i) == Call(IF upstream.ids THEN Atom("id", r, i) ELSE NoId, Atom("call", r, i))
  <2>1. a.calls = [i \in 1 .. n |-> C(i)]
    BY <1>1 DEF AnswerOf
  <2>2. \A i : C(i).what = Atom("call", r, i)
    BY DEF Call
  <2>3. DOMAIN a.calls = 1 .. Len(a.calls)
    BY AnswerIs, SeqIs
  <2> HIDE DEF C, b
  <2>4. \A i \in 1 .. Len(a.calls) : a.calls[i].what = Atom("call", r, i)
    BY <2>1, <2>2, <2>3
  <2> QED
    BY <1>2, <1>3, <2>4 DEF b
<1>4. CASE a.text # <<>> /\ b.calls = <<Call(NoId, a.text[1])>>
  <2> DEFINE v == Atom(kind, r, 0)
  <2>1. a.text = IF kind = "" THEN <<>> ELSE <<v>>
    BY <1>1 DEF AnswerOf
  <2>2. a.text = <<v>> /\ v[2] = r
    BY <1>2, <1>4, <2>1
  <2> HIDE DEF v
  <2> DEFINE c == Call(NoId, v)
  <2>3. a.text[1] = v
    BY <2>2
  <2>4. b.calls = <<c>>
    BY <1>4, <2>3
  <2>5. c.what = v
    BY DEF Call
  <2> HIDE DEF c, b
  <2>6. Len(b.calls) = 1 /\ b.calls[1] = c
    BY <2>4
  <2> QED
    BY <2>2, <2>5, <2>6 DEF b
<1> QED
  BY <1>3, <1>4, HeardTyped

\* The client can tell the calls of an answer apart by their ids.
LEMMA IdsDistinct ==
    ASSUME client.protocol \in {"openai", "anthropic"}, client.protocol = "openai" => upstream.ids,
           NEW r \in Nat, NEW a \in AnswerSet, AnswerAt(r, a, upstream.ids, ByWords)
    PROVE  \A i, j \in 1 .. Len(Heard(a).calls) : IdFor(Heard(a), i) = IdFor(Heard(a), j) => i = j
<1> DEFINE b == Heard(a)
<1>1. PICK reasons \in BOOLEAN, kind \in TextKind, n \in Nat : a = AnswerOf(reasons, kind, n, r, upstream.ids)
  BY DEF AnswerAt
<1>2. b \in AnswerSet /\ DOMAIN b.calls = 1 .. Len(b.calls)
  BY HeardTyped, AnswerIs, SeqIs
<1>3. Len(b.reasoning) \in Nat /\ Len(b.text) \in Nat /\ Len(b.calls) \in Nat
  BY <1>2, AnswerIs, SeqIs
<1>4. CASE a.text # <<>> /\ b.calls = <<Call(NoId, a.text[1])>>
  <2> DEFINE c == Call(NoId, a.text[1])
  <2>1. b.calls = <<c>>
    BY <1>4
  <2> HIDE DEF c, b
  <2>2. Len(b.calls) = 1
    BY <2>1
  <2>3. \A i, j \in 1 .. Len(b.calls) : i = j
    BY <2>2
  <2> QED
    BY <2>3 DEF b
<1>5. CASE b = a
  <2> DEFINE C(i) == Call(IF upstream.ids THEN Atom("id", r, i) ELSE NoId, Atom("call", r, i))
  <2>1. a.calls = [i \in 1 .. n |-> C(i)]
    BY <1>1 DEF AnswerOf
  <2>2. \A i : C(i).id = IF upstream.ids THEN Atom("id", r, i) ELSE NoId
    BY DEF Call
  <2> HIDE DEF C, b
  <2>3. \A i \in 1 .. Len(b.calls) : b.calls[i].id = IF upstream.ids THEN Atom("id", r, i) ELSE NoId
    BY <1>2, <1>5, <2>1, <2>2
  <2>4. \A k, h, i, j : Atom(k, h, i) = Atom(k, h, j) => i = j
    <3> SUFFICES ASSUME NEW k, NEW h, NEW i, NEW j, Atom(k, h, i) = Atom(k, h, j) PROVE i = j
      OBVIOUS
    <3>1. Atom(k, h, i)[3] = i /\ Atom(k, h, j)[3] = j
      BY DEF Atom
    <3> QED
      BY <3>1
  <2>5. CASE upstream.ids
    <3>1. \A i : Atom("id", r, i) # NoId
      <4> TAKE i
      <4>1. Atom("id", r, i)[1] = "id" /\ NoId[1] = "none"
        BY DEF Atom, NoId
      <4> QED
        BY <4>1
    <3>2. \A i \in 1 .. Len(b.calls) : IdFor(b, i) = Atom("id", r, i)
      BY <2>3, <2>5, <3>1 DEF IdFor
    <3> QED
      BY <2>4, <3>2 DEF b
  <2>6. CASE ~upstream.ids
    <3> DEFINE x == Len(b.reasoning)
               y == Len(b.text)
    <3>1. client.protocol = "anthropic"
      BY <2>6
    <3>2. \A i \in 1 .. Len(b.calls) :
             IdFor(b, i) = Atom("toolu", 0, IF client.streams THEN x + y + i - 1 ELSE i - 1)
      BY <2>3, <2>6, <3>1 DEF IdFor
    <3>3. x \in Nat /\ y \in Nat
      BY <1>3
    <3> HIDE DEF x, y
    <3>4. ASSUME NEW i \in 1 .. Len(b.calls), NEW j \in 1 .. Len(b.calls), IdFor(b, i) = IdFor(b, j)
          PROVE  i = j
      <4> DEFINE u(k) == IF client.streams THEN x + y + k - 1 ELSE k - 1
      <4>1. Atom("toolu", 0, u(i)) = Atom("toolu", 0, u(j))
        BY <3>2, <3>4
      <4>2. i \in Nat /\ j \in Nat
        BY <1>3
      <4> HIDE DEF u
      <4>3. u(i) = u(j)
        BY <2>4, <4>1
      <4> QED
        BY <3>3, <4>2, <4>3 DEF u
    <3> QED
      BY <3>4 DEF b
  <2> QED
    BY <2>5, <2>6
<1> QED
  BY <1>4, <1>5, HeardTyped

\* The calls of the answer of round r, and no others, are open in round r.
LEMMA HeardOpens ==
    ASSUME client.protocol \in Protocols, NEW r \in Nat, NEW a \in AnswerSet, AnswerAt(r, a, upstream.ids, ByWords),
           NEW q
    PROVE  Gather(OpenParts(q), PartsHeard(Heard(a))) = IF q = r THEN CallParts(Heard(a)) ELSE <<>>
<1> DEFINE b == Heard(a)
           x == PartsOf("thinking", b.reasoning)
           y == PartsOf("text", b.text)
           z == CallParts(b)
           G == OpenParts(q)
           P == PartSet
<1>1. b \in AnswerSet /\ b.reasoning \in Seq(SaidSet) /\ b.text \in Seq(SaidSet)
  BY HeardTyped, AnswerIs
<1>2. \A i \in 1 .. Len(b.calls) : b.calls[i].what[2] = r
  BY HeardWhat
<1>3. x \in Seq(P) /\ \A i \in 1 .. Len(x) : x[i].kind = "thinking"
  <2>1. "thinking" \in PartKinds
    BY DEF PartKinds
  <2> HIDE DEF b
  <2> QED
    BY <1>1, <2>1, PartsOfTyped
<1>4. y \in Seq(P) /\ \A i \in 1 .. Len(y) : y[i].kind = "text"
  <2>1. "text" \in PartKinds
    BY DEF PartKinds
  <2> HIDE DEF b
  <2> QED
    BY <1>1, <2>1, PartsOfTyped
<1>5. z \in Seq(P) /\ Len(z) = Len(b.calls)
      /\ \A i \in 1 .. Len(z) : z[i].kind = "tool_use" /\ z[i].what[2] = r
  <2> HIDE DEF b
  <2>1. /\ z \in Seq(P) /\ Len(z) = Len(b.calls)
        /\ \A i \in 1 .. Len(b.calls) : z[i].kind = "tool_use" /\ z[i].what = b.calls[i].what
    BY <1>1, CallPartsTyped
  <2> QED
    BY <1>2, <2>1
<1>6. PartsHeard(b) = (x \o y) \o z
  BY DEF PartsHeard
<1>7. Maps(G, P, P)
  BY OpenMaps
<1> HIDE DEF x, y, z, b
<1>8. Gather(G, x) = <<>> /\ Gather(G, y) = <<>>
  BY <1>3, <1>4, OpenNone
<1>9. Gather(G, z) = IF q = r THEN z ELSE <<>>
  <2>1. CASE q = r
    BY <1>5, <2>1, OpenEvery
  <2>2. CASE q # r
    BY <1>5, <2>2, OpenNone
  <2> QED
    BY <2>1, <2>2
<1> HIDE DEF G, P
<1>10. Gather(G, (x \o y) \o z) = (Gather(G, x) \o Gather(G, y)) \o Gather(G, z)
  <2> DEFINE w == x \o y
  <2>1. w \in Seq(P)
    BY <1>3, <1>4, Joined
  <2>2. Gather(G, x \o y) = Gather(G, x) \o Gather(G, y)
    BY <1>3, <1>4, <1>7, GatherJoined
  <2> HIDE DEF w
  <2>3. Gather(G, w \o z) = Gather(G, w) \o Gather(G, z)
    BY <1>5, <1>7, <2>1, GatherJoined
  <2> QED
    BY <2>2, <2>3, Zenon DEF w
<1> DEFINE g == Gather(G, z)
<1>11. g \in Seq(P)
  BY <1>5, <1>7, GatherTyped
<1> HIDE DEF g
<1>12. (<<>> \o <<>>) \o g = g
  BY <1>11
<1> QED
  BY <1>6, <1>8, <1>9, <1>10, <1>12, Zenon DEF g, G, z, b

-----------------------------------------------------------------------------
(* The results of the calls that are open.                                 *)

\* The messages end with an answer whose calls are open, and are paired up to it.
Waits(s, open) ==
    \E a \in Seq(OutSet), m \in OutSet : s = a \o <<m>> /\ Paired(a) /\ Calling(m, open)

\* No call is of a round to come; those of the last one are open or have results.
Tally(protocol, entries, n, whose) ==
    /\ \A r \in Nat : r > n => OpenIn(protocol, entries, r) = <<>>
    /\ IF whose = "upstream" \/ OpenIn(protocol, entries, n) = <<>>
       THEN Paired(Spoken(protocol, entries))
       ELSE Waits(Spoken(protocol, entries), OpenIn(protocol, entries, n))

LEMMA WaitsOver ==
    ASSUME NEW s, NEW R, NEW open \in Seq(R), Waits(s, open), NEW t \in Seq(OutSet), Resulting(t, open)
    PROVE  s \o t \in Seq(OutSet) /\ Paired(s \o t)
<1>1. PICK a \in Seq(OutSet), m \in OutSet : s = a \o <<m>> /\ Paired(a) /\ Calling(m, open)
  BY DEF Waits
<1> DEFINE O == OutSet
           o == <<m>>
           u == o \o t
<1>2. /\ a \in Seq(O) /\ o \in Seq(O) /\ t \in Seq(O) /\ m \in O
  BY OneIs
<1> HIDE DEF O
<1>3. u \in Seq(O) /\ Paired(u)
  BY <1>1, <1>2, PairedUnit
<1> HIDE DEF u
<1>4. a \o u \in Seq(O) /\ Paired(a \o u)
  BY <1>1, <1>2, <1>3, PairedJoined
<1>5. s = a \o o
  BY <1>1
<1> HIDE DEF o
<1>6. (a \o o) \o t = a \o (o \o t)
  BY <1>2, JoinedTwice
<1>7. s \o t = a \o u
  BY <1>5, <1>6 DEF u
<1> QED
  BY <1>4, <1>7, Zenon DEF O

\* What is no answer adds no calls.
LEMMA QuietTally ==
    ASSUME NEW protocol \in {"openai", "anthropic"}, NEW entries \in Seq(EntrySet(protocol)),
           NEW more \in Seq(QuietSet(protocol)), NEW r
    PROVE  /\ more \in Seq(EntrySet(protocol))
           /\ OpenIn(protocol, entries \o more, r) = OpenIn(protocol, entries, r)
<1>1. QuietSet(protocol) \subseteq EntrySet(protocol)
  BY DEF QuietSet
<1>2. more \in Seq(EntrySet(protocol))
  BY <1>1, SeqLarger
<1>3. OpenIn(protocol, more, r) = <<>>
  BY QuietOpens
<1> DEFINE x == OpenIn(protocol, entries, r)
           y == OpenIn(protocol, more, r)
           P == PartSet
<1>4. x \in Seq(P) /\ OpenIn(protocol, entries \o more, r) = x \o y
  BY <1>2, OpenIs
<1>5. y = <<>>
  BY <1>3
<1> HIDE DEF x, y, P
<1>6. x \o y = x
  BY <1>4, <1>5, JoinedNone
<1> QED
  BY <1>2, <1>4, <1>6 DEF x

\* What the upstream is sent of a result.
Returns(b, p) == b \in OutSet /\ b.role = "tool" /\ b.of = p.id /\ b.text = <<p.what>>

LEMMA ToolTalk ==
    ASSUME NEW p \in ResultSet, NEW e \in EntrySet("openai"), e.role = "tool", e.parts = <<p>>
    PROVE  \E b : Talks("openai")[e] = <<b>> /\ Returns(b, p)
<1> DEFINE o == <<p>>
           m == Made("openai", e)
           b == Ready(m)
<1>1. p \in PartSet /\ p.kind = "tool_result"
  BY DEF ResultSet
<1>2. Whats(o, {"text", "tool_result"}) = <<p.what>> /\ Kinds(o, {"image", "link"}) = <<>>
  <2> DEFINE K == {"text", "tool_result"}
             L == {"image", "link"}
  <2>1. p.kind \in K /\ p.kind \notin L
    BY <1>1
  <2> HIDE DEF K, L
  <2>2. Whats(<<p>>, K) = <<p.what>>
    BY <1>1, <2>1, KindsOne, Zenon
  <2>3. Kinds(<<p>>, L) = <<>>
    BY <1>1, <2>1, KindsOne, Zenon
  <2> QED
    BY <2>2, <2>3 DEF K, L
<1>3. o[1] = p /\ e.parts = o
  OBVIOUS
<1> HIDE DEF o
<1>4. m.role = "tool" /\ m.text = <<p.what>> /\ m.images = <<>> /\ m.of = p.id
  <2>1. m = MadeOpenAI(e)
    BY DEF Made
  <2> HIDE DEF m
  <2>2. /\ m.role = e.role /\ m.text = Whats(e.parts, {"text", "tool_result"})
        /\ m.images = Kinds(e.parts, {"image", "link"})
        /\ m.of = IF e.role = "tool" THEN e.parts[1].id ELSE NoId
    BY <2>1, MessageIs DEF MadeOpenAI
  <2> QED
    BY <1>2, <1>3, <2>2
<1>5. m \in MessageSet
  BY MadeIs DEF Protocols
<1> HIDE DEF m
<1>6. ~Alone(m)
  BY <1>4 DEF Alone
<1>7. b \in OutSet /\ b.role = "tool" /\ b.of = p.id /\ b.text = <<p.what>>
  BY <1>4, <1>5, <1>6, ReadyIs DEF MessageSet
<1> DEFINE F == OnReady(Talk("openai"))
           M == MessageSet
           O == OutSet
<1>8. Maps(F, M, O) /\ Talks("openai")[e] = Gather(F, <<m>>)
  BY TalkMaps DEF Protocols, ParsedTo, Made, m
<1>9. F[m] = <<b>>
  BY <1>5, TalkOne DEF Protocols
<1>10. m \in M
  BY <1>5
<1> HIDE DEF F, M, O, b
<1>11. Gather(F, <<m>>) = F[m]
  BY <1>8, <1>10, GatherOne
<1> QED
  BY <1>7, <1>8, <1>9, <1>11 DEF Returns

LEMMA ToldTalk ==
    ASSUME NEW p \in ResultSet
    PROVE  /\ p \in PartSet /\ Tellings[p] = <<Told(p)>> /\ Told(p) \in MessageSet
           /\ Returns(Ready(Told(p)), p)
           /\ OnReady(Talk("anthropic"))[Told(p)] = <<Ready(Told(p))>>
<1> DEFINE m == Told(p)
<1>1. p \in PartSet /\ p.kind = "tool_result"
  BY DEF ResultSet
<1>2. Tellings[p] = <<m>>
  BY <1>1 DEF Tellings
<1>3. m = Message("tool", <<p.what>>, <<>>, <<>>, p.id, <<>>) /\ m \in InSet(TextSet)
  BY <1>1, ToldMade
<1>4. m \in MessageSet
  BY <1>3, InLarger DEF MessageSet
<1> HIDE DEF m
<1>5. m.role = "tool" /\ m.text = <<p.what>> /\ m.images = <<>> /\ m.of = p.id
  BY <1>3, MessageIs
<1>6. ~Alone(m)
  BY <1>5 DEF Alone
<1> DEFINE b == Ready(m)
<1>7. b \in OutSet /\ b.role = "tool" /\ b.of = p.id /\ b.text = <<p.what>>
  BY <1>4, <1>5, <1>6, ReadyIs DEF MessageSet
<1>8. OnReady(Talk("anthropic"))[m] = <<b>>
  BY <1>4, <1>5, TalkOne DEF Protocols
<1> HIDE DEF b
<1>9. Returns(b, p)
  BY <1>7 DEF Returns
<1> QED
  BY <1>1, <1>2, <1>4, <1>8, <1>9 DEF b, m

\* What the upstream is sent of results.
AllReturn(t, results) ==
    t \in Seq(OutSet) /\ Len(t) = Len(results) /\ \A i \in 1 .. Len(results) : Returns(t[i], results[i])

LEMMA ResultsTold ==
    ASSUME NEW results \in Seq(ResultSet)
    PROVE  AllReturn(Gather(OnReady(Talk("anthropic")), Gather(Tellings, results)), results)
<1> DEFINE N == OnReady(Talk("anthropic"))
           G == Tellings
           P == PartSet
           M == MessageSet
           O == OutSet
           H == Through(N, G, P)
<1>1. Maps(G, P, M)
  <2>1. Maps(G, P, InSet(TextSet))
    BY TellingsMaps
  <2>2. Seq(InSet(TextSet)) \subseteq Seq(M)
    BY InLarger, SeqLarger DEF MessageSet
  <2> HIDE DEF M, G, P
  <2> QED
    BY <2>1, <2>2 DEF Maps
<1>2. Maps(N, M, O)
  BY TalkMaps DEF Protocols
<1>3. results \in Seq(P)
  <2>1. ResultSet \subseteq PartSet
    BY DEF ResultSet
  <2> QED
    BY <2>1, SeqLarger
<1>4. ASSUME NEW i \in 1 .. Len(results)
      PROVE  /\ results[i] \in P /\ Told(results[i]) \in M
             /\ G[results[i]] = <<Told(results[i])>>
             /\ N[Told(results[i])] = <<Ready(Told(results[i]))>>
             /\ Returns(Ready(Told(results[i])), results[i])
  <2>1. results[i] \in ResultSet
    BY SeqIs
  <2> QED
    BY <2>1, ToldTalk
<1> HIDE DEF N, G, P, M, O
<1>5. ASSUME NEW i \in 1 .. Len(results) 
      PROVE  H[results[i]] = <<Ready(Told(results[i]))>> /\ Len(H[results[i]]) = 1
             /\ H[results[i]][1] = Ready(Told(results[i]))
  <2> DEFINE x == results[i]
             y == Told(x)
  <2>1. x \in P /\ y \in M /\ G[x] = <<y>> /\ N[y] = <<Ready(y)>>
    BY <1>4
  <2> HIDE DEF x, y
  <2>2. Gather(N, <<y>>) = N[y]
    BY <1>2, <2>1, GatherOne
  <2>3. H[x] = Gather(N, G[x])
    BY <2>1 DEF Through
  <2>4. H[x] = <<Ready(y)>>
    BY <2>1, <2>2, <2>3
  <2> DEFINE b == Ready(y)
             h == H[x]
  <2>5. h = <<b>>
    BY <2>4
  <2> HIDE DEF b, h
  <2>6. Len(h) = 1 /\ h[1] = b
    BY <2>5
  <2> QED
    BY <2>4, <2>6 DEF x, y, b, h
<1> HIDE DEF H
<1>6. Maps(H, P, O) /\ Gather(N, Gather(G, results)) = Gather(H, results)
  <2>1. /\ Maps(Through(N, G, P), P, O)
        /\ Gather(N, Gather(G, results)) = Gather(Through(N, G, P), results)
    BY <1>1, <1>2, <1>3, GatherTwice
  <2> QED
    BY <2>1 DEF H
<1> DEFINE t == Gather(H, results)
<1>7. t \in Seq(O)
  BY <1>3, <1>6, GatherTyped
<1>8. Len(t) = Len(results) /\ \A i \in 1 .. Len(results) : t[i] = H[results[i]][1]
  <2>1. \A i \in 1 .. Len(results) : Len(H[results[i]]) = 1
    BY <1>5, Zenon
  <2> QED
    BY <1>3, <1>6, <2>1, GatherEach
<1> HIDE DEF t
<1>9. \A i \in 1 .. Len(results) : t[i] = Ready(Told(results[i]))
  BY <1>5, <1>8, Zenon
<1>10. AllReturn(t, results)
  BY <1>4, <1>7, <1>8, <1>9 DEF AllReturn, O
<1>11. Gather(N, Gather(G, results)) = t
  BY <1>6 DEF t
<1> QED
  BY <1>10, <1>11, Zenon DEF N, G

\* An Anthropic client's results become messages of their own, ahead of the rest.
LEMMA ResultsTalk ==
    ASSUME NEW e \in EntrySet("anthropic"), e.role = "user", NEW results \in Seq(ResultSet), NEW r \in Nat,
           e.parts = results \/ e.parts = <<TextPart(r)>> \o results
    PROVE  \E t, rest \in Seq(OutSet) :
              /\ Talks("anthropic")[e] = t \o rest
              /\ AllReturn(t, results) /\ rest \in Seq(PlainSet)
<1> DEFINE N == OnReady(Talk("anthropic"))
           G == Tellings
           P == PartSet
           I == InSet(TextSet)
           M == MessageSet
           O == OutSet
           R == RestOf(e)
           T == Gather(G, e.parts)
<1>1. Maps(N, M, O) /\ Maps(G, P, I) /\ Talks("anthropic")[e] = Gather(N, T \o R)
  BY TalkMaps, TellingsMaps DEF Protocols, ParsedTo
<1>2. results \in Seq(P)
  <2>1. ResultSet \subseteq PartSet
    BY DEF ResultSet
  <2> QED
    BY <2>1, SeqLarger
<1>3. T = Gather(G, results)
  <2>1. CASE e.parts = results
    BY <2>1
  <2>2. CASE e.parts = <<TextPart(r)>> \o results
    <3> DEFINE x == TextPart(r)
               o == <<x>>
    <3>1. x \in P /\ x.kind = "text"
      BY TextPartIs
    <3>2. G[x] = <<>>
      BY <3>1 DEF Tellings
    <3>3. e.parts = o \o results
      BY <2>2
    <3> HIDE DEF x
    <3>4. o \in Seq(P)
      BY <3>1, OneIs
    <3> HIDE DEF G, P, I
    <3>5. Gather(G, <<x>>) = G[x]
      BY <1>1, <3>1, GatherOne
    <3>6. Gather(G, o) = <<>>
      BY <3>2, <3>5
    <3> HIDE DEF o
    <3>7. Gather(G, o \o results) = Gather(G, o) \o Gather(G, results)
      BY <1>1, <1>2, <3>4, GatherJoined
    <3>8. Gather(G, results) \in Seq(I)
      BY <1>1, <1>2, GatherTyped
    <3> DEFINE v == Gather(G, results)
    <3> HIDE DEF v
    <3>9. <<>> \o v = v
      BY <3>8, JoinedNone DEF v
    <3>10. Gather(G, e.parts) = <<>> \o v
      BY <3>3, <3>6, <3>7 DEF v
    <3> QED
      BY <3>9, <3>10 DEF v
  <2> QED
    BY <2>1, <2>2
<1>4. T \in Seq(M)
  <2>1. Seq(I) \subseteq Seq(M)
    BY InLarger, SeqLarger DEF MessageSet
  <2> HIDE DEF G, P, I, M
  <2>2. Gather(G, results) \in Seq(I)
    BY <1>1, <1>2, GatherTyped
  <2> QED
    BY <1>3, <2>1, <2>2
<1>5. R \in Seq(M) /\ \A i \in 1 .. Len(R) : R[i].role \in {"system", "user"}
  <2> DEFINE m == MadeAnthropic(e)
  <2>1. /\ m \in MessageSet /\ m.role = "user" /\ (R = <<>> \/ R = <<m>>)
    BY MadeIs DEF Protocols, Made
  <2> HIDE DEF m, R
  <2>2. CASE R = <<m>>
    <3>1. R \in Seq(M) /\ Len(R) = 1 /\ R[1] = m
      BY <2>1, <2>2
    <3>2. \A i \in 1 .. Len(R) : i = 1
      BY <3>1
    <3> QED
      BY <2>1, <3>1, <3>2
  <2>3. CASE R = <<>>
    <3>1. R \in Seq(M) /\ Len(R) = 0
      BY <2>3
    <3> QED
      BY <3>1
  <2> QED
    BY <2>1, <2>2, <2>3
<1> DEFINE t == Gather(N, T)
           rest == Gather(N, R)
<1>6. rest \in Seq(PlainSet)
  <2> HIDE DEF R
  <2> QED
    BY <1>5, TalkPlain DEF Protocols
<1>7. AllReturn(t, results)
  BY <1>3, ResultsTold
<1> HIDE DEF N, M, O, T, R
<1>8. Gather(N, T \o R) = t \o rest
  BY <1>1, <1>4, <1>5, GatherJoined
<1>9. t \in Seq(O) /\ rest \in Seq(O)
  BY <1>1, <1>4, <1>5, GatherTyped
<1>10. Talks("anthropic")[e] = t \o rest
  BY <1>1, <1>8
<1> HIDE DEF t, rest
<1> QED
  BY <1>6, <1>7, <1>9, <1>10 DEF O

\* A system message of an Anthropic client goes to the front.
LEMMA SystemTalk ==
    ASSUME NEW e \in EntrySet("anthropic"), SystemShape(e)
    PROVE  Talks("anthropic")[e] = <<>>
<1> DEFINE N == OnReady(Talk("anthropic"))
           M == MessageSet
           O == OutSet
           m == MadeAnthropic(e)
           R == RestOf(e)
<1>1. PICK r \in Nat : e.parts = <<Part("text", Atom("system", r, 0), NoId)>>
  BY DEF SystemShape
<1>2. Gather(Tellings, e.parts) = <<>>
  <2> DEFINE x == Part("text", Atom("system", r, 0), NoId)
             p == e.parts
  <2>1. x.kind = "text" /\ p = <<x>> /\ p \in Seq(PartSet)
    BY <1>1, TextPartIs, EntryIs
  <2> HIDE DEF x, p
  <2>2. \A i \in 1 .. Len(p) : p[i].kind # "tool_result"
    BY <2>1
  <2>3. Gather(Tellings, p) = <<>>
    BY <2>1, <2>2, TellingsNone
  <2> QED
    BY <2>3 DEF p
<1>3. Talks("anthropic")[e] = Gather(N, <<>> \o R)
  BY <1>2, TalkMaps DEF Protocols, ParsedTo
<1>4. m \in M /\ m.role = "system" /\ (R = <<>> \/ R = <<m>>)
  BY MadeIs DEF Protocols, Made, SystemShape
<1>5. Maps(N, M, O)
  BY TalkMaps DEF Protocols
<1>6. N[m] = <<>>
  <2> HIDE DEF m, N, R
  <2> QED
    BY <1>4, TalkOne DEF Protocols, N
<1> HIDE DEF N, M, O, m, R
<1>7. R \in Seq(M)
  BY <1>4, OneIs, NoneIs
<1>8. <<>> \o R = R
  BY <1>7, JoinedNone
<1>9. Gather(N, <<m>>) = N[m] /\ Gather(N, <<>>) = <<>>
  BY <1>4, <1>5, GatherOne, GatherNone
<1> QED
  BY <1>3, <1>4, <1>6, <1>8, <1>9

LEMMA ResultsReturn ==
    ASSUME KnownInv, NEW t, AllReturn(t, Results)
    PROVE  t \in Seq(OutSet) /\ Resulting(t, OpenCalls)
<1>1. /\ Len(Results) = Len(OpenCalls) /\ OpenCalls \in Seq(OpenSet(Round))
      /\ \A i \in 1 .. Len(OpenCalls) : Results[i] = Result(OpenCalls[i])
  BY ResultsTyped
<1>2. Round \in Nat
  BY SeqIs DEF KnownInv, Round
<1>3. ASSUME NEW i \in 1 .. Len(OpenCalls)
      PROVE  /\ t[i].role = "tool" /\ t[i].of = OpenCalls[i].id
             /\ t[i].text = <<Atom("result", OpenCalls[i].what[2], OpenCalls[i].what[3])>>
  <2> DEFINE p == OpenCalls[i]
             q == Results[i]
  <2>1. p \in OpenSet(Round) /\ q = Result(p)
    BY <1>1, SeqIs
  <2>2. Returns(t[i], q)
    BY <1>1 DEF AllReturn
  <2> HIDE DEF p, q
  <2>3. q.id = p.id /\ q.what = Atom("result", p.what[2], p.what[3])
    BY <1>2, <2>1, ResultIs
  <2>4. t[i].role = "tool" /\ t[i].of = q.id /\ t[i].text = <<q.what>>
    BY <2>2 DEF Returns
  <2>5. t[i].text = <<Atom("result", p.what[2], p.what[3])>> /\ t[i].of = p.id
    BY <2>3, <2>4
  <2> QED
    BY <2>4, <2>5 DEF p
<1>4. Len(t) = Len(OpenCalls) /\ t \in Seq(OutSet)
  BY <1>1 DEF AllReturn
<1> QED
  BY <1>3, <1>4 DEF Resulting

\* What an OpenAI client sends of the results.
LEMMA ToolEntriesSpoken ==
    ASSUME KnownInv, client.protocol = "openai"
    PROVE  AllReturn(Spoken("openai", ToolEntries), Results)
<1> DEFINE E == EntrySet("openai")
           T == Talks("openai")
           O == OutSet
           s == ToolEntries
           u == Spoken("openai", ToolEntries)
<1>1. Maps(T, E, O)
  BY TalkMaps DEF Protocols
<1>2. s \in Seq(E) /\ Len(s) = Len(Results)
  BY ToolEntriesAre, ResultsTyped
<1>3. ASSUME NEW i \in 1 .. Len(s)
      PROVE  \E b : T[s[i]] = <<b>> /\ Returns(b, Results[i])
  <2>1. i \in 1 .. Len(OpenCalls) /\ i \in 1 .. Len(Results)
    BY ToolEntriesAre, ResultsTyped
  <2> DEFINE e == s[i]
             p == Results[i]
  <2>2. e \in E
    BY <1>2, SeqIs
  <2>3. e.role = "tool" /\ e.parts = <<p>>
    BY <2>1, ToolEntriesAre
  <2>4. p \in ResultSet
    BY <2>1, ResultsTyped, SeqIs
  <2> HIDE DEF e, p, T
  <2>5. \E b : Talks("openai")[e] = <<b>> /\ Returns(b, p)
    BY <2>2, <2>3, <2>4, ToolTalk
  <2> QED
    BY <2>5 DEF e, p, T
<1>4. u = Gather(T, s)
  BY DEF Spoken
<1> HIDE DEF E, T, O, s, u
<1>5. u \in Seq(O)
  BY <1>1, <1>2, <1>4, GatherTyped
<1>6. \A i \in 1 .. Len(s) : Len(T[s[i]]) = 1 /\ Returns(T[s[i]][1], Results[i])
  <2> TAKE i \in 1 .. Len(s)
  <2>1. PICK b : T[s[i]] = <<b>> /\ Returns(b, Results[i])
    BY <1>3
  <2> DEFINE h == T[s[i]]
  <2>2. h = <<b>>
    BY <2>1
  <2> HIDE DEF h
  <2>3. Len(h) = 1 /\ h[1] = b
    BY <2>2
  <2> QED
    BY <2>1, <2>3 DEF h
<1>7. Len(Gather(T, s)) = Len(s) /\ \A i \in 1 .. Len(s) : Gather(T, s)[i] = T[s[i]][1]
  <2>1. \A i \in 1 .. Len(s) : Len(T[s[i]]) = 1
    BY <1>6
  <2> QED
    BY <1>1, <1>2, <2>1, GatherEach
<1>8. AllReturn(u, Results)
  <2>1. \A i \in 1 .. Len(Results) : Returns(u[i], Results[i])
    BY <1>2, <1>4, <1>6, <1>7, Zenon
  <2> QED
    BY <1>2, <1>4, <1>5, <1>7, <2>1 DEF AllReturn, O
<1> QED
  BY <1>8 DEF u

LEMMA SentTally ==
    ASSUME NEW protocol \in {"openai", "anthropic"}, NEW entries \in Seq(EntrySet(protocol)),
           NEW more \in Seq(QuietSet(protocol)), NEW n, NEW whose, Tally(protocol, entries, n, whose),
           Paired(Spoken(protocol, entries \o more))
    PROVE  Tally(protocol, entries \o more, n, "upstream")
<1>1. \A r \in Nat : r > n => OpenIn(protocol, entries, r) = <<>>
  BY DEF Tally
<1>2. \A r : OpenIn(protocol, entries \o more, r) = OpenIn(protocol, entries, r)
  BY QuietTally
<1>3. \A r \in Nat : r > n => OpenIn(protocol, entries \o more, r) = <<>>
  BY <1>1, <1>2, Zenon
<1> QED
  BY <1>3, Zenon DEF Tally

\* The client asks when no call waits for its result.
LEMMA AskTally ==
    ASSUME KnownInv, client.protocol \in {"openai", "anthropic"},
           Tally(client.protocol, history, Len(answers), turn), Ask
    PROVE  Tally(client.protocol, history', Len(answers'), turn')
<1> DEFINE p == client.protocol
           n == Len(answers)
<1>1. turn = "client" /\ OpenCalls = <<>>
  BY AskIs
<1>2. PICK entries \in Seq(AskedSet) : Send(entries)
  BY AskIs
<1>3. history' = history \o entries /\ turn' = "upstream" /\ answers' = answers
  BY <1>2 DEF Send
<1>4. p \in Protocols /\ p \in {"openai", "anthropic"} /\ history \in Seq(EntrySet(p))
  BY DEF KnownInv, Protocols
<1>5. OpenIn(p, history, n) = <<>>
  BY <1>1, <1>4, OpenCallsIs DEF Round
<1>6. Tally(p, history, n, turn)
  OBVIOUS
<1> HIDE DEF p, n
<1>7. entries \in Seq(EntrySet(p)) /\ entries \in Seq(QuietSet(p))
  <2>1. AskedSet \subseteq EntrySet(p)
    BY AskedTyped
  <2>2. AskedSet \subseteq QuietSet(p)
    BY <2>1 DEF AskedSet, QuietSet, SystemShape, AskShape
  <2> QED
    BY <2>1, <2>2, SeqLarger
<1> DEFINE s == Spoken(p, history)
           t == Spoken(p, entries)
<1>8. Paired(s)
  BY <1>1, <1>5, <1>6, Zenon DEF Tally
<1>9. t \in Seq(PlainSet)
  <2>1. \A i \in 1 .. Len(entries) : Talks(p)[entries[i]] \in Seq(PlainSet)
    <3>1. \A i \in 1 .. Len(entries) : entries[i] \in AskedSet
      BY SeqIs
    <3> QED
      BY <1>4, <3>1, AskedPlain
  <2> QED
    BY <1>4, <1>7, <2>1, SpokenIs
<1>10. s \in Seq(OutSet) /\ Spoken(p, history \o entries) = s \o t
  BY <1>4, <1>7, SpokenIs
<1> HIDE DEF s, t
<1>11. t \in Seq(OutSet) /\ Paired(t)
  BY <1>9, PlainIs
<1>12. Paired(s \o t)
  BY <1>8, <1>10, <1>11, PairedJoined
<1>13. Paired(Spoken(p, history \o entries))
  BY <1>10, <1>12, Zenon
<1>14. Tally(p, history \o entries, n, "upstream")
  BY <1>4, <1>6, <1>7, <1>13, SentTally
<1> QED
  BY <1>3, <1>14 DEF p, n

\* The results follow the calls that wait for them.
LEMMA ToolsTally ==
    ASSUME KnownInv, client.protocol = "openai",
           Tally(client.protocol, history, Len(answers), turn), AnswerCalls
    PROVE  Tally(client.protocol, history', Len(answers'), turn')
<1> DEFINE n == Len(answers)
           open == OpenIn("openai", history, n)
           s == Spoken("openai", history)
           t == Spoken("openai", ToolEntries)
           h == history \o ToolEntries
<1>1. turn = "client" /\ OpenCalls # <<>> /\ Send(ToolEntries)
  BY AnswerCallsIs
<1>2. history' = h /\ turn' = "upstream" /\ answers' = answers
  BY <1>1 DEF Send
<1>3. history \in Seq(EntrySet("openai")) /\ open = OpenCalls /\ OpenCalls \in Seq(OpenSet(Round))
  BY OpenCallsIs DEF KnownInv, Round
<1>4. Tally("openai", history, n, "client")
  BY <1>1
<1>5. Waits(s, open)
  BY <1>1, <1>3, <1>4 DEF Tally
<1>6. t \in Seq(OutSet) /\ Resulting(t, OpenCalls)
  BY ToolEntriesSpoken, ResultsReturn
<1>7. ToolEntries \in Seq(EntrySet("openai"))
  BY ToolEntriesAre
<1>8. ToolEntries \in Seq(QuietSet("openai"))
  <2>1. \A i \in 1 .. Len(ToolEntries) : ToolEntries[i] \in QuietSet("openai")
    <3> TAKE i \in 1 .. Len(ToolEntries)
    <3>1. ToolEntries[i] \in EntrySet("openai")
      BY <1>7, SeqIs
    <3>2. i \in 1 .. Len(OpenCalls)
      BY ToolEntriesAre
    <3>3. ToolEntries[i].role = "tool"
      BY <3>2, ToolEntriesAre
    <3> QED
      BY <3>1, <3>3 DEF QuietSet
  <2> DEFINE u == ToolEntries
             Q == QuietSet("openai")
  <2>2. u \in Seq(EntrySet("openai")) /\ \A i \in 1 .. Len(u) : u[i] \in Q
    BY <1>7, <2>1
  <2> HIDE DEF u, Q
  <2>3. u \in Seq(Q)
    BY <2>2
  <2> QED
    BY <2>3 DEF u, Q
<1> HIDE DEF s, t, open, n
<1>9. Waits(s, OpenCalls)
  BY <1>3, <1>5, Zenon
<1>10. Paired(s \o t)
  BY <1>3, <1>6, <1>9, WaitsOver
<1>11. Spoken("openai", h) = s \o t
  BY <1>3, <1>7, SpokenIs DEF Protocols, s, t
<1>12. Paired(Spoken("openai", h))
  BY <1>10, <1>11, Zenon
<1>13. Tally("openai", h, n, "upstream")
  BY <1>3, <1>4, <1>8, <1>12, SentTally
<1> HIDE DEF h
<1> QED
  BY <1>2, <1>13 DEF n

LEMMA SpokenFew ==
    ASSUME NEW protocol \in Protocols
    PROVE  /\ Spoken(protocol, <<>>) = <<>>
           /\ \A e \in EntrySet(protocol) : Spoken(protocol, <<e>>) = Talks(protocol)[e]
<1> DEFINE E == EntrySet(protocol)
           T == Talks(protocol)
           O == OutSet
<1>1. Maps(T, E, O)
  BY TalkMaps
<1> HIDE DEF E, T, O
<1>2. Gather(T, <<>>) = <<>>
  BY GatherNone
<1>3. \A e \in E : Gather(T, <<e>>) = T[e]
  BY <1>1, GatherOne
<1> QED
  BY <1>2, <1>3, Zenon DEF Spoken, T, E

\* What an Anthropic client sends of the results.
LEMMA ResultsSpoken ==
    ASSUME KnownInv, client.protocol = "anthropic", AnswerCalls
    PROVE  \E entries \in Seq(QuietSet("anthropic")), t, rest \in Seq(OutSet) :
              /\ Send(entries)
              /\ Spoken("anthropic", entries) = t \o rest
              /\ AllReturn(t, Results) /\ rest \in Seq(PlainSet)
<1> DEFINE E == EntrySet("anthropic")
           Q == QuietSet("anthropic")
<1>1. PICK parts \in ResultParts, system \in {<<>>, <<SystemEntry>>} :
          Send(system \o <<Entry("user", parts)>>)
  BY AnswerCallsIs
<1> DEFINE e == Entry("user", parts)
           o == <<e>>
<1>2. e \in RawSet /\ e.role = "user" /\ e.parts = parts /\ ResultsShape(e)
  BY ResultsShapeIs
<1>3. SystemEntry \in E /\ SystemShape(SystemEntry)
  BY SystemEntryIs, AskedTyped
<1>4. Results \in Seq(ResultSet)
  BY ResultsTyped
<1>5. Round \in Nat /\ (parts = Results \/ parts = <<TextPart(Round)>> \o Results)
  BY SeqIs DEF KnownInv, Round, ResultParts
<1>6. Send(system \o o)
  BY <1>1
<1> HIDE DEF e
<1>7. e \in E
  BY <1>2 DEF EntrySet, RawSet
<1>8. e \in Q /\ SystemEntry \in Q
  BY <1>2, <1>3, <1>7 DEF QuietSet, SystemShape
<1>9. PICK t \in Seq(OutSet), rest \in Seq(OutSet) :
          /\ Talks("anthropic")[e] = t \o rest
          /\ AllReturn(t, Results) /\ rest \in Seq(PlainSet)
  <2> DEFINE u == Results
             v == <<TextPart(Round)>> \o u
             n == Round
  <2>1. e.parts = u \/ e.parts = <<TextPart(n)>> \o u
    BY <1>2, <1>5
  <2>2. u \in Seq(ResultSet) /\ n \in Nat /\ e \in EntrySet("anthropic") /\ e.role = "user"
    BY <1>2, <1>4, <1>5, <1>7
  <2> HIDE DEF u, n
  <2>3. \E x, y \in Seq(OutSet) :
            /\ Talks("anthropic")[e] = x \o y
            /\ AllReturn(x, u) /\ y \in Seq(PlainSet)
    BY <2>1, <2>2, ResultsTalk
  <2> QED
    BY <2>3 DEF u
<1>10. o \in Seq(E) /\ o \in Seq(Q)
  <2> HIDE DEF E, Q
  <2> QED
    BY <1>7, <1>8, OneIs
<1>11. system \in Seq(E) /\ system \in Seq(Q)
  <2> DEFINE y == SystemEntry
  <2>1. y \in E /\ y \in Q
    BY <1>3, <1>8
  <2> HIDE DEF E, Q, y
  <2>2. <<y>> \in Seq(E) /\ <<y>> \in Seq(Q) /\ <<>> \in Seq(E) /\ <<>> \in Seq(Q)
    BY <2>1, OneIs, NoneIs
  <2>3. system = <<>> \/ system = <<y>>
    BY <1>1 DEF y
  <2> QED
    BY <2>2, <2>3
<1>12. Spoken("anthropic", system) = <<>>
  <2> DEFINE y == SystemEntry
  <2>1. Spoken("anthropic", <<>>) = <<>> /\ Spoken("anthropic", <<y>>) = Talks("anthropic")[y]
    BY <1>3, SpokenFew DEF Protocols
  <2>2. Talks("anthropic")[y] = <<>>
    BY <1>3, SystemTalk
  <2> HIDE DEF y
  <2>3. system = <<>> \/ system = <<y>>
    BY <1>1 DEF y
  <2> QED
    BY <2>1, <2>2, <2>3, Zenon
<1>13. Spoken("anthropic", o) = t \o rest
  <2>1. Spoken("anthropic", o) = Talks("anthropic")[e]
    BY <1>7, SpokenFew DEF Protocols
  <2> QED
    BY <1>9, <2>1, Zenon
<1>14. system \o o \in Seq(Q)
  <2> HIDE DEF Q, o
  <2> QED
    BY <1>10, <1>11, Joined
<1>15. Spoken("anthropic", system \o o) = t \o rest
  <2> DEFINE x == Spoken("anthropic", system)
             y == Spoken("anthropic", o)
             z == t \o rest
  <2>1. Spoken("anthropic", system \o o) = x \o y
    BY <1>10, <1>11, SpokenIs DEF Protocols
  <2>2. x = <<>> /\ y = z
    BY <1>12, <1>13
  <2>3. z \in Seq(OutSet)
    BY Joined
  <2> HIDE DEF x, y, z
  <2>4. <<>> \o z = z
    BY <2>3, JoinedNone
  <2> QED
    BY <2>1, <2>2, <2>4 DEF z
<1> DEFINE entries == system \o o
<1>16. entries \in Seq(Q) /\ Send(entries) /\ Spoken("anthropic", entries) = t \o rest
  BY <1>6, <1>14, <1>15
<1> HIDE DEF entries, Q
<1>17. AllReturn(t, Results) /\ rest \in Seq(PlainSet)
  BY <1>9
<1> QED
  BY <1>16, <1>17 DEF Q

LEMMA ResultsTally ==
    ASSUME KnownInv, client.protocol = "anthropic",
           Tally(client.protocol, history, Len(answers), turn), AnswerCalls
    PROVE  Tally(client.protocol, history', Len(answers'), turn')
<1> DEFINE n == Len(answers)
           open == OpenIn("anthropic", history, n)
           s == Spoken("anthropic", history)
<1>1. turn = "client" /\ OpenCalls # <<>>
  BY AnswerCallsIs
<1>2. PICK entries \in Seq(QuietSet("anthropic")), t \in Seq(OutSet), rest \in Seq(OutSet) :
          /\ Send(entries)
          /\ Spoken("anthropic", entries) = t \o rest
          /\ AllReturn(t, Results) /\ rest \in Seq(PlainSet)
  BY ResultsSpoken
<1> DEFINE h == history \o entries
<1>3. history' = h /\ turn' = "upstream" /\ answers' = answers
  BY <1>2 DEF Send
<1>4. history \in Seq(EntrySet("anthropic")) /\ open = OpenCalls /\ OpenCalls \in Seq(OpenSet(Round))
  BY OpenCallsIs DEF KnownInv, Round
<1>5. Tally("anthropic", history, n, "client")
  BY <1>1
<1>6. Waits(s, open)
  BY <1>1, <1>4, <1>5 DEF Tally
<1>7. Resulting(t, OpenCalls)
  BY <1>2, ResultsReturn
<1>8. entries \in Seq(EntrySet("anthropic"))
  BY <1>4, QuietTally
<1>9. s \in Seq(OutSet) /\ Spoken("anthropic", h) = s \o (t \o rest)
  <2> DEFINE u == Spoken("anthropic", entries)
  <2>1. s \in Seq(OutSet) /\ Spoken("anthropic", h) = s \o u
    BY <1>4, <1>8, SpokenIs DEF Protocols
  <2> HIDE DEF s, h
  <2> QED
    BY <1>2, <2>1, Zenon DEF u
<1> HIDE DEF s, open, n
<1>10. Waits(s, OpenCalls)
  BY <1>4, <1>6, Zenon
<1> DEFINE u == s \o t
<1>11. u \in Seq(OutSet) /\ Paired(u)
  BY <1>4, <1>7, <1>10, WaitsOver
<1>12. rest \in Seq(OutSet) /\ Paired(rest)
  BY <1>2, PlainIs
<1>13. s \o (t \o rest) = u \o rest
  <2> DEFINE O == OutSet
  <2>1. s \in Seq(O) /\ t \in Seq(O) /\ rest \in Seq(O)
    BY <1>9
  <2> HIDE DEF O
  <2>2. (s \o t) \o rest = s \o (t \o rest)
    BY <2>1, JoinedTwice
  <2> QED
    BY <2>2
<1> HIDE DEF u
<1>14. Paired(u \o rest)
  BY <1>11, <1>12, PairedJoined
<1>15. Paired(Spoken("anthropic", h))
  BY <1>9, <1>13, <1>14, Zenon
<1>16. Tally("anthropic", h, n, "upstream")
  BY <1>4, <1>5, <1>15, SentTally
<1> HIDE DEF h
<1> QED
  BY <1>3, <1>16 DEF n

\* The calls of an answer wait for their results.
LEMMA AnswerCalling ==
    ASSUME client.protocol \in {"openai", "anthropic"}, client.protocol = "openai" => upstream.ids,
           NEW r \in Nat, NEW a \in AnswerSet, AnswerAt(r, a, upstream.ids, ByWords),
           NEW e \in EntrySet(client.protocol), e.role = "assistant", e.parts = PartsHeard(Heard(a))
    PROVE  \E m \in OutSet :
              /\ Talks(client.protocol)[e] = <<m>>
              /\ Calling(m, CallParts(Heard(a)))
              /\ CallParts(Heard(a)) = <<>> => m \in PlainSet
<1> DEFINE p == client.protocol
           w == Made(p, e)
           m == Ready(w)
           b == Heard(a)
           open == CallParts(b)
<1>1. p \in Protocols /\ p \in {"openai", "anthropic"}
  BY DEF Protocols
<1>2. /\ ~Dropped(p, e) /\ m.role = "assistant"
      /\ Len(m.calls) = Len(b.calls) /\ m.calls \in Seq(CallSet)
      /\ \A i \in 1 .. Len(m.calls) : m.calls[i].what = b.calls[i].what /\ m.calls[i].id = IdFor(b, i)
  BY BackIs
<1>3. b \in AnswerSet
  BY HeardTyped
<1>4. /\ open \in Seq(PartSet) /\ Len(open) = Len(b.calls)
      /\ \A i \in 1 .. Len(b.calls) : open[i].what = b.calls[i].what /\ open[i].id = IdFor(b, i)
  <2> HIDE DEF b
  <2> QED
    BY <1>1, <1>3, CallPartsTyped
<1>5. \A i, j \in 1 .. Len(b.calls) : IdFor(b, i) = IdFor(b, j) => i = j
  BY IdsDistinct
<1>6. w \in MessageSet /\ w.role = e.role
  BY <1>1, MadeIs
<1>7. m \in OutSet /\ OnReady(Talk(p))[w] = <<m>>
  <2> HIDE DEF w, p
  <2> QED
    BY <1>1, <1>6, TalkOne
<1>8. Talks(p)[e] = <<m>>
  <2> DEFINE F == OnReady(Talk(p))
             M == MessageSet
             O == OutSet
             c == <<w>>
  <2>1. Maps(F, M, O) /\ Talks(p)[e] = Gather(F, ParsedTo(p, e))
    BY <1>1, TalkMaps
  <2>2. ParsedTo(p, e) = c
    <3>1. CASE p = "openai"
      BY <3>1 DEF ParsedTo, Made
    <3>2. CASE p = "anthropic"
      <4> DEFINE s == e.parts
      <4>1. s \in Seq(PartSet)
        BY <1>3, <1>1, PartsHeardIs
      <4>2. \A i \in 1 .. Len(s) : s[i].kind # "tool_result"
        BY <1>3, <1>1, PartsHeardIs
      <4> HIDE DEF s
      <4>3. Gather(Tellings, s) = <<>>
        BY <4>1, <4>2, TellingsNone
      <4>4. RestOf(e) = <<MadeAnthropic(e)>> /\ w = MadeAnthropic(e)
        BY <1>1, <1>2, <3>2, MadeIs DEF Dropped, Made
      <4>5. ParsedTo(p, e) = <<>> \o RestOf(e)
        BY <3>2, <4>3 DEF ParsedTo, s
      <4> HIDE DEF w, p
      <4>6. <<>> \o <<w>> = <<w>>
        OBVIOUS
      <4> QED
        BY <4>4, <4>5, <4>6
    <3> QED
      BY <1>1, <3>1, <3>2
  <2>3. w \in M
    BY <1>6
  <2> HIDE DEF F, M, O, w, m
  <2>4. Gather(F, <<w>>) = F[w]
    BY <2>1, <2>3, GatherOne
  <2>5. F[w] = <<m>>
    BY <1>7 DEF F
  <2> QED
    BY <2>1, <2>2, <2>4, <2>5, Zenon
<1> HIDE DEF m, b, open, p, w
<1>9. DOMAIN m.calls = 1 .. Len(open)
  BY <1>2, <1>4, SeqIs
<1>10. Calling(m, open)
  BY <1>2, <1>4, <1>5, <1>9 DEF Calling
<1>11. open = <<>> => m \in PlainSet
  <2> HAVE open = <<>>
  <2>1. Len(m.calls) = 0
    BY <1>2, <1>4
  <2>2. m.calls = <<>>
    BY <1>2, <2>1, NoneIs
  <2> QED
    BY <1>2, <1>7, <2>2 DEF PlainSet, Plain
<1> QED
  BY <1>7, <1>8, <1>10, <1>11 DEF p, b, open

LEMMA AnswerTally ==
    ASSUME KnownInv, client.protocol \in {"openai", "anthropic"},
           Tally(client.protocol, history, Len(answers), turn), Answer
    PROVE  Tally(client.protocol, history', Len(answers'), turn')
<1> DEFINE p == client.protocol
           n == Len(answers)
           s == Spoken(p, history)
           O == OutSet
           E == EntrySet(p)
<1>1. p \in Protocols /\ p \in {"openai", "anthropic"} /\ (p = "openai" => upstream.ids)
      /\ history \in Seq(E) /\ n \in Nat /\ answers \in Seq(AnswerSet)
  BY SeqIs DEF KnownInv
<1>2. turn = "upstream" /\ turn' = "client"
  BY AnswerStepIs
<1>3. PICK a \in AnswerSet :
          /\ AnswerAt(Round + 1, a, upstream.ids, ByWords)
          /\ answers' = Append(answers, a)
          /\ history' = history \o Received(a)
  BY AnswerStepIs
<1>4. PICK e \in E : Received(a) = <<e>> /\ e.role = "assistant" /\ e.parts = PartsHeard(Heard(a))
  BY <1>1, ReceivedTyped
<1> DEFINE open == CallParts(Heard(a))
           k == n + 1
<1>5. AnswerAt(k, a, upstream.ids, ByWords)
  BY <1>3 DEF Round
<1>6. k \in Nat /\ Len(answers') = k
  <2> DEFINE S == AnswerSet
  <2>1. a \in S /\ answers \in Seq(S)
    BY <1>1
  <2> HIDE DEF S
  <2> QED
    BY <1>1, <1>3, <2>1, AppendIs
<1>7. PICK m \in O :
          /\ Talks(p)[e] = <<m>> /\ Calling(m, open) /\ (open = <<>> => m \in PlainSet)
  <2> HIDE DEF k, n
  <2> QED
    BY <1>1, <1>4, <1>5, <1>6, AnswerCalling
<1>8. Tally(p, history, n, "upstream")
  BY <1>2
<1>9. \A q : Gather(OpenParts(q), e.parts) = IF q = k THEN open ELSE <<>>
  <2> TAKE q
  <2> DEFINE parts == PartsHeard(Heard(a))
  <2> HIDE DEF k
  <2>1. Gather(OpenParts(q), parts) = IF q = k THEN open ELSE <<>>
    BY <1>1, <1>5, <1>6, HeardOpens
  <2>2. e.parts = parts
    BY <1>4
  <2> HIDE DEF open, parts
  <2> QED
    BY <2>1, <2>2
<1> DEFINE o == <<e>>
           h == history \o o
<1>10. o \in Seq(E)
  <2> HIDE DEF E
  <2> QED
    BY OneIs
<1>11. open \in Seq(PartSet)
  <2> DEFINE b == Heard(a)
  <2>1. b \in AnswerSet
    BY HeardTyped
  <2> HIDE DEF b
  <2>2. CallParts(b) \in Seq(PartSet)
    BY <1>1, <2>1, CallPartsTyped
  <2> QED
    BY <2>2 DEF b
<1> HIDE DEF open
<1>12. ASSUME NEW q \in Nat, q > n PROVE OpenIn(p, h, q) = IF q = k THEN open ELSE <<>>
  <2> DEFINE x == OpenIn(p, history, q)
             y == OpenIn(p, o, q)
  <2>1. x = <<>>
    BY <1>8, <1>12 DEF Tally
  <2>2. OpenIn(p, h, q) = x \o y
    BY <1>1, <1>10, OpenIs
  <2>3. y = Gather(OpenParts(q), e.parts)
    BY <1>1, <1>4, OpenIs
  <2>4. y = IF q = k THEN open ELSE <<>>
    BY <1>9, <2>3
  <2>5. <<>> \o <<>> = <<>> /\ <<>> \o open = open
    BY <1>11, JoinedNone
  <2> HIDE DEF x, y, h, k
  <2> QED
    BY <2>1, <2>2, <2>4, <2>5
<1>13. \A q \in Nat : q > k => OpenIn(p, h, q) = <<>>
  <2> HIDE DEF h, p
  <2> TAKE q \in Nat
  <2> HAVE q > k
  <2>1. q > n /\ q # k
    BY <1>1
  <2> QED
    BY <1>12, <2>1
<1>14. OpenIn(p, h, k) = open
  <2> HIDE DEF h, p
  <2>1. k > n
    BY <1>1
  <2> QED
    BY <1>6, <1>12, <2>1
<1>15. Paired(s)
  BY <1>8, Zenon DEF Tally
<1>16. s \in Seq(O) /\ Spoken(p, h) = s \o <<m>>
  <2>1. Spoken(p, o) = <<m>>
    BY <1>1, <1>7, SpokenFew
  <2> DEFINE t == Spoken(p, o)
  <2>2. s \in Seq(O) /\ Spoken(p, h) = s \o t
    BY <1>1, <1>10, SpokenIs
  <2> HIDE DEF s, h
  <2> QED
    BY <2>1, <2>2, Zenon
<1> HIDE DEF s
<1>17. CASE open = <<>>
  <2> DEFINE t == <<m>>
             P == PlainSet
  <2>1. m \in P
    BY <1>7, <1>17
  <2> HIDE DEF P
  <2>2. t \in Seq(P)
    BY <2>1, OneIs
  <2> HIDE DEF t
  <2>3. t \in Seq(O) /\ Paired(t)
    BY <2>2, PlainIs DEF P
  <2> HIDE DEF O
  <2>4. Paired(s \o t)
    BY <1>15, <1>16, <2>3, PairedJoined
  <2>5. Paired(Spoken(p, h))
    BY <1>16, <2>4, Zenon DEF t
  <2> HIDE DEF h, p, k
  <2>6. Tally(p, h, k, "client")
    BY <1>13, <1>14, <1>17, <2>5, Zenon DEF Tally
  <2> QED
    BY <1>2, <1>3, <1>4, <1>6, <2>6 DEF h, p
<1>18. CASE open # <<>>
  <2>1. Waits(s \o <<m>>, open)
    BY <1>7, <1>15, <1>16 DEF Waits
  <2>2. Waits(Spoken(p, h), open)
    BY <1>16, <2>1, Zenon
  <2> HIDE DEF h, p, k
  <2>3. Tally(p, h, k, "client")
    <3>1. "client" # "upstream"
      OBVIOUS
    <3> QED
      BY <1>13, <1>14, <1>18, <2>2, <3>1, Zenon DEF Tally
  <2> QED
    BY <1>2, <1>3, <1>4, <1>6, <2>3 DEF h, p
<1> QED
  BY <1>17, <1>18

\* The results follow their calls, in what an OpenAI or an Anthropic client sends.
PairInv == client.protocol # "responses" => Tally(client.protocol, history, Len(answers), turn)

LEMMA PairInit ==
    ASSUME Init
    PROVE  PairInv
<1> DEFINE p == client.protocol
<1>1. p \in Protocols /\ history = <<>> /\ answers = <<>>
  BY DEF Init, Protocols
<1>2. \A r : OpenIn(p, <<>>, r) = <<>>
  BY GatherNone, Zenon DEF OpenIn
<1>3. Spoken(p, <<>>) = <<>>
  BY <1>1, SpokenFew
<1>4. Paired(<<>>)
  <2> DEFINE P == PlainSet
             none == <<>>
  <2>1. none \in Seq(P)
    BY NoneIs
  <2> HIDE DEF none
  <2>2. Paired(none)
    BY <2>1, PlainIs
  <2> QED
    BY <2>2 DEF none
<1> HIDE DEF p
<1>5. Tally(p, <<>>, Len(answers), turn)
  BY <1>2, <1>3, <1>4, Zenon DEF Tally
<1> QED
  BY <1>1, <1>5 DEF PairInv, p

\* How the history is sent does not change.
LEMMA TalksSame ==
    ASSUME client' = client
    PROVE  Talks(client.protocol)' = Talks(client.protocol)
<1>1. Raw' = Raw
  BY Zenon DEF Raw
<1>2. \A m : Ready(m)' = Ready(m)
  BY <1>1, Zenon DEF Ready
<1>3. \A G : OnReady(G)' = OnReady(G)
  BY <1>2, Zenon DEF OnReady
<1> QED
  BY <1>1, <1>3, Zenon DEF Talks, PerEntry

LEMMA PairStep ==
    ASSUME KnownInv, PairInv, [Next]_vars
    PROVE  PairInv'
<1>1. client' = client
  <2>1. CASE Ask \/ AnswerCalls
    BY <2>1, SendsEntries DEF Send
  <2>2. CASE Answer
    BY <2>2, AnswerStepIs
  <2>3. CASE UNCHANGED vars
    BY <2>3 DEF vars
  <2> QED
    BY <2>1, <2>2, <2>3 DEF Next
<1>2. ASSUME client.protocol # "responses"
      PROVE  Tally(client.protocol, history', Len(answers'), turn')
  <2>1. client.protocol \in {"openai", "anthropic"} /\ Tally(client.protocol, history, Len(answers), turn)
    BY <1>2 DEF KnownInv, PairInv, Protocols
  <2>2. CASE Ask
    BY <2>1, <2>2, AskTally
  <2>3. CASE AnswerCalls
    BY <2>1, <2>3, ToolsTally, ResultsTally
  <2>4. CASE Answer
    BY <2>1, <2>4, AnswerTally
  <2>5. CASE UNCHANGED vars
    BY <2>1, <2>5 DEF vars
  <2> QED
    BY <2>2, <2>3, <2>4, <2>5 DEF Next
<1>3. Spoken(client.protocol, history)' = Spoken(client.protocol, history')
  BY <1>1, TalksSame, Zenon DEF Spoken
<1>4. client.protocol # "responses" => Tally(client.protocol, history, Len(answers), turn)'
  BY <1>1, <1>2, <1>3, Zenon DEF Tally
<1> QED
  BY <1>1, <1>4 DEF PairInv

\* Of a Responses client's items only text is sent: no calls and no results.
LEMMA ItemTalk ==
    ASSUME NEW e \in EntrySet("responses")
    PROVE  Talks("responses")[e] \in Seq(PlainSet)
<1> DEFINE F == OnReady(Talk("responses"))
           M == MessageSet
           O == OutSet
           P == PlainSet
           x == Whats(e.parts, {"text"})
           m == Says(e.role, x)
           b == Ready(m)
<1>1. Maps(F, M, O) /\ Talks("responses")[e] = Gather(F, ParsedTo("responses", e))
  BY TalkMaps DEF Protocols
<1>2. ParsedTo("responses", e) = IF e.role = "" THEN <<>> ELSE <<m>>
  BY DEF ParsedTo
<1>3. e.role # "tool" /\ e \in RawSet
  BY EntryIs DEF EntrySet, SystemShape, AskShape, ItemShape
<1>4. m \in M
  BY <1>3, MadeTyped, InLarger DEF MessageSet
<1>5. m.role = e.role /\ m.calls = <<>>
  <2> HIDE DEF x
  <2>1. m = Message(e.role, x, <<>>, <<>>, NoId, <<>>)
    BY DEF Says
  <2> HIDE DEF m
  <2> QED
    BY <2>1, MessageIs
<1> HIDE DEF x, m
<1>6. b \in O /\ b.role = m.role /\ b.calls = Named(m.calls)
  BY <1>4, ReadyIs DEF MessageSet
<1>7. b.calls = <<>>
  <2> DEFINE none == <<>>
             c == Named(none)
  <2>1. none \in Seq(CallSet) /\ Len(none) = 0
    BY NoneIs
  <2> HIDE DEF none, c
  <2>2. c \in Seq(CallSet) /\ Len(c) = 0
    BY <2>1, NamedTyped DEF c
  <2>3. c = <<>>
    BY <2>2, NoneIs
  <2>4. b.calls = c
    BY <1>5, <1>6 DEF c, none
  <2> QED
    BY <2>3, <2>4
<1>8. F[m] = <<b>>
  <2>1. ~("responses" = "anthropic")
    OBVIOUS
  <2> QED
    BY <1>4, <2>1, TalkOne DEF Protocols
<1> HIDE DEF b
<1>9. b \in P
  BY <1>3, <1>5, <1>6, <1>7 DEF PlainSet, Plain
<1> HIDE DEF F, M, O, P
<1>10. Gather(F, <<m>>) = F[m] /\ Gather(F, <<>>) = <<>>
  BY <1>1, <1>4, GatherOne, GatherNone
<1>11. <<b>> \in Seq(P) /\ <<>> \in Seq(P)
  BY <1>9, OneIs, NoneIs
<1>12. Talks("responses")[e] = <<b>> \/ Talks("responses")[e] = <<>>
  BY <1>1, <1>2, <1>8, <1>10, Zenon
<1> QED
  BY <1>11, <1>12 DEF P

LEMMA ResultsPairedHolds ==
    ASSUME KnownInv, PairInv
    PROVE  ResultsPaired
<1> SUFFICES ASSUME turn = "upstream" PROVE Paired(request.messages)
  BY DEF ResultsPaired
<1> DEFINE p == client.protocol
           s == Spoken(p, history)
<1>1. p \in Protocols /\ history \in Seq(EntrySet(p))
  BY DEF KnownInv
<1>2. CASE p # "responses"
  <2>1. Tally(p, history, Len(answers), turn)
    BY <1>2 DEF PairInv
  <2> HIDE DEF p
  <2>2. Paired(s)
    BY <2>1, Zenon DEF Tally
  <2>3. Paired(Spoken(client.protocol, history))
    BY <2>2, Zenon DEF p
  <2> QED
    BY <2>3, PairedSent, PairedBehind
<1>3. CASE p = "responses"
  <2>1. \A i \in 1 .. Len(history) : history[i] \in EntrySet("responses")
    BY <1>1, <1>3, SeqIs
  <2>2. \A i \in 1 .. Len(history) : Talks(p)[history[i]] \in Seq(PlainSet)
    BY <1>3, <2>1, ItemTalk
  <2>3. s \in Seq(PlainSet)
    BY <1>1, <2>2, SpokenIs
  <2> HIDE DEF s
  <2>4. Paired(s)
    BY <2>3, PlainIs
  <2>5. Paired(Spoken(client.protocol, history))
    BY <2>4, Zenon DEF s
  <2> QED
    BY <1>3, <2>5, PairedSent
<1> QED
  BY <1>2, <1>3

\* Whatever the conversation, the result of a tool reaches the upstream right
\* after the calls of the answer that made the call, with nothing but results in
\* between, and names just that call; and every call has its result there.
THEOREM ResultsAlwaysPaired == Spec => []ResultsPaired
<1>1. Init => KnownInv /\ PairInv
  BY KnownInit, PairInit
<1>2. KnownInv /\ PairInv /\ [Next]_vars => (KnownInv /\ PairInv)'
  BY KnownStep, PairStep
<1>3. KnownInv /\ PairInv => ResultsPaired
  BY ResultsPairedHolds
<1> QED
  BY <1>1, <1>2, <1>3, PTL DEF Spec
=============================================================================
