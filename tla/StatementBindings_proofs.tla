------------------------- MODULE StatementBindings_proofs -------------------------
(***************************************************************************)
(* Proofs about the values a statement is sent with: each of its placeholders *)
(* receives the value it was written for, whatever chain of calls of any       *)
(* length built it, on every kind of builder and for both forms of            *)
(* placeholder.                                                              *)
(***************************************************************************)
EXTENDS StatementBuilders_proofs

----------------------------------------------------------------------------
(* Concatenations of any number of sequences.                                *)

\* A set that holds the empty sequence, and with a sequence every one that is one
\* longer, holds them all.
LEMMA OneByOne ==
  ASSUME NEW S, NEW Q, <<>> \in Q, \A v \in Seq(S), t \in S : v \in Q => Append(v, t) \in Q, NEW w \in Seq(S)
  PROVE  w \in Q
<1> DEFINE N == Len(w)
           Begin(n) == SubSeq(w, 1, n)
           B == {n \in 0 .. N : Begin(n) \in Q}
<1>1. /\ N \in Nat /\ Begin(0) = <<>> /\ Begin(N) = w
      /\ \A n \in 0 .. N - 1 : Begin(n) \in Seq(S) /\ w[n + 1] \in S /\ Begin(n + 1) = Append(Begin(n), w[n + 1])
  BY Beginnings
<1> HIDE DEF N, Begin
<1>2. 0 \in B
  BY <1>1
<1>3. ASSUME NEW n \in 0 .. N - 1, n \in B PROVE n + 1 \in B
  <2>1. n + 1 \in 0 .. N
    BY <1>1
  <2>2. Begin(n + 1) \in Q
    BY <1>1, <1>3
  <2> QED BY <2>1, <2>2
<1>4. N \in B
  <2> HIDE DEF B
  <2>1. 0 .. N \subseteq B
    BY <1>1, <1>2, <1>3, CountingUp
  <2>2. N \in 0 .. N
    BY <1>1
  <2> QED BY <2>1, <2>2
<1> QED BY <1>1, <1>4

\* FlattenSeq, one sequence at a time.
FlatTrace(g, s) ==
  /\ g[0] = <<>> /\ \A n \in 1 .. Len(s) : g[n] = g[n - 1] \o s[n]
  /\ FlattenSeq(s) = g[Len(s)]

LEMMA FlattenIsTraced ==
  ASSUME NEW E, NEW s \in Seq(Seq(E))
  PROVE  \E g : FlatTrace(g, s) /\ \A n \in 0 .. Len(s) : g[n] \in Seq(E)
<1> DEFINE N == Len(s)
           V == Seq(E)
           step == [n \in 1 .. N |-> [f \in V |-> f \o s[n]]]
           Grows(g) == [i \in 1 .. N |-> IF i = 1 THEN s[i] ELSE g[i - 1] \o s[i]]
           flat == CHOOSE g : g = Grows(g)
<1>1. N \in Nat /\ (\A n \in 1 .. N : s[n] \in V) /\ <<>> \in V /\ \A x \in V : <<>> \o x = x
  <2> DEFINE W == Seq(E)
  <2>1. N \in Nat /\ \A n \in 1 .. N : s[n] \in W
    <3> HIDE DEF W
    <3> QED BY SeqShape DEF W
  <2>2. <<>> \in W /\ \A x \in W : <<>> \o x = x
    OBVIOUS
  <2> QED BY <2>1, <2>2
<1>2. step \in [1 .. N -> [V -> V]] /\ \A n \in 1 .. N, f \in V : step[n][f] = f \o s[n]
  <2>1. \A n \in 1 .. N, f \in V : f \o s[n] \in V
    BY <1>1, ConcatProperties
  <2> HIDE DEF V
  <2> QED BY <2>1
<1> HIDE DEF step, V
<1>3. \E t : TraceOf(t, N, V, <<>>, step)
  <2>1. Stepwise(N, V, <<>>, step)
    BY <1>1, <1>2 DEF Stepwise
  <2> HIDE DEF N
  <2> QED BY <2>1, StepByStep
<1>4. PICK t \in [0 .. N -> V] : t[0] = <<>> /\ \A n \in 1 .. N : t[n] = step[n][t[n - 1]]
  BY <1>3 DEF TraceOf
<1>5. \A n \in 1 .. N : n - 1 \in 0 .. N /\ n \in 0 .. N /\ (n # 1 => n - 1 \in 1 .. N)
  BY <1>1
<1>6. \A n \in 1 .. N : t[n] = t[n - 1] \o s[n]
  BY <1>2, <1>4, <1>5
<1>7. FlatTrace(t, s)
  <2>1. CASE N = 0
    <3>1. s = <<>> /\ FlattenSeq(s) = s
      BY <2>1, SeqShape DEF FlattenSeq
    <3> QED BY <1>4, <1>6, <2>1, <3>1 DEF FlatTrace
  <2>2. CASE N # 0
    <3>1. \E g : g = Grows(g)
      <4> DEFINE g == [i \in 1 .. N |-> t[i]]
      <4>1. \A i \in 1 .. N : g[i] = IF i = 1 THEN s[i] ELSE g[i - 1] \o s[i]
        <5> SUFFICES ASSUME NEW i \in 1 .. N PROVE g[i] = IF i = 1 THEN s[i] ELSE g[i - 1] \o s[i]
          OBVIOUS
        <5>1. CASE i = 1
          <6>1. 1 \in 1 .. N /\ 1 - 1 = 0
            BY <5>1
          <6>2. t[1] = t[1 - 1] \o s[1]
            BY <1>6, <6>1
          <6>3. t[1] = <<>> \o s[1]
            BY <1>4, <6>1, <6>2
          <6> QED BY <1>1, <5>1, <6>1, <6>3
        <5>2. CASE i # 1
          BY <1>5, <1>6, <5>2
        <5> QED BY <5>1, <5>2
      <4>2. g = Grows(g)
        BY <4>1
      <4> QED BY <4>2
    <3>2. flat = Grows(flat)
      BY <3>1
    <3>3. FlattenSeq(s) = flat[N]
      BY <2>2 DEF FlattenSeq
    <3> HIDE DEF flat
    <3>4. \A i \in 1 .. N : flat[i] = IF i = 1 THEN s[i] ELSE flat[i - 1] \o s[i]
      BY ONLY <3>2
    <3>5. flat[N] = t[N]
      <4> DEFINE f == [i \in 0 .. N |-> IF i = 0 THEN <<>> ELSE flat[i]]
      <4>1. \A i \in 1 .. N : f[i] = f[i - 1] \o s[i]
        <5> SUFFICES ASSUME NEW i \in 1 .. N PROVE f[i] = f[i - 1] \o s[i]
          OBVIOUS
        <5>1. f[i] = flat[i] /\ f[i - 1] = IF i = 1 THEN <<>> ELSE flat[i - 1]
          BY <1>5
        <5> HIDE DEF f
        <5> QED BY <1>1, <3>4, <5>1
      <4>2. f[0] = t[0] /\ f[N] = flat[N]
        BY <1>1, <1>4, <2>2
      <4> HIDE DEF f, N
      <4>3. \A i \in 1 .. N : f[i - 1] = t[i - 1] => f[i] = t[i]
        BY <1>6, <4>1
      <4>4. f[N] = t[N]
        BY <1>1, <4>2, <4>3, TracesMeet
      <4> QED BY <4>2, <4>4
    <3> QED BY <1>4, <1>6, <3>3, <3>5 DEF FlatTrace
  <2> QED BY <2>1, <2>2
<1> QED BY <1>4, <1>7 DEF V

LEMMA FlattenGrows ==
  ASSUME NEW E, NEW s \in Seq(Seq(E)), NEW e \in Seq(E)
  PROVE  FlattenSeq(Append(s, e)) = FlattenSeq(s) \o e /\ FlattenSeq(s) \in Seq(E)
<1> DEFINE V == Seq(E)
           N == Len(s)
           more == Append(s, e)
<1> HIDE DEF V
<1>1. N \in Nat /\ more \in Seq(V) /\ Len(more) = N + 1 /\ more[N + 1] = e /\ \A n \in 1 .. N : more[n] = s[n]
  BY AppendProperties DEF V
<1>2. PICK g : FlatTrace(g, s) /\ \A n \in 0 .. N : g[n] \in V
  BY FlattenIsTraced DEF V
<1> HIDE DEF more
<1>3. PICK h : FlatTrace(h, more)
  BY <1>1, FlattenIsTraced DEF V
<1>4. /\ g[0] = <<>> /\ (\A n \in 1 .. N : g[n] = g[n - 1] \o s[n]) /\ FlattenSeq(s) = g[N]
      /\ h[0] = <<>> /\ (\A n \in 1 .. N + 1 : h[n] = h[n - 1] \o more[n]) /\ FlattenSeq(more) = h[N + 1]
  BY <1>1, <1>2, <1>3 DEF FlatTrace
<1> HIDE DEF N
<1>5. g[N] = h[N]
  <2>1. \A n \in 1 .. N : n \in 1 .. N + 1
    BY <1>1
  <2>2. \A n \in 1 .. N : g[n - 1] = h[n - 1] => g[n] = h[n]
    BY <1>1, <1>4, <2>1
  <2>3. N \in Nat /\ g[0] = h[0]
    BY <1>1, <1>4
  <2> QED BY ONLY <2>2, <2>3, TracesMeet
<1>6. N + 1 \in 1 .. N + 1 /\ (N + 1) - 1 = N /\ N \in 0 .. N
  BY <1>1
<1>7. h[N + 1] = h[N] \o e
  BY <1>1, <1>4, <1>6
<1> QED BY <1>2, <1>4, <1>5, <1>6, <1>7 DEF more, V

LEMMA FlattenNothing == FlattenSeq(<<>>) = <<>>
<1>1. Len(<<>>) = 0
  OBVIOUS
<1> QED BY <1>1 DEF FlattenSeq

(* What a text or a list of terms holds of placeholders, one of them at a time. *)
Holds(T, E) == \A t \in T : t.ph \in Seq(E)
Phs(w) == [i \in 1 .. Len(w) |-> w[i].ph]

LEMMA PhsAre ==
  ASSUME NEW T, NEW E, Holds(T, E), NEW w \in Seq(T)
  PROVE  /\ Placeholders(w) = FlattenSeq(Phs(w)) /\ Phs(w) \in Seq(Seq(E))
         /\ \A t \in T : Phs(Append(w, t)) = Append(Phs(w), t.ph)
<1> DEFINE N == Len(w)
           V == Seq(E)
           Ph(i) == w[i].ph
<1>1. N \in Nat /\ \A i \in 1 .. N : w[i] \in T
  BY SeqShape
<1>2. \A i \in 1 .. N : w[i].ph \in V
  BY <1>1 DEF Holds
<1> HIDE DEF V, N
<1>3. Phs(w) \in [1 .. N -> V]
  BY <1>2 DEF Phs, N
<1>4. Phs(w) \in Seq(V) /\ Len(Phs(w)) = N
  BY <1>1, <1>3, SeqFrom
<1>5. ASSUME NEW t \in T PROVE Phs(Append(w, t)) = Append(Phs(w), t.ph)
  <2> DEFINE a == Phs(Append(w, t))
             c == Append(Phs(w), t.ph)
  <2>1. /\ Len(Append(w, t)) = N + 1 /\ Append(w, t)[N + 1] = t
        /\ \A i \in 1 .. N : Append(w, t)[i] = w[i]
    BY AppendProperties DEF N
  <2>2. t.ph \in V
    BY DEF Holds, V
  <2>3. c \in Seq(V) /\ Len(c) = N + 1 /\ c[N + 1] = t.ph /\ \A i \in 1 .. N : c[i] = Phs(w)[i]
    BY <1>4, <2>2, AppendProperties
  <2>4. DOMAIN c = 1 .. N + 1 /\ DOMAIN a = 1 .. N + 1
    BY <1>1, <2>1, <2>3 DEF Phs
  <2>5. \A i \in 1 .. N + 1 : a[i] = c[i]
    <3> SUFFICES ASSUME NEW i \in 1 .. N + 1 PROVE a[i] = c[i]
      OBVIOUS
    <3>1. a[i] = Append(w, t)[i].ph
      BY <2>1 DEF Phs
    <3>2. CASE i = N + 1
      BY <2>1, <2>3, <3>1, <3>2
    <3>3. CASE i # N + 1
      <4>1. i \in 1 .. N
        BY <1>1, <3>3
      <4>2. Phs(w)[i] = w[i].ph
        BY <4>1 DEF Phs, N
      <4> QED BY <2>1, <2>3, <3>1, <4>1, <4>2
    <3> QED BY <3>2, <3>3
  <2>6. a = [i \in DOMAIN a |-> a[i]]
    BY DEF Phs
  <2>7. c = [i \in DOMAIN c |-> c[i]]
    BY <2>3
  <2> HIDE DEF a, c
  <2> QED BY <2>4, <2>5, <2>6, <2>7 DEF a, c
<1>6. Placeholders(w) = FlattenSeq(Phs(w))
  BY DEF Placeholders, Phs
<1> QED BY <1>4, <1>5, <1>6 DEF V

LEMMA PlaceholdersGrow ==
  ASSUME NEW T, NEW E, Holds(T, E), NEW w \in Seq(T)
  PROVE  /\ Placeholders(w) \in Seq(E)
         /\ \A t \in T : Placeholders(Append(w, t)) = Placeholders(w) \o t.ph
<1>1. Placeholders(w) = FlattenSeq(Phs(w)) /\ Phs(w) \in Seq(Seq(E))
  BY PhsAre
<1>2. Placeholders(w) \in Seq(E)
  BY <1>1, FlattenGrows, <<>> \in Seq(E)
<1>3. ASSUME NEW t \in T PROVE Placeholders(Append(w, t)) = Placeholders(w) \o t.ph
  <2>1. Append(w, t) \in Seq(T) /\ t.ph \in Seq(E)
    BY AppendProperties DEF Holds
  <2>2. Placeholders(Append(w, t)) = FlattenSeq(Phs(Append(w, t)))
    BY <2>1, PhsAre
  <2>3. Phs(Append(w, t)) = Append(Phs(w), t.ph)
    BY PhsAre
  <2>4. FlattenSeq(Append(Phs(w), t.ph)) = FlattenSeq(Phs(w)) \o t.ph
    BY <1>1, <2>1, FlattenGrows
  <2> QED BY <1>1, <2>2, <2>3, <2>4
<1> QED BY <1>2, <1>3

LEMMA ThreeInOrder ==
  ASSUME NEW E
  PROVE  \A x, y, z \in Seq(E) : (x \o y) \o z = x \o (y \o z)
BY ConcatAssociative

LEMMA NoPlaceholders == Placeholders(<<>>) = <<>>
<1>1. Placeholders(<<>>) = FlattenSeq(Phs(<<>>))
  BY DEF Placeholders, Phs
<1>2. Phs(<<>>) = <<>>
  BY DEF Phs
<1> QED BY <1>1, <1>2, FlattenNothing

LEMMA OnePlaceholders ==
  ASSUME NEW t
  PROVE  Placeholders(<<t>>) = t.ph
<1>1. Placeholders(<<t>>) = FlattenSeq(Phs(<<t>>))
  BY DEF Placeholders, Phs
<1>2. Phs(<<t>>) = <<t.ph>>
  BY DEF Phs
<1>3. Len(<<t.ph>>) = 1 /\ <<t.ph>>[1] = t.ph
  OBVIOUS
<1> QED BY <1>1, <1>2, <1>3, FlattenOne

LEMMA PlaceholdersJoin ==
  ASSUME NEW T, NEW E, Holds(T, E), NEW u \in Seq(T), NEW v \in Seq(T)
  PROVE  Placeholders(u \o v) = Placeholders(u) \o Placeholders(v)
<1> DEFINE Q == {w \in Seq(T) : Placeholders(u \o w) = Placeholders(u) \o Placeholders(w)}
<1>1. <<>> \in Q
  <2>1. Placeholders(u) \in Seq(E)
    BY PlaceholdersGrow
  <2>2. u \o <<>> = u /\ Placeholders(u) \o <<>> = Placeholders(u) /\ <<>> \in Seq(T)
    BY <2>1
  <2> QED BY <2>2, NoPlaceholders
<1>2. ASSUME NEW w \in Seq(T), NEW t \in T, w \in Q PROVE Append(w, t) \in Q
  <2>1. u \o Append(w, t) = Append(u \o w, t)
    BY ConcatAppend
  <2>2. u \o w \in Seq(T) /\ Append(w, t) \in Seq(T)
    BY ConcatProperties, AppendProperties
  <2>3. Placeholders(Append(u \o w, t)) = Placeholders(u \o w) \o t.ph
    BY <2>2, PlaceholdersGrow
  <2>4. Placeholders(Append(w, t)) = Placeholders(w) \o t.ph
    BY PlaceholdersGrow
  <2> DEFINE a == Placeholders(u)
             c == Placeholders(w)
             d == t.ph
  <2>5. a \in Seq(E) /\ c \in Seq(E) /\ d \in Seq(E)
    BY PlaceholdersGrow DEF Holds
  <2> HIDE DEF a, c, d
  <2>6. (a \o c) \o d = a \o (c \o d)
    <3>1. \A x, y, z \in Seq(E) : (x \o y) \o z = x \o (y \o z)
      BY ONLY ThreeInOrder
    <3> QED BY ONLY <2>5, <3>1
  <2>7. Placeholders(u \o w) = Placeholders(u) \o Placeholders(w)
    BY <1>2
  <2> QED BY <2>1, <2>2, <2>3, <2>4, <2>6, <2>7 DEF a, c, d
<1> HIDE DEF Q
<1>3. v \in Q
  BY <1>1, <1>2, OneByOne
<1> QED BY <1>3 DEF Q

(* renderWhereTerms prints the placeholders of the terms in their order.       *)
RunPlaceholders(runs) == FlattenSeq([i \in 1 .. Len(runs) |-> Placeholders(runs[i])])

LEMMA RunsOneMore ==
  ASSUME NEW T, NEW E, Holds(T, E), NEW runs \in Seq(Seq(T)), NEW r \in Seq(T)
  PROVE  /\ RunPlaceholders(Append(runs, r)) = RunPlaceholders(runs) \o Placeholders(r)
         /\ RunPlaceholders(runs) \in Seq(E)
<1> DEFINE N == Len(runs)
           V == Seq(E)
           W == Seq(T)
           more == Append(runs, r)
           p == [i \in 1 .. N |-> Placeholders(runs[i])]
           q == [i \in 1 .. N + 1 |-> Placeholders(more[i])]
           c == Append(p, Placeholders(r))
<1>1. N \in Nat /\ \A i \in 1 .. N : runs[i] \in W
  <2> HIDE DEF W
  <2> QED BY SeqShape DEF W
<1>2. \A x \in W : Placeholders(x) \in V
  BY PlaceholdersGrow
<1>3. Len(more) = N + 1 /\ more[N + 1] = r /\ \A i \in 1 .. N : more[i] = runs[i]
  <2> HIDE DEF W
  <2> QED BY AppendProperties DEF W
<1> HIDE DEF V, W, N, more
<1>4. p \in [1 .. N -> V]
  BY <1>1, <1>2
<1>5. p \in Seq(V) /\ Len(p) = N /\ Placeholders(r) \in V
  <2> HIDE DEF p
  <2> QED BY <1>1, <1>2, <1>4, SeqFrom DEF W
<1>6. c \in Seq(V) /\ Len(c) = N + 1 /\ c[N + 1] = Placeholders(r) /\ \A i \in 1 .. N : c[i] = p[i]
  <2> HIDE DEF p
  <2> QED BY <1>5, AppendProperties
<1>7. q = c
  <2>1. DOMAIN c = 1 .. N + 1 /\ c = [i \in DOMAIN c |-> c[i]]
    <3> HIDE DEF c
    <3> QED BY <1>1, <1>6
  <2>2. \A i \in 1 .. N + 1 : q[i] = c[i]
    <3> SUFFICES ASSUME NEW i \in 1 .. N + 1 PROVE q[i] = c[i]
      OBVIOUS
    <3>1. q[i] = Placeholders(more[i])
      OBVIOUS
    <3>2. CASE i = N + 1
      BY <1>3, <1>6, <3>1, <3>2
    <3>3. CASE i # N + 1
      <4>1. i \in 1 .. N
        BY <1>1, <3>3
      <4>2. p[i] = Placeholders(runs[i])
        BY <4>1
      <4> HIDE DEF p, q, c
      <4> QED BY <1>3, <1>6, <3>1, <4>1, <4>2
    <3> QED BY <3>2, <3>3
  <2> HIDE DEF c
  <2> QED BY <2>1, <2>2
<1>8. RunPlaceholders(more) = FlattenSeq(q) /\ RunPlaceholders(runs) = FlattenSeq(p)
  BY <1>3 DEF RunPlaceholders, N
<1> HIDE DEF p, q
<1>9. FlattenSeq(c) = FlattenSeq(p) \o Placeholders(r) /\ FlattenSeq(p) \in Seq(E)
  BY <1>5, FlattenGrows DEF V
<1> QED BY <1>7, <1>8, <1>9 DEF more

LEMMA RunPlaceholdersGrow ==
  ASSUME NEW T, NEW E, Holds(T, E), NEW runs \in RunLists(T), NEW t \in T
  PROVE  RunPlaceholders(WithTerm(runs, t)) = RunPlaceholders(runs) \o t.ph
<1> DEFINE W == Seq(T)
           n == Len(runs)
<1>1. runs \in Seq(W) /\ n \in Nat /\ <<t>> \in W /\ t.ph \in Seq(E)
  BY DEF RunLists, Holds
<1>2. CASE t.conn = "OR" /\ runs # <<>>
  <2> DEFINE front == SubSeq(runs, 1, n - 1)
             last == runs[n]
             more == Append(last, t)
             ext == [runs EXCEPT ![n] = Append(@, t)]
  <2>1. n \in 1 .. n /\ n - 1 \in 0 .. n - 1 /\ (n - 1) + 1 = n
    <3>1. n # 0
      BY <1>1, <1>2, EmptySeq DEF W
    <3> HIDE DEF n
    <3> QED BY <1>1, <3>1
  <2> HIDE DEF W
  <2>2. front \in Seq(W) /\ last \in W /\ runs = Append(front, last)
    <3>1. SubSeq(runs, 1, n) = runs
      BY <1>1, Beginnings
    <3>2. /\ SubSeq(runs, 1, n - 1) \in Seq(W) /\ runs[(n - 1) + 1] \in W
          /\ SubSeq(runs, 1, (n - 1) + 1) = Append(SubSeq(runs, 1, n - 1), runs[(n - 1) + 1])
      BY <1>1, <2>1, Beginnings
    <3> QED BY <2>1, <3>1, <3>2
  <2>3. more \in W
    BY <2>2, AppendProperties DEF W
  <2>4. ext = Append(front, more)
    <3>1. Len(front) = n - 1
      BY <1>1, <2>2, <2>1, AppendProperties
    <3> DEFINE c == Append(front, more)
    <3> HIDE DEF front, more, last
    <3>2. c \in Seq(W) /\ Len(c) = n /\ c[n] = more /\ \A i \in 1 .. n - 1 : c[i] = front[i]
      BY <2>1, <2>2, <2>3, <3>1, AppendProperties
    <3>3. \A i \in 1 .. n - 1 : runs[i] = front[i]
      BY <2>1, <2>2, <3>1, AppendProperties
    <3>4. DOMAIN c = 1 .. n /\ c = [i \in DOMAIN c |-> c[i]] /\ DOMAIN runs = 1 .. n
      <4> HIDE DEF c
      <4> QED BY <1>1, <3>2
    <3>5. ext = [i \in 1 .. n |-> IF i = n THEN more ELSE runs[i]]
      BY <1>1, <3>4 DEF more, last
    <3>6. \A i \in 1 .. n : i = n \/ i \in 1 .. n - 1
      BY <1>1
    <3>7. \A i \in 1 .. n : c[i] = IF i = n THEN more ELSE runs[i]
      BY <3>2, <3>3, <3>6
    <3> HIDE DEF c, ext
    <3>8. c = ext
      BY <3>4, <3>5, <3>7
    <3> QED BY <3>8 DEF c
  <2>5. WithTerm(runs, t) = ext
    BY <1>2 DEF WithTerm
  <2> HIDE DEF ext, front, more
  <2>6. RunPlaceholders(Append(front, more)) = RunPlaceholders(front) \o Placeholders(more)
    BY <2>2, <2>3, RunsOneMore DEF W
  <2>7. RunPlaceholders(runs) = RunPlaceholders(front) \o Placeholders(last) /\ RunPlaceholders(front) \in Seq(E)
    BY <2>2, RunsOneMore DEF W
  <2>8. Placeholders(more) = Placeholders(last) \o t.ph /\ Placeholders(last) \in Seq(E)
    BY <2>2, PlaceholdersGrow DEF W, more
  <2> DEFINE a == RunPlaceholders(front)
             c == Placeholders(last)
             d == t.ph
  <2>9. a \in Seq(E) /\ c \in Seq(E) /\ d \in Seq(E)
    BY <1>1, <2>7, <2>8
  <2> HIDE DEF a, c, d
  <2>10. (a \o c) \o d = a \o (c \o d)
    BY ONLY <2>9, ThreeInOrder
  <2> QED BY <2>4, <2>5, <2>6, <2>7, <2>8, <2>10 DEF a, c, d
<1>3. CASE ~(t.conn = "OR" /\ runs # <<>>)
  <2>1. WithTerm(runs, t) = Append(runs, <<t>>)
    BY <1>3 DEF WithTerm
  <2>2. RunPlaceholders(Append(runs, <<t>>)) = RunPlaceholders(runs) \o Placeholders(<<t>>)
    BY <1>1, RunsOneMore
  <2> QED BY <2>1, <2>2, OnePlaceholders
<1> QED BY <1>2, <1>3

LEMMA RunsInOrder ==
  ASSUME NEW T, NEW E, Holds(T, E), NEW w \in Seq(T)
  PROVE  RunPlaceholders(OrRuns(w)) = Placeholders(w)
<1> DEFINE Q == {v \in Seq(T) : RunPlaceholders(OrRuns(v)) = Placeholders(v)}
<1>1. <<>> \in Q
  <2>1. RunPlaceholders(<<>>) = FlattenSeq(<<>>)
    <3>1. [i \in 1 .. Len(<<>>) |-> Placeholders(<<>>[i])] = <<>>
      OBVIOUS
    <3> QED BY <3>1 DEF RunPlaceholders
  <2> QED BY <2>1, OrRunsBegin, NoPlaceholders, FlattenNothing
<1>2. ASSUME NEW v \in Seq(T), NEW t \in T, v \in Q PROVE Append(v, t) \in Q
  <2>1. OrRuns(Append(v, t)) = WithTerm(OrRuns(v), t) /\ OrRuns(v) \in RunLists(T)
    BY OrRunsGrow
  <2>2. RunPlaceholders(WithTerm(OrRuns(v), t)) = RunPlaceholders(OrRuns(v)) \o t.ph
    BY <2>1, RunPlaceholdersGrow
  <2>3. Placeholders(Append(v, t)) = Placeholders(v) \o t.ph
    BY PlaceholdersGrow
  <2>4. Append(v, t) \in Seq(T)
    BY AppendProperties
  <2> QED BY <1>2, <2>1, <2>2, <2>3, <2>4
<1> HIDE DEF Q
<1>3. w \in Q
  BY <1>1, <1>2, OneByOne
<1> QED BY <1>3 DEF Q

LEMMA BodyInOrder ==
  ASSUME NEW T, NEW E, Holds(T, E), NEW w \in Seq(T)
  PROVE  BodyPlaceholders(RenderWhereTerms(w)) = Placeholders(w)
<1> DEFINE runs == OrRuns(w)
           body == RenderWhereTerms(w)
<1>1. runs \in RunLists(T) /\ (runs = <<>> <=> w = <<>>) /\ RunPlaceholders(runs) = Placeholders(w)
  BY RunsOfNone, RunsInOrder
<1>2. BodyPlaceholders(body) = FlattenSeq([i \in 1 .. Len(body) |-> Placeholders(body[i].any)])
  BY DEF BodyPlaceholders, Placeholders
<1>3. runs \in Seq(Seq(T)) /\ Len(runs) \in Nat
  BY <1>1 DEF RunLists
<1>4. CASE Len(runs) = 0
  <2>1. w = <<>> /\ body = <<>>
    <3>1. runs = <<>>
      BY <1>3, <1>4, EmptySeq
    <3> QED BY <1>1, <3>1, RenderedType
  <2>2. [i \in 1 .. Len(body) |-> Placeholders(body[i].any)] = <<>>
    <3>1. Len(body) = 0
      BY <2>1
    <3> HIDE DEF body
    <3> QED BY <3>1
  <2> QED BY <1>2, <2>1, <2>2, NoPlaceholders, FlattenNothing
<1>5. CASE Len(runs) = 1
  <2> DEFINE ts == runs[1]
             m == Len(ts)
  <2>1. ts \in Seq(T) /\ DOMAIN runs = {1} /\ body = BareRun(ts)
    BY <1>5, OneRunIs
  <2>2. m \in Nat /\ DOMAIN ts = 1 .. m
    BY <2>1, SeqShape
  <2> HIDE DEF ts, m, body
  <2>3. body = [i \in 1 .. m |-> [conn |-> IF i = 1 THEN "AND" ELSE "OR", any |-> <<ts[i]>>]]
    BY <2>1 DEF BareRun, m
  <2>4. Len(body) = m /\ \A i \in 1 .. m : body[i].any = <<ts[i]>>
    <3> DEFINE P(i) == [conn |-> IF i = 1 THEN "AND" ELSE "OR", any |-> <<ts[i]>>]
               Ps == {P(i) : i \in 1 .. m}
    <3>1. body \in [1 .. m -> Ps]
      BY <2>3
    <3> HIDE DEF Ps
    <3>2. Len(body) = m
      BY <2>2, <3>1, SeqFrom
    <3>3. \A i \in 1 .. m : body[i] = P(i)
      BY <2>3
    <3> QED BY <3>2, <3>3
  <2>5. \A i \in 1 .. m : Placeholders(body[i].any) = ts[i].ph
    BY <2>4, OnePlaceholders
  <2>6. [i \in 1 .. Len(body) |-> Placeholders(body[i].any)] = Phs(ts)
    BY <2>4, <2>5 DEF Phs, m
  <2>7. Placeholders(ts) = FlattenSeq(Phs(ts))
    BY DEF Placeholders, Phs
  <2>8. RunPlaceholders(runs) = Placeholders(ts)
    <3> DEFINE one == [i \in 1 .. Len(runs) |-> Placeholders(runs[i])]
    <3>1. one = [i \in 1 .. 1 |-> Placeholders(runs[i])]
      BY <1>5
    <3> DEFINE pt == Placeholders(ts)
    <3>2. \A i \in 1 .. 1 : Placeholders(runs[i]) = pt
      BY DEF ts
    <3> HIDE DEF pt
    <3>3. one = [i \in 1 .. 1 |-> pt]
      BY <3>1, <3>2
    <3>4. Len(one) = 1 /\ one[1] = pt
      <4> HIDE DEF one
      <4>1. one \in [1 .. 1 -> {pt}] /\ 1 \in 1 .. 1
        BY <3>3
      <4>2. Len(one) = 1
        BY <4>1, SeqFrom
      <4> QED BY <3>3, <4>1, <4>2
    <3> HIDE DEF one
    <3>5. FlattenSeq(one) = one[1]
      BY <3>4, FlattenOne
    <3> QED BY <3>4, <3>5 DEF RunPlaceholders, one, pt
  <2> QED BY <1>1, <1>2, <2>6, <2>7, <2>8 DEF body
<1>6. CASE Len(runs) > 1
  <2>1. body = Bracketed(runs)
    BY <1>6, SeveralRunsIs
  <2> DEFINE m == Len(runs)
  <2> HIDE DEF body, runs, m
  <2>2. body = [i \in 1 .. m |-> [conn |-> "AND", any |-> runs[i]]]
    BY <2>1 DEF Bracketed, m
  <2>3. Len(body) = m /\ \A i \in 1 .. m : body[i].any = runs[i]
    <3> DEFINE P(i) == [conn |-> "AND", any |-> runs[i]]
               Ps == {P(i) : i \in 1 .. m}
    <3>1. body \in [1 .. m -> Ps]
      BY <2>2
    <3> HIDE DEF Ps
    <3>2. Len(body) = m
      BY <1>3, <3>1, SeqFrom DEF m
    <3>3. \A i \in 1 .. m : body[i] = P(i)
      BY <2>2
    <3> QED BY <3>2, <3>3
  <2>4. [i \in 1 .. Len(body) |-> Placeholders(body[i].any)] = [i \in 1 .. m |-> Placeholders(runs[i])]
    BY <2>3
  <2> QED BY <1>1, <1>2, <2>4 DEF RunPlaceholders, m, body, runs
<1> DEFINE n == Len(runs)
<1> HIDE DEF n
<1>7. n \in Nat => n = 0 \/ n = 1 \/ n > 1
  OBVIOUS
<1> QED BY <1>3, <1>4, <1>5, <1>6, <1>7 DEF n

(* A placeholder with a value of this builder, and the ones a builder has given *)
(* when it holds m values.                                                     *)
Marks(s) == {p \in {s[i] : i \in DOMAIN s} : p.at # 0}
Mark(d, i) == [at |-> i, n |-> IF d = "postgres" THEN i ELSE 0]
OwnMark(d, m) == [at |-> OwnValue, n |-> IF d = "postgres" THEN m + 1 ELSE 0]
Bound(d, m) == {Mark(d, i) : i \in 1 .. m}
NextMarks(d, m, k) == {Mark(d, m + i) : i \in 1 .. k}

\* Each value is given before the next, the one of the call itself after all others.
Prior(p, q) == p.at # OwnValue /\ (q.at = OwnValue \/ p.at < q.at)
Lead(A, B) == \A p \in A, q \in B : Prior(p, q)
Rising(s) == \A i, j \in DOMAIN s : (i < j /\ s[i].at # 0 /\ s[j].at # 0) => Prior(s[i], s[j])

PH == [at : Int, n : Nat]

LEMMA MarksJoin ==
  ASSUME NEW E, NEW s \in Seq(E), NEW r \in Seq(E)
  PROVE  /\ Marks(s \o r) = Marks(s) \cup Marks(r)
         /\ Rising(s \o r) <=> (Rising(s) /\ Rising(r) /\ Lead(Marks(s), Marks(r)))
<1> DEFINE c == s \o r
           n == Len(s)
           m == Len(r)
<1>1. /\ n \in Nat /\ m \in Nat /\ Len(c) = n + m /\ c \in Seq(E)
      /\ (\A i \in 1 .. n : c[i] = s[i]) /\ \A i \in 1 .. m : c[n + i] = r[i]
  BY ConcatProperties
<1>2. DOMAIN s = 1 .. n /\ DOMAIN r = 1 .. m /\ DOMAIN c = 1 .. n + m
  BY <1>1
<1> HIDE DEF c, n, m
<1>3. \A i \in 1 .. n : i \in 1 .. n + m
  BY <1>1
<1>4. \A i \in 1 .. m : n + i \in 1 .. n + m
  BY <1>1
<1>5. \A i \in 1 .. n + m : i \in 1 .. n \/ (i - n \in 1 .. m /\ n + (i - n) = i)
  BY <1>1
<1>6. {c[i] : i \in 1 .. n + m} = {s[i] : i \in 1 .. n} \cup {r[i] : i \in 1 .. m}
  <2>1. ASSUME NEW i \in 1 .. n + m PROVE c[i] \in {s[j] : j \in 1 .. n} \cup {r[j] : j \in 1 .. m}
    <3>1. CASE i \in 1 .. n
      BY <1>1, <3>1
    <3>2. CASE i - n \in 1 .. m /\ n + (i - n) = i
      <4>1. c[i] = r[i - n]
        BY <1>1, <3>2
      <4> QED BY <3>2, <4>1
    <3> QED BY <1>5, <3>1, <3>2
  <2>2. \A i \in 1 .. n : s[i] \in {c[j] : j \in 1 .. n + m}
    BY <1>1, <1>3
  <2>3. \A i \in 1 .. m : r[i] \in {c[j] : j \in 1 .. n + m}
    <3> SUFFICES ASSUME NEW i \in 1 .. m PROVE r[i] \in {c[j] : j \in 1 .. n + m}
      OBVIOUS
    <3>1. c[n + i] = r[i] /\ n + i \in 1 .. n + m
      BY <1>1, <1>4
    <3> QED BY <3>1
  <2> QED BY <2>1, <2>2, <2>3
<1>7. Marks(c) = Marks(s) \cup Marks(r)
  BY <1>2, <1>6 DEF Marks
<1>8. ASSUME Rising(c) PROVE Rising(s) /\ Rising(r) /\ Lead(Marks(s), Marks(r))
  <2>1. \A i, j \in 1 .. n + m : (i < j /\ c[i].at # 0 /\ c[j].at # 0) => Prior(c[i], c[j])
    BY <1>2, <1>8 DEF Rising
  <2>2. ASSUME NEW i \in 1 .. n, NEW j \in 1 .. n, i < j, s[i].at # 0, s[j].at # 0 PROVE Prior(s[i], s[j])
    <3>1. c[i] = s[i] /\ c[j] = s[j] /\ i \in 1 .. n + m /\ j \in 1 .. n + m
      BY <1>1, <1>3
    <3> QED BY <2>1, <2>2, <3>1
  <2>3. ASSUME NEW i \in 1 .. m, NEW j \in 1 .. m, i < j, r[i].at # 0, r[j].at # 0 PROVE Prior(r[i], r[j])
    <3>1. c[n + i] = r[i] /\ c[n + j] = r[j] /\ n + i \in 1 .. n + m /\ n + j \in 1 .. n + m
      BY <1>1, <1>4
    <3>2. n + i < n + j
      BY <1>1, <2>3
    <3> QED BY <2>1, <2>3, <3>1, <3>2
  <2>4. ASSUME NEW i \in 1 .. n, NEW j \in 1 .. m, s[i].at # 0, r[j].at # 0 PROVE Prior(s[i], r[j])
    <3>1. c[i] = s[i] /\ c[n + j] = r[j] /\ i \in 1 .. n + m /\ n + j \in 1 .. n + m
      BY <1>1, <1>3, <1>4
    <3>2. i < n + j
      BY <1>1
    <3> QED BY <2>1, <2>4, <3>1, <3>2
  <2>5. Rising(s)
    BY <1>2, <2>2 DEF Rising
  <2>6. Rising(r)
    BY <1>2, <2>3 DEF Rising
  <2>7. Lead(Marks(s), Marks(r))
    BY <1>2, <2>4 DEF Lead, Marks
  <2> QED BY <2>5, <2>6, <2>7
<1>9. ASSUME Rising(s), Rising(r), Lead(Marks(s), Marks(r)) PROVE Rising(c)
  <2>1. ASSUME NEW i \in 1 .. n + m, NEW j \in 1 .. n + m, i < j, c[i].at # 0, c[j].at # 0 PROVE Prior(c[i], c[j])
    <3>1. CASE i \in 1 .. n /\ j \in 1 .. n
      <4>1. c[i] = s[i] /\ c[j] = s[j]
        BY <1>1, <3>1
      <4> QED BY <1>2, <1>9, <2>1, <3>1, <4>1 DEF Rising
    <3>2. CASE i \in 1 .. n /\ j \notin 1 .. n
      <4>1. c[i] = s[i] /\ j - n \in 1 .. m /\ n + (j - n) = j
        BY <1>1, <1>5, <3>2
      <4>2. c[j] = r[j - n]
        BY <1>1, <4>1
      <4>3. c[i] \in Marks(s) /\ c[j] \in Marks(r)
        BY <1>2, <2>1, <3>2, <4>1, <4>2 DEF Marks
      <4> QED BY <1>9, <4>3 DEF Lead
    <3>3. CASE i \notin 1 .. n
      <4>1. /\ i - n \in 1 .. m /\ n + (i - n) = i
            /\ j - n \in 1 .. m /\ n + (j - n) = j /\ i - n < j - n
        <5>1. j \notin 1 .. n
          BY <1>1, <2>1, <3>3
        <5> QED BY <1>1, <1>5, <2>1, <3>3, <5>1
      <4>2. c[i] = r[i - n] /\ c[j] = r[j - n]
        BY <1>1, <4>1
      <4> QED BY <1>2, <1>9, <2>1, <4>1, <4>2 DEF Rising
    <3> QED BY <3>1, <3>2, <3>3
  <2> QED BY <1>2, <2>1 DEF Rising
<1> QED BY <1>7, <1>8, <1>9 DEF c

LEMMA Unmarked ==
  /\ Marks(<<>>) = {} /\ Rising(<<>>) /\ \A E : <<>> \in Seq(E)
  /\ \A s : Marks(s) = {} => Rising(s)
  /\ \A A : Lead(A, {}) /\ Lead({}, A)
<1>1. Marks(<<>>) = {} /\ \A E : <<>> \in Seq(E)
  BY DEF Marks
<1>2. \A s : Marks(s) = {} => Rising(s)
  BY DEF Marks, Rising
<1> QED BY <1>1, <1>2 DEF Lead

LEMMA GivenMore ==
  ASSUME NEW d, NEW m \in Nat, NEW k \in Nat
  PROVE  /\ Bound(d, m + k) = Bound(d, m) \cup NextMarks(d, m, k)
         /\ Lead(Bound(d, m), NextMarks(d, m, k))
         /\ Bound(d, 0) = {} /\ NextMarks(d, m, 0) = {}
<1>1. \A i \in 1 .. m + k : i \in 1 .. m \/ (i - m \in 1 .. k /\ m + (i - m) = i)
  OBVIOUS
<1>2. (\A i \in 1 .. m : i \in 1 .. m + k) /\ \A i \in 1 .. k : m + i \in 1 .. m + k
  OBVIOUS
<1>3. Bound(d, m + k) \subseteq Bound(d, m) \cup NextMarks(d, m, k)
  BY <1>1 DEF Bound, NextMarks
<1>4. Bound(d, m) \cup NextMarks(d, m, k) \subseteq Bound(d, m + k)
  BY <1>2 DEF Bound, NextMarks
<1>5. Lead(Bound(d, m), NextMarks(d, m, k))
  <2> SUFFICES ASSUME NEW i \in 1 .. m, NEW j \in 1 .. k PROVE Prior(Mark(d, i), Mark(d, m + j))
    BY DEF Lead, Bound, NextMarks
  <2>1. Mark(d, i).at = i /\ Mark(d, m + j).at = m + j
    BY DEF Mark
  <2> QED BY <2>1 DEF Prior, OwnValue
<1>6. Bound(d, 0) = {} /\ NextMarks(d, m, 0) = {}
  BY DEF Bound, NextMarks
<1> QED BY <1>3, <1>4, <1>5, <1>6

LEMMA PlaceholdersGiven ==
  ASSUME NEW x, x.params \in Nat, NEW k \in Nat
  PROVE  LET s == GetPlaceholders(x, k)
         IN  s \in Seq(PH) /\ Len(s) = k /\ Marks(s) = NextMarks(x.dialect, x.params, k) /\ Rising(s)
<1> DEFINE s == GetPlaceholders(x, k)
           d == x.dialect
           m == x.params
<1>1. s = [i \in 1 .. k |-> Mark(d, m + i)]
  BY DEF GetPlaceholders, Mark
<1>2. \A i \in 1 .. k : Mark(d, m + i) \in PH /\ Mark(d, m + i).at = m + i /\ m + i # 0
  BY DEF Mark, PH
<1> HIDE DEF s, d, m
<1>3. s \in [1 .. k -> PH]
  BY <1>1, <1>2
<1>4. s \in Seq(PH) /\ Len(s) = k /\ DOMAIN s = 1 .. k
  BY <1>3, SeqFrom
<1>5. Marks(s) = NextMarks(d, m, k)
  BY <1>1, <1>2, <1>4 DEF Marks, NextMarks
<1>6. Rising(s)
  <2> SUFFICES ASSUME NEW i \in 1 .. k, NEW j \in 1 .. k, i < j PROVE Prior(s[i], s[j])
    BY <1>4 DEF Rising
  <2>1. s[i].at = m + i /\ s[j].at = m + j /\ m \in Nat
    BY <1>1, <1>2 DEF m
  <2> QED BY <2>1 DEF Prior, OwnValue
<1> QED BY <1>4, <1>5, <1>6 DEF s, d, m

LEMMA PlaceholdersLost ==
  ASSUME NEW x, NEW k \in Nat
  PROVE  LostPlaceholders(x, k) \in Seq(PH) /\ Marks(LostPlaceholders(x, k)) = {}
<1> DEFINE s == LostPlaceholders(x, k)
           P(i) == [at |-> 0, n |-> IF x.dialect = "postgres" THEN i ELSE 0]
<1>1. s = [i \in 1 .. k |-> P(i)] /\ \A i \in 1 .. k : P(i) \in PH /\ P(i).at = 0
  BY DEF LostPlaceholders, PH
<1> HIDE DEF s, P
<1>2. s \in [1 .. k -> PH]
  BY <1>1
<1>3. s \in Seq(PH) /\ DOMAIN s = 1 .. k
  BY <1>2, SeqFrom
<1>4. \A i \in DOMAIN s : s[i].at = 0
  BY <1>1, <1>3
<1> QED BY <1>3, <1>4 DEF Marks, s

\* Placeholders that rise through all m values, with none of another builder, are the values
\* in their order.
LEMMA InStep ==
  ASSUME NEW s \in Seq(PH), Rising(s), \A i \in DOMAIN s : s[i].at # 0,
         NEW m \in Nat, NEW own, \A p \in own : p.at = OwnValue, NEW d, Marks(s) = Bound(d, m) \cup own
  PROVE  /\ m <= Len(s) /\ \A i \in 1 .. m : s[i].at = i
         /\ own = {} => Len(s) = m
         /\ own # {} => Len(s) = m + 1 /\ s[m + 1].at = OwnValue
<1> DEFINE N == Len(s)
           at(i) == s[i].at
           Q == {k \in 0 .. m : k <= N /\ \A i \in 1 .. k : at(i) = i}
<1>1. N \in Nat /\ DOMAIN s = 1 .. N /\ \A i \in 1 .. N : at(i) \in Int
  <2>1. N \in Nat /\ DOMAIN s = 1 .. N /\ \A i \in 1 .. N : s[i] \in PH
    BY SeqShape
  <2> QED BY <2>1 DEF PH
<1>2. \A i \in 1 .. N : at(i) = OwnValue \/ at(i) \in 1 .. m
  <2> SUFFICES ASSUME NEW i \in 1 .. N PROVE at(i) = OwnValue \/ at(i) \in 1 .. m
    OBVIOUS
  <2>1. s[i] \in Marks(s)
    BY <1>1 DEF Marks
  <2>2. s[i] \in own \/ \E j \in 1 .. m : s[i] = Mark(d, j)
    BY <2>1 DEF Bound
  <2>3. \A j : Mark(d, j).at = j
    BY DEF Mark
  <2> QED BY <2>2, <2>3
<1>3. \A j \in 1 .. m : \E i \in 1 .. N : at(i) = j
  <2> SUFFICES ASSUME NEW j \in 1 .. m PROVE \E i \in 1 .. N : at(i) = j
    OBVIOUS
  <2>1. Mark(d, j) \in Marks(s)
    BY DEF Bound
  <2>2. PICK i \in 1 .. N : s[i] = Mark(d, j)
    BY <1>1, <2>1 DEF Marks
  <2> QED BY <2>2 DEF Mark
<1>4. \A i, j \in 1 .. N : i < j => at(i) # OwnValue /\ (at(j) = OwnValue \/ at(i) < at(j))
  BY <1>1 DEF Rising, Prior
<1>5. own # {} => \E i \in 1 .. N : at(i) = OwnValue
  <2> SUFFICES ASSUME own # {} PROVE \E i \in 1 .. N : at(i) = OwnValue
    OBVIOUS
  <2>1. PICK p \in own : p \in Marks(s)
    OBVIOUS
  <2>2. PICK i \in 1 .. N : s[i] = p
    BY <1>1, <2>1 DEF Marks
  <2> QED BY <2>2
<1>6. own = {} => \A i \in 1 .. N : at(i) # OwnValue
  <2> SUFFICES ASSUME own = {}, NEW i \in 1 .. N PROVE at(i) # OwnValue
    OBVIOUS
  <2>1. s[i] \in Bound(d, m)
    BY <1>1 DEF Marks
  <2> QED BY <2>1 DEF Bound, Mark, OwnValue
<1> HIDE DEF N, at
<1>7. 0 \in Q
  BY <1>1
<1>8. ASSUME NEW k \in 0 .. m - 1, k \in Q PROVE k + 1 \in Q
  <2>1. PICK j \in 1 .. N : at(j) = k + 1
    BY <1>3
  <2>2. ~(j <= k)
    BY <1>8, <2>1
  <2>3. k + 1 <= N /\ k + 1 \in 1 .. N
    BY <1>1, <2>2
  <2>4. at(k + 1) = k + 1
    <3>1. SUFFICES ASSUME j # k + 1 PROVE FALSE
      BY <2>1
    <3>2. at(k + 1) # OwnValue /\ at(k + 1) < k + 1
      <4>1. k + 1 < j
        BY <1>1, <2>2, <3>1
      <4>2. k + 1 # OwnValue
        BY DEF OwnValue
      <4> QED BY <1>4, <2>1, <2>3, <4>1, <4>2
    <3>3. at(k + 1) \in 1 .. k
      BY <1>1, <1>2, <2>3, <3>2
    <3> DEFINE i == at(k + 1)
    <3>4. at(i) = i /\ i \in 1 .. N /\ i < k + 1
      BY <1>1, <1>8, <3>3
    <3>5. at(i) < at(k + 1)
      BY <1>4, <2>3, <3>2, <3>4
    <3> QED BY <3>4, <3>5
  <2>5. \A i \in 1 .. k + 1 : i \in 1 .. k \/ i = k + 1
    OBVIOUS
  <2> QED BY <1>8, <2>3, <2>4, <2>5
<1> HIDE DEF Q
<1>9. m \in Q
  <2>1. 0 .. m \subseteq Q
    BY <1>7, <1>8, CountingUp
  <2> QED BY <2>1
<1>10. m <= N /\ \A i \in 1 .. m : at(i) = i
  BY <1>9 DEF Q
<1>11. \A i \in 1 .. N : ~(i <= m) => at(i) = OwnValue
  <2> SUFFICES ASSUME NEW i \in 1 .. N, ~(i <= m), at(i) # OwnValue PROVE FALSE
    OBVIOUS
  <2>1. at(i) \in 1 .. m
    BY <1>2
  <2> DEFINE j == at(i)
  <2>2. at(j) = j /\ j \in 1 .. N /\ j < i
    BY <1>1, <1>10, <2>1
  <2>3. at(j) < at(i)
    BY <1>4, <2>2
  <2> QED BY <1>1, <2>2, <2>3
<1>12. own = {} => N = m
  <2> SUFFICES ASSUME own = {}, N # m PROVE FALSE
    OBVIOUS
  <2>1. m + 1 \in 1 .. N /\ ~(m + 1 <= m)
    BY <1>1, <1>10
  <2> QED BY <1>6, <1>11, <2>1
<1>13. own # {} => N = m + 1 /\ at(m + 1) = OwnValue
  <2> SUFFICES ASSUME own # {} PROVE N = m + 1 /\ at(m + 1) = OwnValue
    OBVIOUS
  <2>1. PICK i \in 1 .. N : at(i) = OwnValue
    BY <1>5
  <2>2. ~(i <= m)
    BY <1>10, <2>1 DEF OwnValue
  <2>3. m + 1 \in 1 .. N /\ at(m + 1) = OwnValue
    BY <1>1, <1>11, <2>2
  <2>4. ~(m + 1 < N)
    <3>1. SUFFICES ASSUME m + 1 < N PROVE FALSE
      OBVIOUS
    <3>2. N \in 1 .. N
      BY <1>1
    <3> QED BY <1>4, <2>3, <3>1, <3>2
  <2> QED BY <1>1, <2>3, <2>4
<1> QED BY <1>10, <1>12, <1>13 DEF N, at

Marked(text) == \E S : Holds(S, PH) /\ text \in Seq(S)
Numbered(m) == [i \in 1 .. m |-> i]

LEMMA NoneLost ==
  ASSUME NEW T, NEW E, Holds(T, E), NEW w \in Seq(T), \A i \in DOMAIN w : \A j \in DOMAIN w[i].ph : w[i].ph[j].at # 0
  PROVE  \A p \in DOMAIN Placeholders(w) : Placeholders(w)[p].at # 0
<1> DEFINE Sane(v) == \A i \in DOMAIN v : \A j \in DOMAIN v[i].ph : v[i].ph[j].at # 0
           Whole(s) == \A p \in DOMAIN s : s[p].at # 0
           Q == {v \in Seq(T) : Sane(v) => Whole(Placeholders(v))}
<1>1. <<>> \in Q
  BY NoPlaceholders
<1>2. ASSUME NEW v \in Seq(T), NEW t \in T, v \in Q PROVE Append(v, t) \in Q
  <2> DEFINE n == Len(v)
  <2>1. /\ Append(v, t) \in Seq(T) /\ Len(Append(v, t)) = n + 1 /\ Append(v, t)[n + 1] = t /\ n \in Nat
        /\ \A i \in 1 .. n : Append(v, t)[i] = v[i]
    BY AppendProperties
  <2>2. DOMAIN v = 1 .. n /\ DOMAIN Append(v, t) = 1 .. n + 1 /\ n + 1 \in 1 .. n + 1 /\ \A i \in 1 .. n : i \in 1 .. n + 1
    BY <2>1, SeqShape
  <2> HIDE DEF n
  <2>3. SUFFICES ASSUME Sane(Append(v, t)) PROVE Whole(Placeholders(Append(v, t)))
    BY <2>1
  <2>4. Sane(v) /\ Whole(t.ph)
    BY <2>1, <2>2, <2>3
  <2>5. Whole(Placeholders(v))
    BY <1>2, <2>4
  <2>6. Placeholders(Append(v, t)) = Placeholders(v) \o t.ph /\ Placeholders(v) \in Seq(E) /\ t.ph \in Seq(E)
    BY PlaceholdersGrow DEF Holds
  <2> DEFINE a == Placeholders(v)
             c == t.ph
  <2>7. /\ Len(a \o c) = Len(a) + Len(c) /\ Len(a) \in Nat /\ Len(c) \in Nat /\ a \o c \in Seq(E)
        /\ (\A i \in 1 .. Len(a) : (a \o c)[i] = a[i]) /\ \A i \in 1 .. Len(c) : (a \o c)[Len(a) + i] = c[i]
    BY <2>6, ConcatProperties
  <2>8. Whole(a \o c)
    <3> SUFFICES ASSUME NEW p \in 1 .. Len(a) + Len(c) PROVE (a \o c)[p].at # 0
      BY <2>7
    <3>1. DOMAIN a = 1 .. Len(a) /\ DOMAIN c = 1 .. Len(c)
      BY <2>6
    <3> HIDE DEF a, c
    <3>2. CASE p \in 1 .. Len(a)
      BY <2>5, <2>7, <3>1, <3>2 DEF a
    <3>3. CASE p \notin 1 .. Len(a)
      <4>1. p - Len(a) \in 1 .. Len(c) /\ Len(a) + (p - Len(a)) = p
        BY <2>7, <3>3
      <4>2. (a \o c)[p] = c[p - Len(a)]
        BY <2>7, <4>1
      <4> QED BY <2>4, <3>1, <4>1, <4>2 DEF c
    <3> QED BY <3>2, <3>3
  <2> QED BY <2>6, <2>8
<1> HIDE DEF Q
<1>3. w \in Q
  BY <1>1, <1>2, OneByOne
<1> QED BY <1>3 DEF Q

(* A statement whose placeholders are those of its m values, and of the value of   *)
(* the call that sends it when it has one.                                      *)
FitsAt(q, m, own) ==
  /\ m \in Nat /\ own \in {{}, {OwnMark(q.dialect, m)}}
  /\ q.values = IF own = {} THEN Numbered(m) ELSE Numbered(m) \o <<OwnValue>>
  /\ Marked(q.text)
  /\ Marks(Placeholders(q.text)) = Bound(q.dialect, m) \cup own
  /\ q.dialect # "postgres" => Rising(Placeholders(q.text))
Fits(q) == \E m, own : FitsAt(q, m, own)

LEMMA ValuesAre ==
  ASSUME NEW q, NEW m, NEW own, FitsAt(q, m, own)
  PROVE  /\ m \in Nat /\ Len(q.values) = (IF own = {} THEN m ELSE m + 1)
         /\ \A i \in 1 .. m : q.values[i] = i
         /\ own # {} => q.values[m + 1] = OwnValue
<1> DEFINE s == Numbered(m)
           r == <<OwnValue>>
           c == s \o r
<1>1. m \in Nat /\ q.values = IF own = {} THEN s ELSE c
  BY DEF FitsAt
<1>2. s \in [1 .. m -> Int] /\ \A i \in 1 .. m : s[i] = i
  BY DEF Numbered
<1> HIDE DEF s
<1>3. s \in Seq(Int) /\ Len(s) = m
  BY <1>1, <1>2, SeqFrom
<1>4. r \in Seq(Int) /\ Len(r) = 1 /\ r[1] = OwnValue
  BY DEF OwnValue
<1> HIDE DEF r
<1>5. /\ Len(c) = m + 1 /\ (\A i \in 1 .. m : c[i] = s[i]) /\ \A i \in 1 .. 1 : c[m + i] = r[i]
  <2>1. /\ Len(s \o r) = Len(s) + Len(r) /\ (\A i \in 1 .. Len(s) : (s \o r)[i] = s[i])
        /\ \A i \in 1 .. Len(r) : (s \o r)[Len(s) + i] = r[i]
    <3>1. /\ Len(s \o r) = Len(s) + Len(r)
          /\ \A i \in 1 .. Len(s) + Len(r) : (s \o r)[i] = IF i <= Len(s) THEN s[i] ELSE r[i - Len(s)]
      BY <1>3, <1>4, ConcatProperties
    <3>2. Len(s) \in Nat /\ Len(r) \in Nat
      BY <1>1, <1>3, <1>4
    <3> QED BY <3>1, <3>2
  <2> QED BY <1>3, <1>4, <2>1
<1>6. c[m + 1] = OwnValue
  <2>1. 1 \in 1 .. 1
    OBVIOUS
  <2> QED BY <1>4, <1>5, <2>1
<1> HIDE DEF c
<1>7. CASE own = {}
  BY <1>1, <1>2, <1>3, <1>7
<1>8. CASE own # {}
  BY <1>1, <1>2, <1>5, <1>6, <1>8
<1> QED BY <1>7, <1>8

LEMMA FitsIs ==
  ASSUME NEW q, Fits(q), ~Foreign(q)
  PROVE  BindingsOK(q)
<1> DEFINE ph == Placeholders(q.text)
           n == Len(q.values)
           d == q.dialect
<1>1. PICK m, own : FitsAt(q, m, own)
  BY DEF Fits
<1>2. /\ m \in Nat /\ n = (IF own = {} THEN m ELSE m + 1)
      /\ \A i \in 1 .. m : q.values[i] = i
      /\ own # {} => q.values[m + 1] = OwnValue
  BY <1>1, ValuesAre
<1>3. PICK S : Holds(S, PH) /\ q.text \in Seq(S)
  BY <1>1 DEF FitsAt, Marked
<1>4. ph \in Seq(PH) /\ \A i \in DOMAIN ph : ph[i].at # 0
  <2>1. \A i \in DOMAIN q.text : \A j \in DOMAIN q.text[i].ph : q.text[i].ph[j].at # 0
    BY DEF Foreign
  <2> QED BY <1>3, <2>1, NoneLost, PlaceholdersGrow
<1>5. Marks(ph) = Bound(d, m) \cup own /\ own \in {{}, {OwnMark(d, m)}}
  BY <1>1 DEF FitsAt
<1> HIDE DEF ph, n, d
<1>6. \A p \in own : p = OwnMark(d, m)
  BY <1>5
<1>7. CASE d = "postgres"
  <2>1. \A i \in DOMAIN ph : ph[i] \in Bound(d, m) \cup own
    BY <1>4, <1>5 DEF Marks
  <2>2. \A i : Mark(d, i).at = i /\ Mark(d, i).n = i
    BY <1>7 DEF Mark
  <2>3. OwnMark(d, m).at = OwnValue /\ OwnMark(d, m).n = m + 1
    BY <1>7 DEF OwnMark
  <2>4. ASSUME NEW i \in DOMAIN ph PROVE ph[i].n \in 1 .. n /\ q.values[ph[i].n] = ph[i].at
    <3>1. CASE ph[i] \in Bound(d, m)
      <4>1. PICK j \in 1 .. m : ph[i] = Mark(d, j)
        BY <3>1 DEF Bound
      <4>2. j \in 1 .. n
        BY <1>2
      <4> QED BY <1>2, <2>2, <4>1, <4>2
    <3>2. CASE ph[i] \in own
      <4>1. ph[i] = OwnMark(d, m) /\ own # {}
        BY <1>6, <3>2
      <4>2. m + 1 \in 1 .. n
        BY <1>2, <4>1
      <4> QED BY <1>2, <2>3, <4>1, <4>2
    <3> QED BY <2>1, <3>1, <3>2
  <2>5. ASSUME NEW k \in 1 .. n PROVE \E i \in DOMAIN ph : ph[i].n = k
    <3>1. CASE k \in 1 .. m
      <4>1. Mark(d, k) \in Marks(ph)
        BY <1>5, <3>1 DEF Bound
      <4>2. PICK i \in DOMAIN ph : ph[i] = Mark(d, k)
        BY <4>1 DEF Marks
      <4> QED BY <2>2, <4>2
    <3>2. CASE k \notin 1 .. m
      <4>1. own # {} /\ k = m + 1
        BY <1>2, <3>2
      <4>2. OwnMark(d, m) \in Marks(ph)
        BY <1>5, <1>6, <4>1
      <4>3. PICK i \in DOMAIN ph : ph[i] = OwnMark(d, m)
        BY <4>2 DEF Marks
      <4> QED BY <2>3, <4>1, <4>3
    <3> QED BY <3>1, <3>2
  <2>6. {ph[i].n : i \in DOMAIN ph} = 1 .. n
    BY <2>4, <2>5
  <2>7. \A i \in DOMAIN ph : q.values[ph[i].n] = ph[i].at
    BY <2>4
  <2> QED BY <1>7, <2>6, <2>7 DEF BindingsOK, ph, n, d
<1>8. CASE d # "postgres"
  <2>1. Rising(ph)
    BY <1>1, <1>8 DEF FitsAt, ph, d
  <2>2. \A p \in own : p.at = OwnValue
    BY <1>6 DEF OwnMark
  <2>3. /\ m <= Len(ph) /\ \A i \in 1 .. m : ph[i].at = i
        /\ own = {} => Len(ph) = m
        /\ own # {} => Len(ph) = m + 1 /\ ph[m + 1].at = OwnValue
    BY <1>2, <1>4, <1>5, <2>1, <2>2, InStep
  <2>4. Len(ph) = n
    BY <1>2, <2>3
  <2>5. \A i \in 1 .. n : q.values[i] = ph[i].at
    <3> SUFFICES ASSUME NEW i \in 1 .. n PROVE q.values[i] = ph[i].at
      OBVIOUS
    <3>1. CASE i \in 1 .. m
      BY <1>2, <2>3, <3>1
    <3>2. CASE i \notin 1 .. m
      <4>1. own # {} /\ i = m + 1
        BY <1>2, <3>2
      <4> QED BY <1>2, <2>3, <4>1
    <3> QED BY <3>1, <3>2
  <2> QED BY <1>8, <2>4, <2>5 DEF BindingsOK, ph, n, d
<1> QED BY <1>7, <1>8

----------------------------------------------------------------------------
(* What execute() and toSQL() make of a text: the values in each clause, and the*)
(* clauses there are, one token after the other.                             *)

MarksOf(text) == Marks(Placeholders(text))
Words(text) == {text[i].kw : i \in DOMAIN text} \cap ReorderKeywords
Rest(text) ==
  UNION {Marks(text[j].ph) : j \in {j \in DOMAIN text : \E i \in DOMAIN text : i <= j /\ text[i].kw = "ORDER_BY"}}
View(text) ==
  [key |-> Fragments(text).key,
   marks |-> [k \in FragmentKeys |-> MarksOf(Fragments(text).fragments[k])],
   words |-> Words(text), rest |-> Rest(text)]
KeyNow(v, kw) == IF kw \in ReorderKeywords THEN kw ELSE v.key
WordsNow(v, kw) == IF kw \in ReorderKeywords THEN v.words \cup {kw} ELSE v.words
Seen(v, kw, m) ==
  [key |-> KeyNow(v, kw),
   marks |-> [k \in FragmentKeys |-> IF k = KeyNow(v, kw) THEN v.marks[k] \cup m ELSE v.marks[k]],
   words |-> WordsNow(v, kw),
   rest |-> IF "ORDER_BY" \in WordsNow(v, kw) THEN v.rest \cup m ELSE {}]

LEMMA WordsGrow ==
  ASSUME NEW S, NEW text \in Seq(S), NEW t \in S
  PROVE  /\ Words(Append(text, t)) = IF t.kw \in ReorderKeywords THEN Words(text) \cup {t.kw} ELSE Words(text)
         /\ Rest(Append(text, t)) = IF "ORDER_BY" \in Words(Append(text, t)) THEN Rest(text) \cup Marks(t.ph) ELSE {}
<1> DEFINE n == Len(text)
           new == Append(text, t)
<1>1. /\ n \in Nat /\ DOMAIN text = 1 .. n /\ new \in Seq(S) /\ Len(new) = n + 1 /\ new[n + 1] = t
      /\ \A i \in 1 .. n : new[i] = text[i]
  BY AppendProperties, SeqShape
<1>2. DOMAIN new = 1 .. n + 1
  BY <1>1, SeqShape
<1> HIDE DEF n, new
<1>3. n + 1 \in 1 .. n + 1 /\ n + 1 \notin 1 .. n /\ (\A i \in 1 .. n : i \in 1 .. n + 1) /\ \A i \in 1 .. n + 1 : i \in 1 .. n \/ i = n + 1
  BY <1>1
<1>4. \A kw : kw \in {new[i].kw : i \in 1 .. n + 1} <=> kw \in {text[i].kw : i \in 1 .. n} \/ kw = t.kw
  BY <1>1, <1>3
<1>5. Words(new) = IF t.kw \in ReorderKeywords THEN Words(text) \cup {t.kw} ELSE Words(text)
  BY <1>1, <1>2, <1>4 DEF Words
<1> DEFINE Late(w, m) == {j \in 1 .. m : \E i \in 1 .. m : i <= j /\ w[i].kw = "ORDER_BY"}
<1>6. Rest(new) = UNION {Marks(new[j].ph) : j \in Late(new, n + 1)} /\ Rest(text) = UNION {Marks(text[j].ph) : j \in Late(text, n)}
  BY <1>1, <1>2 DEF Rest
<1>7. "ORDER_BY" \in Words(new) <=> \E i \in 1 .. n + 1 : new[i].kw = "ORDER_BY"
  BY <1>2 DEF Words, ReorderKeywords
<1>8. CASE "ORDER_BY" \in Words(new)
  <2>1. n + 1 \in Late(new, n + 1)
    <3>1. PICK i \in 1 .. n + 1 : new[i].kw = "ORDER_BY"
      BY <1>7, <1>8
    <3>2. i <= n + 1
      BY <1>1
    <3> QED BY <1>3, <3>1, <3>2
  <2>2. \A j \in 1 .. n : j \in Late(new, n + 1) <=> j \in Late(text, n)
    <3> SUFFICES ASSUME NEW j \in 1 .. n PROVE j \in Late(new, n + 1) <=> j \in Late(text, n)
      OBVIOUS
    <3>1. ASSUME NEW i \in 1 .. n + 1, i <= j, new[i].kw = "ORDER_BY" PROVE i \in 1 .. n /\ text[i].kw = "ORDER_BY"
      <4>1. i \in 1 .. n
        BY <1>1, <3>1
      <4> QED BY <1>1, <3>1, <4>1
    <3>2. ASSUME NEW i \in 1 .. n, i <= j, text[i].kw = "ORDER_BY" PROVE i \in 1 .. n + 1 /\ new[i].kw = "ORDER_BY"
      BY <1>1, <1>3, <3>2
    <3> QED BY <1>3, <3>1, <3>2
  <2>3. \A j : j \in Late(new, n + 1) <=> j = n + 1 \/ j \in Late(text, n)
    BY <1>3, <2>1, <2>2
  <2>4. \A j \in Late(text, n) : text[j] = new[j]
    BY <1>1
  <2> HIDE DEF Late
  <2>5. \A p : p \in Rest(new) <=> p \in Rest(text) \/ p \in Marks(t.ph)
    BY <1>1, <1>6, <2>3, <2>4
  <2>6. Rest(new) = Rest(text) \cup Marks(t.ph)
    BY <2>5
  <2> QED BY <1>5, <1>8, <2>6 DEF new
<1>9. CASE "ORDER_BY" \notin Words(new)
  <2>1. Late(new, n + 1) = {}
    BY <1>7, <1>9
  <2>2. Rest(new) = {}
    BY <1>6, <2>1
  <2> QED BY <1>5, <1>9, <2>2 DEF new
<1> QED BY <1>8, <1>9

LEMMA ViewGrows ==
  ASSUME NEW S, Holds(S, PH), NEW text \in Seq(S), NEW t \in S
  PROVE  View(Append(text, t)) = Seen(View(text), t.kw, Marks(t.ph))
<1> DEFINE cut == Fragments(text)
           new == Fragments(Append(text, t))
           key == KeyNow(View(text), t.kw)
<1>1. new = WithFragment(cut, t) /\ cut \in Cuts(S)
  BY FragmentsGrow
<1>2. key = IF t.kw \in ReorderKeywords THEN t.kw ELSE cut.key
  BY DEF View, KeyNow
<1>3. new.key = key /\ new.fragments = [cut.fragments EXCEPT ![key] = Append(@, t)]
  BY <1>1, <1>2 DEF WithFragment
<1>4. cut.key \in FragmentKeys /\ cut.fragments \in [FragmentKeys -> Seq(S)] /\ key \in FragmentKeys
  BY <1>1, <1>2 DEF Cuts, FragmentKeys
<1> HIDE DEF new, key, cut
<1>5. \A k \in FragmentKeys : new.fragments[k] = IF k = key THEN Append(cut.fragments[k], t) ELSE cut.fragments[k]
  BY <1>3, <1>4
<1>6. ASSUME NEW u \in Seq(S) PROVE MarksOf(Append(u, t)) = MarksOf(u) \cup Marks(t.ph)
  <2>1. Placeholders(Append(u, t)) = Placeholders(u) \o t.ph /\ Placeholders(u) \in Seq(PH) /\ t.ph \in Seq(PH)
    BY PlaceholdersGrow DEF Holds
  <2> QED BY <2>1, MarksJoin DEF MarksOf
<1>7. \A k \in FragmentKeys : MarksOf(new.fragments[k]) = IF k = key THEN MarksOf(cut.fragments[k]) \cup Marks(t.ph) ELSE MarksOf(cut.fragments[k])
  <2> SUFFICES ASSUME NEW k \in FragmentKeys PROVE MarksOf(new.fragments[k]) = IF k = key THEN MarksOf(cut.fragments[k]) \cup Marks(t.ph) ELSE MarksOf(cut.fragments[k])
    OBVIOUS
  <2>1. cut.fragments[k] \in Seq(S)
    BY <1>4
  <2> QED BY <1>5, <1>6, <2>1
<1>8. [k \in FragmentKeys |-> MarksOf(new.fragments[k])]
        = [k \in FragmentKeys |-> IF k = key THEN View(text).marks[k] \cup Marks(t.ph) ELSE View(text).marks[k]]
  <2>1. \A k \in FragmentKeys : View(text).marks[k] = MarksOf(cut.fragments[k])
    BY DEF View, cut
  <2> QED BY <1>7, <2>1
<1>9. /\ Words(Append(text, t)) = WordsNow(View(text), t.kw)
      /\ Rest(Append(text, t)) = IF "ORDER_BY" \in WordsNow(View(text), t.kw) THEN View(text).rest \cup Marks(t.ph) ELSE {}
  BY WordsGrow DEF View, WordsNow
<1>10. View(Append(text, t)) = [key |-> new.key, marks |-> [k \in FragmentKeys |-> MarksOf(new.fragments[k])],
                                words |-> Words(Append(text, t)), rest |-> Rest(Append(text, t))]
  BY DEF View, new
<1> QED BY <1>3, <1>8, <1>9, <1>10 DEF Seen, key

Nowhere == [key |-> BaseText, marks |-> [k \in FragmentKeys |-> {}], words |-> {}, rest |-> {}]

LEMMA ViewBegins == View(<<>>) = Nowhere
<1>1. Fragments(<<>>) = NoFragments
  BY FragmentsBegin
<1>2. MarksOf(<<>>) = {}
  BY NoPlaceholders, Unmarked DEF MarksOf
<1>3. Words(<<>>) = {} /\ Rest(<<>>) = {}
  BY DEF Words, Rest
<1>4. [k \in FragmentKeys |-> MarksOf(NoFragments.fragments[k])] = [k \in FragmentKeys |-> {}]
  BY <1>2 DEF NoFragments
<1>5. NoFragments.key = BaseText
  BY DEF NoFragments
<1> QED BY <1>1, <1>3, <1>4, <1>5 DEF View, Nowhere

LEMMA TextsJoin ==
  ASSUME NEW S, Holds(S, PH), NEW u \in Seq(S), NEW v \in Seq(S)
  PROVE  /\ u \o v \in Seq(S) /\ MarksOf(u \o v) = MarksOf(u) \cup MarksOf(v)
         /\ Rising(Placeholders(u \o v)) <=> (Rising(Placeholders(u)) /\ Rising(Placeholders(v)) /\ Lead(MarksOf(u), MarksOf(v)))
<1>1. u \o v \in Seq(S)
  OBVIOUS
<1>2. Placeholders(u \o v) = Placeholders(u) \o Placeholders(v)
  BY PlaceholdersJoin
<1>3. Placeholders(u) \in Seq(PH) /\ Placeholders(v) \in Seq(PH)
  BY PlaceholdersGrow
<1> QED BY <1>1, <1>2, <1>3, MarksJoin DEF MarksOf

LEMMA OneMore ==
  ASSUME NEW S, Holds(S, PH), NEW u \in Seq(S), NEW t \in S
  PROVE  /\ MarksOf(Append(u, t)) = MarksOf(u) \cup Marks(t.ph) /\ Append(u, t) \in Seq(S)
         /\ Rising(Placeholders(Append(u, t))) <=> (Rising(Placeholders(u)) /\ Rising(t.ph) /\ Lead(MarksOf(u), Marks(t.ph)))
<1>1. Placeholders(Append(u, t)) = Placeholders(u) \o t.ph /\ Placeholders(u) \in Seq(PH) /\ t.ph \in Seq(PH)
  BY PlaceholdersGrow DEF Holds
<1>2. Append(u, t) \in Seq(S)
  OBVIOUS
<1> QED BY <1>1, <1>2, MarksJoin DEF MarksOf

(* The fragments of a text have its marks between them, each in the text's order.*)
LEMMA MarksAreThere ==
  ASSUME NEW S, Holds(S, PH), NEW text \in Seq(S)
  PROVE  /\ MarksOf(text) = UNION {View(text).marks[k] : k \in FragmentKeys}
         /\ Rising(Placeholders(text)) => \A k \in FragmentKeys : Rising(Placeholders(Fragments(text).fragments[k]))
         /\ View(text).key \in FragmentKeys /\ Fragments(text).fragments \in [FragmentKeys -> Seq(S)]
         /\ View(text).words \subseteq ReorderKeywords
         /\ "ORDER_BY" \notin View(text).words => View(text).rest = {}
<1> DEFINE All(v) == UNION {View(v).marks[k] : k \in FragmentKeys}
           Part(v, k) == Fragments(v).fragments[k]
           Q == {v \in Seq(S) : /\ \A p : p \in MarksOf(v) <=> \E k \in FragmentKeys : p \in View(v).marks[k]
                                /\ Rising(Placeholders(v)) => \A k \in FragmentKeys : Rising(Placeholders(Part(v, k)))
                                /\ View(v).words \subseteq ReorderKeywords
                                /\ "ORDER_BY" \notin View(v).words => View(v).rest = {}}
<1>0. ASSUME NEW v \in Seq(S) PROVE Fragments(v).key \in FragmentKeys /\ Fragments(v).fragments \in [FragmentKeys -> Seq(S)]
  <2>1. PICK g : CutTrace(g, v) /\ \A n \in 0 .. Len(v) : g[n] \in Cuts(S)
    BY CutsAreTraced
  <2>2. Len(v) \in 0 .. Len(v)
    OBVIOUS
  <2>3. Fragments(v) \in Cuts(S)
    BY <2>1, <2>2 DEF CutTrace
  <2> QED BY <2>3 DEF Cuts
<1>1. <<>> \in Q
  <2>1. MarksOf(<<>>) = {} /\ View(<<>>) = Nowhere
    BY NoPlaceholders, Unmarked, ViewBegins DEF MarksOf
  <2>2. \A k \in FragmentKeys : Part(<<>>, k) = <<>>
    BY FragmentsBegin DEF NoFragments
  <2>3. \A k \in FragmentKeys : Rising(Placeholders(Part(<<>>, k)))
    BY <2>2, NoPlaceholders, Unmarked
  <2> HIDE DEF Part
  <2> QED BY <2>1, <2>3 DEF Nowhere
<1>2. ASSUME NEW v \in Seq(S), NEW t \in S, v \in Q PROVE Append(v, t) \in Q
  <2> DEFINE new == Append(v, t)
             key == KeyNow(View(v), t.kw)
  <2>1. View(new) = Seen(View(v), t.kw, Marks(t.ph))
    BY ViewGrows
  <2>2. MarksOf(new) = MarksOf(v) \cup Marks(t.ph) /\ new \in Seq(S)
    BY OneMore
  <2>3. Fragments(v).key = View(v).key
    BY DEF View
  <2>4. key \in FragmentKeys
    BY <1>0, <2>3 DEF KeyNow, FragmentKeys
  <2>5. \A k \in FragmentKeys : Part(new, k) = IF k = key THEN Append(Part(v, k), t) ELSE Part(v, k)
    <3>1. Fragments(new) = WithFragment(Fragments(v), t) /\ Fragments(v).fragments \in [FragmentKeys -> Seq(S)]
      BY <1>0, FragmentsGrow
    <3>2. Fragments(new).fragments = [Fragments(v).fragments EXCEPT ![key] = Append(@, t)]
      BY <2>3, <3>1 DEF WithFragment, KeyNow
    <3> HIDE DEF new, key
    <3> QED BY <2>4, <3>1, <3>2
  <2>6. \A k \in FragmentKeys : View(new).marks[k] = IF k = key THEN View(v).marks[k] \cup Marks(t.ph) ELSE View(v).marks[k]
    BY <2>1 DEF Seen
  <2>7. \A p : p \in MarksOf(new) <=> \E k \in FragmentKeys : p \in View(new).marks[k]
    <3> HIDE DEF new, key
    <3> QED BY <1>2, <2>2, <2>4, <2>6
  <2>8. Rising(Placeholders(new)) => \A k \in FragmentKeys : Rising(Placeholders(Part(new, k)))
    <3> SUFFICES ASSUME Rising(Placeholders(new)), NEW k \in FragmentKeys PROVE Rising(Placeholders(Part(new, k)))
      OBVIOUS
    <3>1. Rising(Placeholders(v)) /\ Rising(t.ph) /\ Lead(MarksOf(v), Marks(t.ph))
      BY OneMore
    <3>2. Rising(Placeholders(Part(v, k))) /\ Part(v, k) \in Seq(S)
      BY <1>0, <1>2, <3>1
    <3>3. MarksOf(Part(v, k)) = View(v).marks[k]
      BY DEF View
    <3>4. Lead(MarksOf(Part(v, k)), Marks(t.ph))
      BY <1>2, <3>1, <3>3 DEF Lead
    <3> HIDE DEF Part
    <3>5. Rising(Placeholders(Append(Part(v, k), t)))
      BY <3>1, <3>2, <3>4, OneMore
    <3> QED BY <2>5, <3>2, <3>5
  <2>9. View(new).words \subseteq ReorderKeywords /\ ("ORDER_BY" \notin View(new).words => View(new).rest = {})
    BY <1>2, <2>1 DEF Seen, WordsNow
  <2> HIDE DEF new, Part
  <2> QED BY <2>2, <2>7, <2>8, <2>9 DEF new
<1>3. text \in Q
  <2> HIDE DEF Q
  <2> QED BY <1>1, <1>2, OneByOne
<1>4. \A p : p \in MarksOf(text) <=> p \in All(text)
  BY <1>3
<1>5. MarksOf(text) = All(text)
  BY <1>4
<1>6. View(text).key \in FragmentKeys
  BY <1>0 DEF View
<1> QED BY <1>0, <1>3, <1>5, <1>6

LEMMA ViewMeets ==
  ASSUME NEW S, Holds(S, PH), NEW u \in Seq(S), NEW v \in Seq(S), NEW w \in Seq(S), View(u) = View(v)
  PROVE  View(u \o w) = View(v \o w)
<1> DEFINE Q == {r \in Seq(S) : View(u \o r) = View(v \o r)}
<1>1. <<>> \in Q
  <2>1. u \o <<>> = u /\ v \o <<>> = v
    BY ConcatEmptySeq
  <2> QED BY <2>1
<1>2. ASSUME NEW r \in Seq(S), NEW t \in S, r \in Q PROVE Append(r, t) \in Q
  <2>1. u \o Append(r, t) = Append(u \o r, t) /\ v \o Append(r, t) = Append(v \o r, t)
    BY ConcatAppend
  <2>2. u \o r \in Seq(S) /\ v \o r \in Seq(S) /\ Append(r, t) \in Seq(S)
    OBVIOUS
  <2>3. View(Append(u \o r, t)) = Seen(View(u \o r), t.kw, Marks(t.ph)) /\ View(Append(v \o r, t)) = Seen(View(v \o r), t.kw, Marks(t.ph))
    BY <2>2, ViewGrows
  <2> QED BY <1>2, <2>1, <2>2, <2>3
<1> HIDE DEF Q
<1>3. w \in Q
  BY <1>1, <1>2, OneByOne
<1> QED BY <1>3 DEF Q

\* A token that neither opens a clause nor has a value of the builder.
Bare(t) == t.kw \notin ReorderKeywords /\ Marks(t.ph) = {}

LEMMA BareSeen ==
  ASSUME NEW S, Holds(S, PH), NEW u \in Seq(S), NEW t, Bare(t)
  PROVE  Seen(View(u), t.kw, Marks(t.ph)) = View(u)
<1>1. /\ View(u).key \in FragmentKeys
      /\ "ORDER_BY" \notin View(u).words => View(u).rest = {}
  BY MarksAreThere
<1>2. KeyNow(View(u), t.kw) = View(u).key /\ WordsNow(View(u), t.kw) = View(u).words
  BY DEF KeyNow, WordsNow, Bare
<1>3. [k \in FragmentKeys |-> IF k = View(u).key THEN View(u).marks[k] \cup Marks(t.ph) ELSE View(u).marks[k]] = View(u).marks
  BY DEF View, Bare
<1>4. (IF "ORDER_BY" \in View(u).words THEN View(u).rest \cup Marks(t.ph) ELSE {}) = View(u).rest
  <2>1. Marks(t.ph) = {}
    BY DEF Bare
  <2>2. CASE "ORDER_BY" \in View(u).words
    BY <2>1, <2>2
  <2>3. CASE "ORDER_BY" \notin View(u).words
    BY <1>1, <2>3
  <2> QED BY <2>2, <2>3
<1>5. Seen(View(u), t.kw, Marks(t.ph)) = [key |-> View(u).key, marks |-> View(u).marks, words |-> View(u).words, rest |-> View(u).rest]
  BY <1>2, <1>3, <1>4 DEF Seen
<1> QED BY <1>5 DEF View

LEMMA BareEnd ==
  ASSUME NEW S, Holds(S, PH), NEW u \in Seq(S), NEW w \in Seq({t \in S : Bare(t)})
  PROVE  /\ View(u \o w) = View(u) /\ w \in Seq(S) /\ MarksOf(w) = {} /\ Rising(Placeholders(w))
<1> DEFINE W == {t \in S : Bare(t)}
           Q == {r \in Seq(S) : View(u \o r) = View(u) /\ MarksOf(r) = {}}
<1>1. <<>> \in Q
  <2>1. u \o <<>> = u
    BY ConcatEmptySeq
  <2> QED BY <2>1, NoPlaceholders, Unmarked DEF MarksOf
<1>2. ASSUME NEW r \in Seq(W), NEW t \in W, r \in Q PROVE Append(r, t) \in Q
  <2>0. t \in S /\ r \in Seq(S) /\ Bare(t)
    BY <1>2
  <2>1. u \o Append(r, t) = Append(u \o r, t)
    BY <2>0, ConcatAppend
  <2>2. u \o r \in Seq(S) /\ Append(r, t) \in Seq(S)
    BY <2>0
  <2>3. View(Append(u \o r, t)) = Seen(View(u \o r), t.kw, Marks(t.ph))
    BY <2>0, <2>2, ViewGrows
  <2>4. Seen(View(u), t.kw, Marks(t.ph)) = View(u)
    BY <2>0, BareSeen
  <2>5. MarksOf(Append(r, t)) = {}
    BY <1>2, <2>0, OneMore DEF Bare
  <2> QED BY <1>2, <2>1, <2>2, <2>3, <2>4, <2>5
<1> HIDE DEF Q
<1>3. w \in Q
  <2> HIDE DEF W
  <2>1. w \in Seq(W)
    BY DEF W
  <2> QED BY <1>1, <1>2, <2>1, OneByOne
<1> QED BY <1>3, Unmarked DEF Q, MarksOf

(* Bare tokens put in anywhere change nothing.                                 *)
LEMMA BareInsert ==
  ASSUME NEW S, Holds(S, PH), NEW text \in Seq(S), NEW w \in Seq({t \in S : Bare(t)}), NEW cut \in 1 .. Len(text) + 1
  PROVE  /\ Inserted(text, cut, w) \in Seq(S) /\ View(Inserted(text, cut, w)) = View(text)
         /\ MarksOf(Inserted(text, cut, w)) = MarksOf(text)
         /\ Rising(Placeholders(text)) => Rising(Placeholders(Inserted(text, cut, w)))
<1> DEFINE u == SubSeq(text, 1, cut - 1)
           v == SubSeq(text, cut, Len(text))
<1>1. /\ w \in Seq(S) /\ MarksOf(w) = {} /\ Rising(Placeholders(w))
  BY BareEnd
<1>2. InsertedRight(S, text, cut, w)
  BY <1>1, InsertedIs
<1>3. u \in Seq(S) /\ v \in Seq(S) /\ u \o v = text /\ Inserted(text, cut, w) = (u \o w) \o v
  BY <1>2 DEF InsertedRight, Inserted
<1> HIDE DEF u, v
<1>4. u \o w \in Seq(S) /\ View(u \o w) = View(u)
  BY <1>1, <1>3, BareEnd
<1>5. View((u \o w) \o v) = View(u \o v)
  BY <1>3, <1>4, ViewMeets
<1>6. /\ MarksOf(u \o w) = MarksOf(u)
      /\ Rising(Placeholders(u \o w)) <=> Rising(Placeholders(u))
  <2>1. Lead(MarksOf(u), MarksOf(w))
    BY <1>1, Unmarked
  <2>2. /\ MarksOf(u \o w) = MarksOf(u) \cup MarksOf(w)
        /\ Rising(Placeholders(u \o w)) <=> (Rising(Placeholders(u)) /\ Rising(Placeholders(w)) /\ Lead(MarksOf(u), MarksOf(w)))
    <3>1. u \in Seq(S) /\ w \in Seq(S) /\ Holds(S, PH)
      BY <1>1, <1>3
    <3> QED BY ONLY <3>1, TextsJoin
  <2> QED BY <1>1, <2>1, <2>2
<1>7. /\ (u \o w) \o v \in Seq(S) /\ MarksOf((u \o w) \o v) = MarksOf(u \o v)
      /\ Rising(Placeholders((u \o w) \o v)) <=> Rising(Placeholders(u \o v))
  <2> DEFINE uw == u \o w
  <2>1. uw \in Seq(S) /\ MarksOf(uw) = MarksOf(u) /\ (Rising(Placeholders(uw)) <=> Rising(Placeholders(u)))
    BY <1>4, <1>6
  <2> HIDE DEF uw
  <2>2. /\ uw \o v \in Seq(S) /\ MarksOf(uw \o v) = MarksOf(uw) \cup MarksOf(v)
        /\ Rising(Placeholders(uw \o v)) <=> (Rising(Placeholders(uw)) /\ Rising(Placeholders(v)) /\ Lead(MarksOf(uw), MarksOf(v)))
    BY <1>3, <2>1, TextsJoin
  <2>3. /\ MarksOf(u \o v) = MarksOf(u) \cup MarksOf(v)
        /\ Rising(Placeholders(u \o v)) <=> (Rising(Placeholders(u)) /\ Rising(Placeholders(v)) /\ Lead(MarksOf(u), MarksOf(v)))
    BY <1>3, TextsJoin
  <2> QED BY <2>1, <2>2, <2>3 DEF uw
<1> QED BY <1>3, <1>5, <1>7

(* What the views of a text and of its beginnings have in common.              *)
LEMMA KeyIsSaid ==
  ASSUME NEW S, Holds(S, PH), NEW text \in Seq(S)
  PROVE  /\ View(text).key = BaseText \/ View(text).key \in View(text).words
         /\ \A k \in ReorderKeywords : k \notin View(text).words => View(text).marks[k] = {}
<1> DEFINE Q == {v \in Seq(S) : /\ View(v).key = BaseText \/ View(v).key \in View(v).words
                                /\ \A k \in ReorderKeywords : k \notin View(v).words => View(v).marks[k] = {}}
<1>1. <<>> \in Q
  BY ViewBegins DEF Nowhere, FragmentKeys
<1>2. ASSUME NEW v \in Seq(S), NEW t \in S, v \in Q PROVE Append(v, t) \in Q
  <2>1. View(Append(v, t)) = Seen(View(v), t.kw, Marks(t.ph)) /\ Append(v, t) \in Seq(S)
    BY ViewGrows
  <2>2. View(Append(v, t)).key = BaseText \/ View(Append(v, t)).key \in View(Append(v, t)).words
    BY <1>2, <2>1 DEF Seen, KeyNow, WordsNow
  <2>3. ASSUME NEW k \in ReorderKeywords, k \notin View(Append(v, t)).words PROVE View(Append(v, t)).marks[k] = {}
    <3>1. k \notin View(v).words /\ k # t.kw
      BY <2>1, <2>3 DEF Seen, WordsNow
    <3>2. View(v).marks[k] = {} /\ k \in FragmentKeys
      BY <1>2, <3>1 DEF FragmentKeys
    <3>3. k # KeyNow(View(v), t.kw)
      BY <1>2, <3>1, KeysAre DEF KeyNow
    <3> QED BY <2>1, <3>2, <3>3 DEF Seen
  <2> QED BY <2>1, <2>2, <2>3
<1> HIDE DEF Q
<1>3. text \in Q
  BY <1>1, <1>2, OneByOne
<1> QED BY <1>3 DEF Q

LEMMA UnmarkedEnd ==
  ASSUME NEW S, Holds(S, PH), NEW u \in Seq(S), NEW w \in Seq({t \in S : Marks(t.ph) = {}})
  PROVE  /\ w \in Seq(S) /\ MarksOf(w) = {} /\ Rising(Placeholders(w)) /\ View(u \o w).marks = View(u).marks
         /\ View(u).words \subseteq View(u \o w).words
<1> DEFINE W == {t \in S : Marks(t.ph) = {}}
           Q == {r \in Seq(S) : View(u \o r).marks = View(u).marks /\ MarksOf(r) = {} /\ View(u).words \subseteq View(u \o r).words}
<1>1. <<>> \in Q
  <2>1. u \o <<>> = u
    BY ConcatEmptySeq
  <2> QED BY <2>1, NoPlaceholders, Unmarked DEF MarksOf
<1>2. ASSUME NEW r \in Seq(W), NEW t \in W, r \in Q PROVE Append(r, t) \in Q
  <2>0. t \in S /\ r \in Seq(S) /\ Marks(t.ph) = {}
    BY <1>2
  <2>1. u \o Append(r, t) = Append(u \o r, t)
    BY <2>0, ConcatAppend
  <2>2. u \o r \in Seq(S) /\ Append(r, t) \in Seq(S)
    BY <2>0
  <2>3. View(Append(u \o r, t)) = Seen(View(u \o r), t.kw, Marks(t.ph))
    BY <2>0, <2>2, ViewGrows
  <2>4. Seen(View(u \o r), t.kw, Marks(t.ph)).marks = View(u \o r).marks
    <3>1. Seen(View(u \o r), t.kw, {}).marks = [k \in FragmentKeys |-> View(u \o r).marks[k]]
      BY DEF Seen
    <3> QED BY <2>0, <3>1 DEF View
  <2>5. MarksOf(Append(r, t)) = {}
    BY <1>2, <2>0, OneMore
  <2>6. View(u \o r).words \subseteq Seen(View(u \o r), t.kw, Marks(t.ph)).words
    BY DEF Seen, WordsNow
  <2> QED BY <1>2, <2>1, <2>2, <2>3, <2>4, <2>5, <2>6
<1> HIDE DEF Q
<1>3. w \in Q
  <2> HIDE DEF W
  <2>1. w \in Seq(W)
    BY DEF W
  <2> QED BY <1>1, <1>2, <2>1, OneByOne
<1> QED BY <1>3, Unmarked DEF Q, MarksOf

(* Everything from the first ORDER BY on, when no value stands there.          *)
LEMMA CutEnd ==
  ASSUME NEW S, Holds(S, PH), NEW text \in Seq(S), View(text).rest = {}
  PROVE  LET kept == SubSeq(text, 1, FirstTopLevel(text, {"ORDER_BY"}) - 1)
         IN  /\ kept \in Seq(S) /\ View(kept).marks = View(text).marks /\ View(kept).words \subseteq View(text).words
             /\ View(kept).rest = {} /\ MarksOf(kept) = MarksOf(text)
             /\ Rising(Placeholders(text)) => Rising(Placeholders(kept))
<1> DEFINE cut == FirstTopLevel(text, {"ORDER_BY"})
           n == Len(text)
           kept == SubSeq(text, 1, cut - 1)
           gone == SubSeq(text, cut, n)
           W == {t \in S : Marks(t.ph) = {}}
<1>1. /\ cut \in 1 .. n + 1 /\ n \in Nat /\ DOMAIN text = 1 .. n
      /\ \A i \in 1 .. n : i < cut => text[i].kw # "ORDER_BY"
      /\ cut <= n => text[cut].kw = "ORDER_BY"
  BY FirstIs, SeqShape
<1>2. InsertedRight(S, text, cut, <<>>)
  <2>1. <<>> \in Seq(S)
    OBVIOUS
  <2> HIDE DEF cut
  <2> QED BY <1>1, <2>1, InsertedIs DEF n
<1>3. kept \in Seq(S) /\ gone \in Seq(S) /\ kept \o gone = text
  BY <1>2 DEF InsertedRight
<1> HIDE DEF cut, n
<1>4. ASSUME NEW i \in cut .. n PROVE text[i] \in W
  <2>1. cut \in 1 .. n /\ i \in 1 .. n /\ cut <= i
    BY <1>1
  <2>2. Marks(text[i].ph) \subseteq Rest(text)
    BY <1>1, <2>1 DEF Rest
  <2> QED BY <1>1, <2>1, <2>2 DEF View
<1>5. gone \in Seq(W)
  <2>1. gone = [i \in 1 .. n - cut + 1 |-> text[i + cut - 1]]
    BY <1>1 DEF n
  <2>2. \A i \in 1 .. n - cut + 1 : i + cut - 1 \in cut .. n
    BY <1>1
  <2>3. gone \in [1 .. n - cut + 1 -> W]
    BY <1>4, <2>1, <2>2
  <2>4. n - cut + 1 \in Nat
    BY <1>1
  <2> HIDE DEF gone, W
  <2> QED BY <2>3, <2>4, SeqFrom
<1> HIDE DEF kept, gone
<1>6. /\ gone \in Seq(S) /\ MarksOf(gone) = {} /\ View(kept \o gone).marks = View(kept).marks
      /\ View(kept).words \subseteq View(kept \o gone).words
  <2>1. gone \in Seq({t \in S : Marks(t.ph) = {}}) /\ kept \in Seq(S) /\ Holds(S, PH)
    BY <1>3, <1>5 DEF W
  <2> QED BY ONLY <2>1, UnmarkedEnd
<1>7. MarksOf(text) = MarksOf(kept) /\ (Rising(Placeholders(text)) => Rising(Placeholders(kept)))
  <2>1. /\ MarksOf(kept \o gone) = MarksOf(kept) \cup MarksOf(gone)
        /\ Rising(Placeholders(kept \o gone)) <=> (Rising(Placeholders(kept)) /\ Rising(Placeholders(gone)) /\ Lead(MarksOf(kept), MarksOf(gone)))
    <3>1. kept \in Seq(S) /\ gone \in Seq(S) /\ Holds(S, PH)
      BY <1>3
    <3> QED BY ONLY <3>1, TextsJoin
  <2> QED BY <1>3, <1>6, <2>1
<1>8. View(kept).rest = {}
  <2>1. kept = [i \in 1 .. cut - 1 |-> text[i]]
    BY <1>1 DEF kept
  <2>2. DOMAIN kept = 1 .. cut - 1 /\ \A i \in 1 .. cut - 1 : kept[i] = text[i]
    BY <2>1
  <2>3. \A i \in 1 .. cut - 1 : i \in 1 .. n /\ i < cut
    BY <1>1
  <2>4. Rest(kept) = {}
    BY <1>1, <2>2, <2>3 DEF Rest
  <2> QED BY <2>4 DEF View
<1> QED BY <1>3, <1>6, <1>7, <1>8 DEF kept, cut

(* A WHERE written ahead of the first clause that may follow it.               *)
Spliced(new, old, m) ==
  /\ new.key = IF old.key = BaseText THEN "WHERE" ELSE old.key
  /\ \A k \in Later : new.marks[k] = old.marks[k]
  /\ new.marks[BaseText] \subseteq old.marks[BaseText]
  /\ m \subseteq new.marks["WHERE"] /\ new.marks["WHERE"] \subseteq old.marks[BaseText] \cup old.marks["WHERE"] \cup m
  /\ new.words = old.words \cup {"WHERE"} /\ new.rest = old.rest

LEMMA SplicedStays ==
  ASSUME NEW new, NEW old, NEW m, Spliced(new, old, m), old.key \in FragmentKeys, NEW kw, NEW more
  PROVE  Spliced(Seen(new, kw, more), Seen(old, kw, more), m)
<1> DEFINE a == KeyNow(new, kw)
           c == KeyNow(old, kw)
<1>1. /\ \A k \in FragmentKeys : Seen(new, kw, more).marks[k] = IF k = a THEN new.marks[k] \cup more ELSE new.marks[k]
      /\ \A k \in FragmentKeys : Seen(old, kw, more).marks[k] = IF k = c THEN old.marks[k] \cup more ELSE old.marks[k]
      /\ Seen(new, kw, more).key = a /\ Seen(old, kw, more).key = c
  BY DEF Seen
<1>2. a = IF c = BaseText THEN "WHERE" ELSE c
  BY KeysAre DEF Spliced, KeyNow
<1>3. Seen(new, kw, more).words = Seen(old, kw, more).words \cup {"WHERE"}
  BY DEF Spliced, Seen, WordsNow
<1>4. Seen(new, kw, more).rest = Seen(old, kw, more).rest
  BY DEF Spliced, Seen, WordsNow
<1> HIDE DEF a, c
<1>5. \A k \in Later : k \in FragmentKeys /\ k # BaseText /\ k # "WHERE"
  BY KeysAre
<1>6. \A k \in Later : Seen(new, kw, more).marks[k] = Seen(old, kw, more).marks[k]
  BY <1>1, <1>2, <1>5 DEF Spliced
<1>7. BaseText \in FragmentKeys /\ "WHERE" \in FragmentKeys /\ BaseText # "WHERE"
  BY KeysAre
<1>8. Seen(new, kw, more).marks[BaseText] \subseteq Seen(old, kw, more).marks[BaseText]
  BY <1>1, <1>2, <1>7 DEF Spliced
<1>9. m \subseteq Seen(new, kw, more).marks["WHERE"]
  BY <1>1, <1>7 DEF Spliced
<1>10. Seen(new, kw, more).marks["WHERE"]
         \subseteq Seen(old, kw, more).marks[BaseText] \cup Seen(old, kw, more).marks["WHERE"] \cup m
  BY <1>1, <1>2, <1>7 DEF Spliced
<1> QED BY <1>1, <1>2, <1>3, <1>4, <1>6, <1>8, <1>9, <1>10 DEF Spliced

LEMMA ViewSplice ==
  ASSUME NEW S, Holds(S, PH), NEW text \in Seq(S), NEW t \in S, t.kw = "WHERE", "WHERE" \notin View(text).words,
         NEW cut, cut = FirstTopLevel(text, TailClause)
  PROVE  /\ Inserted(text, cut, <<t>>) \in Seq(S)
         /\ Spliced(View(Inserted(text, cut, <<t>>)), View(text), Marks(t.ph))
         /\ MarksOf(Inserted(text, cut, <<t>>)) = MarksOf(text) \cup Marks(t.ph)
         /\ (/\ Rising(Placeholders(text)) /\ Rising(t.ph) /\ Lead(Marks(t.ph), MarksOf(text))
             /\ View(text).marks[BaseText] = {}) => Rising(Placeholders(Inserted(text, cut, <<t>>)))
<1> DEFINE n == Len(text)
           u == SubSeq(text, 1, cut - 1)
           v == SubSeq(text, cut, n)
           ut == Append(u, t)
           m == Marks(t.ph)
<1>1. /\ cut \in 1 .. n + 1 /\ n \in Nat /\ DOMAIN text = 1 .. n
      /\ \A i \in 1 .. n : i < cut => text[i].kw \notin TailClause
  BY FirstIs, SeqShape
<1>2. InsertedRight(S, text, cut, <<t>>)
  <2>1. <<t>> \in Seq(S)
    OBVIOUS
  <2> QED BY <1>1, <2>1, InsertedIs DEF n
<1>3. u \in Seq(S) /\ v \in Seq(S) /\ u \o v = text /\ Inserted(text, cut, <<t>>) = ut \o v
  <2>1. u \in Seq(S) /\ v \in Seq(S) /\ u \o v = text /\ Inserted(text, cut, <<t>>) = (u \o <<t>>) \o v
    BY <1>2 DEF InsertedRight, Inserted
  <2> HIDE DEF u, v
  <2>2. ut = u \o <<t>>
    BY <2>1, AppendIsConcat
  <2> QED BY <2>1, <2>2
<1>4. View(u).words = {}
  <2>1. u = [i \in 1 .. cut - 1 |-> text[i]]
    BY <1>1 DEF u
  <2>2. DOMAIN u = 1 .. cut - 1 /\ \A i \in 1 .. cut - 1 : u[i] = text[i]
    BY <2>1
  <2>3. \A i \in 1 .. cut - 1 : i \in 1 .. n /\ i < cut
    BY <1>1
  <2>4. \A i \in 1 .. n : text[i].kw # "WHERE"
    BY <1>1 DEF View, Words, ReorderKeywords
  <2>5. ReorderKeywords \subseteq TailClause \cup {"WHERE"}
    BY DEF ReorderKeywords, TailClause
  <2>6. Words(u) = {}
    BY <1>1, <2>2, <2>3, <2>4, <2>5 DEF Words
  <2> QED BY <2>6 DEF View
<1> HIDE DEF u, v, n
<1>5. /\ View(u).key = BaseText /\ View(u).rest = {} /\ \A k \in ReorderKeywords : View(u).marks[k] = {}
  BY <1>3, <1>4, KeyIsSaid, MarksAreThere
<1>6. View(ut) = Seen(View(u), "WHERE", m) /\ ut \in Seq(S)
  <2>1. ut \in Seq(S)
    BY <1>3
  <2> QED BY <1>3, <2>1, ViewGrows
<1>7. Spliced(View(ut), View(u), m)
  <2>1. KeyNow(View(u), "WHERE") = "WHERE" /\ WordsNow(View(u), "WHERE") = {"WHERE"}
    BY <1>4 DEF KeyNow, WordsNow, ReorderKeywords
  <2>2. \A k \in FragmentKeys : View(ut).marks[k] = IF k = "WHERE" THEN View(u).marks[k] \cup m ELSE View(u).marks[k]
    BY <1>6, <2>1 DEF Seen
  <2>3. View(ut).key = "WHERE" /\ View(ut).words = {"WHERE"} /\ View(ut).rest = {}
    BY <1>6, <2>1 DEF Seen
  <2> HIDE DEF ut
  <2>4. \A k \in Later : View(ut).marks[k] = View(u).marks[k]
    BY <2>2, KeysAre
  <2>5. View(ut).marks[BaseText] = View(u).marks[BaseText] /\ View(ut).marks["WHERE"] = View(u).marks["WHERE"] \cup m
    BY <2>2, KeysAre
  <2> QED BY <1>4, <1>5, <2>3, <2>4, <2>5 DEF Spliced
<1> HIDE DEF ut
<1> DEFINE Q == {r \in Seq(S) : Spliced(View(ut \o r), View(u \o r), m) /\ View(u).marks[BaseText] \subseteq View(u \o r).marks[BaseText]}
<1>8. <<>> \in Q
  <2>1. ut \o <<>> = ut /\ u \o <<>> = u
    BY <1>3, <1>6, ConcatEmptySeq
  <2> QED BY <1>7, <2>1
<1>9. ASSUME NEW r \in Seq(S), NEW s \in S, r \in Q PROVE Append(r, s) \in Q
  <2>1. ut \o Append(r, s) = Append(ut \o r, s) /\ u \o Append(r, s) = Append(u \o r, s)
    BY <1>3, <1>6, ConcatAppend
  <2>2. ut \o r \in Seq(S) /\ u \o r \in Seq(S) /\ Append(r, s) \in Seq(S)
    BY <1>3, <1>6
  <2>3. View(Append(ut \o r, s)) = Seen(View(ut \o r), s.kw, Marks(s.ph)) /\ View(Append(u \o r, s)) = Seen(View(u \o r), s.kw, Marks(s.ph))
    BY <2>2, ViewGrows
  <2>4. View(u \o r).key \in FragmentKeys
    BY <2>2, MarksAreThere
  <2>5. Spliced(Seen(View(ut \o r), s.kw, Marks(s.ph)), Seen(View(u \o r), s.kw, Marks(s.ph)), m)
    BY <1>9, <2>4, SplicedStays
  <2>6. View(u \o r).marks[BaseText] \subseteq Seen(View(u \o r), s.kw, Marks(s.ph)).marks[BaseText]
    BY KeysAre DEF Seen
  <2> QED BY <1>9, <2>1, <2>2, <2>3, <2>5, <2>6
<1>10. v \in Q
  <2> HIDE DEF Q
  <2> QED BY <1>3, <1>8, <1>9, OneByOne
<1>11. /\ Spliced(View(ut \o v), View(text), m)
       /\ View(u).marks[BaseText] \subseteq View(text).marks[BaseText] /\ ut \o v \in Seq(S)
  <2>1. ut \o v \in Seq(S)
    BY <1>3, <1>6
  <2>2. Spliced(View(ut \o v), View(u \o v), m) /\ View(u).marks[BaseText] \subseteq View(u \o v).marks[BaseText]
    BY <1>10
  <2> QED BY <1>3, <2>1, <2>2
<1>12. /\ MarksOf(ut) = MarksOf(u) \cup m
       /\ Rising(Placeholders(ut)) <=> (Rising(Placeholders(u)) /\ Rising(t.ph) /\ Lead(MarksOf(u), m))
  BY <1>3, OneMore DEF ut
<1>13. /\ MarksOf(ut \o v) = MarksOf(ut) \cup MarksOf(v)
       /\ Rising(Placeholders(ut \o v)) <=> (Rising(Placeholders(ut)) /\ Rising(Placeholders(v)) /\ Lead(MarksOf(ut), MarksOf(v)))
  <2>1. ut \in Seq(S) /\ v \in Seq(S) /\ Holds(S, PH)
    BY <1>3, <1>6
  <2> QED BY ONLY <2>1, TextsJoin
<1>14. /\ MarksOf(u \o v) = MarksOf(u) \cup MarksOf(v)
       /\ Rising(Placeholders(u \o v)) <=> (Rising(Placeholders(u)) /\ Rising(Placeholders(v)) /\ Lead(MarksOf(u), MarksOf(v)))
  <2>1. u \in Seq(S) /\ v \in Seq(S) /\ Holds(S, PH)
    BY <1>3
  <2> QED BY ONLY <2>1, TextsJoin
<1>15. MarksOf(ut \o v) = MarksOf(text) \cup m
  BY <1>3, <1>12, <1>13, <1>14
<1>16. ASSUME Rising(Placeholders(text)), Rising(t.ph), Lead(m, MarksOf(text)), View(text).marks[BaseText] = {}
       PROVE  Rising(Placeholders(ut \o v))
  <2>1. MarksOf(u) = {}
    <3>1. \A k \in FragmentKeys : View(u).marks[k] = {}
      BY <1>5, <1>11, <1>16 DEF FragmentKeys
    <3> QED BY <1>3, <3>1, MarksAreThere
  <2>2. Lead(MarksOf(u), m) /\ Lead(MarksOf(ut), MarksOf(v))
    BY <1>3, <1>12, <1>14, <1>16, <2>1 DEF Lead
  <2> QED BY <1>3, <1>12, <1>13, <1>14, <1>16, <2>2
<1> QED BY <1>3, <1>11, <1>15, <1>16

----------------------------------------------------------------------------
(* The order of the values in the reordered statement.                       *)

\* The place of a fragment in the reordered statement.
Place(key) ==
  CASE key = BaseText -> 0 [] key = "WHERE" -> 1 [] key = "GROUP_BY" -> 2 [] key = "HAVING" -> 3
    [] key = "ORDER_BY" -> 4 [] key = "LIMIT" -> 5 [] key = "OFFSET" -> 6
Sorted(v) == \A k, l \in FragmentKeys : Place(k) < Place(l) => Lead(v.marks[k], v.marks[l])

LEMMA PlacesAre ==
  /\ Place(BaseText) = 0 /\ Place("WHERE") = 1 /\ Place("GROUP_BY") = 2 /\ Place("HAVING") = 3
  /\ Place("ORDER_BY") = 4 /\ Place("LIMIT") = 5 /\ Place("OFFSET") = 6
  /\ FragmentKeys = {BaseText, "WHERE", "GROUP_BY", "HAVING", "ORDER_BY", "LIMIT", "OFFSET"}
BY DEF Place, BaseText, FragmentKeys, ReorderKeywords



\* A text that is the earlier ones and the next fragment.
LEMMA NextFragment ==
  ASSUME NEW S, Holds(S, PH), NEW u \in Seq(S), NEW w \in Seq(S), NEW A, MarksOf(u) = A, NEW G, G => Rising(Placeholders(u)),
         G => Rising(Placeholders(w)) /\ Lead(A, MarksOf(w))
  PROVE  u \o w \in Seq(S) /\ MarksOf(u \o w) = A \cup MarksOf(w) /\ (G => Rising(Placeholders(u \o w)))
BY TextsJoin

LEMMA ReorderMarks ==
  ASSUME NEW S, Holds(S, PH), NEW text \in Seq(S)
  PROVE  /\ Reorder(text) \in Seq(S) /\ MarksOf(Reorder(text)) = MarksOf(text)
         /\ (Rising(Placeholders(text)) /\ Sorted(View(text))) => Rising(Placeholders(Reorder(text)))
<1> DEFINE f == Fragments(text).fragments
           M(k) == View(text).marks[k]
           G == Rising(Placeholders(text)) /\ Sorted(View(text))
           t0 == f[BaseText]
           t1 == t0 \o f["WHERE"]
           t2 == t1 \o f["GROUP_BY"]
           t3 == t2 \o f["HAVING"]
           t4 == t3 \o f["ORDER_BY"]
           t5 == t4 \o f["LIMIT"]
           t6 == t5 \o f["OFFSET"]
<1>1. \A k \in FragmentKeys : f[k] \in Seq(S) /\ MarksOf(f[k]) = M(k) /\ (G => Rising(Placeholders(f[k])))
  BY MarksAreThere DEF View
<1>2. \A k, l \in FragmentKeys : (G /\ Place(k) < Place(l)) => Lead(M(k), M(l))
  BY DEF Sorted
<1>3. Reorder(text) = t6
  BY DEF Reorder
<1>4. MarksOf(text) = UNION {M(k) : k \in FragmentKeys}
  BY MarksAreThere
<1> HIDE DEF f, M, G
<1>5. /\ G => /\ Lead(M(BaseText), M("WHERE"))
              /\ Lead(M(BaseText), M("GROUP_BY")) /\ Lead(M("WHERE"), M("GROUP_BY"))
              /\ Lead(M(BaseText), M("HAVING")) /\ Lead(M("WHERE"), M("HAVING")) /\ Lead(M("GROUP_BY"), M("HAVING"))
              /\ Lead(M(BaseText), M("ORDER_BY")) /\ Lead(M("WHERE"), M("ORDER_BY")) /\ Lead(M("GROUP_BY"), M("ORDER_BY"))
              /\ Lead(M("HAVING"), M("ORDER_BY"))
      /\ G => /\ Lead(M(BaseText), M("LIMIT")) /\ Lead(M("WHERE"), M("LIMIT")) /\ Lead(M("GROUP_BY"), M("LIMIT"))
              /\ Lead(M("HAVING"), M("LIMIT")) /\ Lead(M("ORDER_BY"), M("LIMIT"))
              /\ Lead(M(BaseText), M("OFFSET")) /\ Lead(M("WHERE"), M("OFFSET")) /\ Lead(M("GROUP_BY"), M("OFFSET"))
              /\ Lead(M("HAVING"), M("OFFSET")) /\ Lead(M("ORDER_BY"), M("OFFSET")) /\ Lead(M("LIMIT"), M("OFFSET"))
  BY <1>2, PlacesAre
<1> DEFINE A0 == M(BaseText)
           A1 == A0 \cup M("WHERE")
           A2 == A1 \cup M("GROUP_BY")
           A3 == A2 \cup M("HAVING")
           A4 == A3 \cup M("ORDER_BY")
           A5 == A4 \cup M("LIMIT")
           A6 == A5 \cup M("OFFSET")
<1>6. G => /\ Lead(A0, M("WHERE")) /\ Lead(A1, M("GROUP_BY")) /\ Lead(A2, M("HAVING")) /\ Lead(A3, M("ORDER_BY"))
           /\ Lead(A4, M("LIMIT")) /\ Lead(A5, M("OFFSET"))
  <2>1. G => Lead(A0, M("WHERE")) /\ Lead(A1, M("GROUP_BY"))
    BY <1>5 DEF Lead
  <2>2. G => Lead(A2, M("HAVING"))
    BY <1>5 DEF Lead
  <2>3. G => Lead(A3, M("ORDER_BY"))
    BY <1>5 DEF Lead
  <2>4. G => Lead(A4, M("LIMIT"))
    BY <1>5 DEF Lead
  <2>5. G => Lead(A5, M("OFFSET"))
    BY <1>5 DEF Lead
  <2> QED BY <2>1, <2>2, <2>3, <2>4, <2>5
<1>7. t0 \in Seq(S) /\ MarksOf(t0) = A0 /\ (G => Rising(Placeholders(t0)))
  BY <1>1, PlacesAre
<1> HIDE DEF t0, A0
<1>8. t1 \in Seq(S) /\ MarksOf(t1) = A1 /\ (G => Rising(Placeholders(t1)))
  <2>1. /\ f["WHERE"] \in Seq(S) /\ MarksOf(f["WHERE"]) = M("WHERE")
        /\ G => Rising(Placeholders(f["WHERE"])) /\ Lead(A0, MarksOf(f["WHERE"]))
    BY <1>1, <1>6, PlacesAre
  <2> QED BY <1>7, <2>1, NextFragment
<1> HIDE DEF t1, A1
<1>9. t2 \in Seq(S) /\ MarksOf(t2) = A2 /\ (G => Rising(Placeholders(t2)))
  <2>1. /\ f["GROUP_BY"] \in Seq(S) /\ MarksOf(f["GROUP_BY"]) = M("GROUP_BY")
        /\ G => Rising(Placeholders(f["GROUP_BY"])) /\ Lead(A1, MarksOf(f["GROUP_BY"]))
    BY <1>1, <1>6, PlacesAre
  <2> QED BY <1>8, <2>1, NextFragment
<1> HIDE DEF t2, A2
<1>10. t3 \in Seq(S) /\ MarksOf(t3) = A3 /\ (G => Rising(Placeholders(t3)))
  <2>1. /\ f["HAVING"] \in Seq(S) /\ MarksOf(f["HAVING"]) = M("HAVING")
        /\ G => Rising(Placeholders(f["HAVING"])) /\ Lead(A2, MarksOf(f["HAVING"]))
    BY <1>1, <1>6, PlacesAre
  <2> QED BY <1>9, <2>1, NextFragment
<1> HIDE DEF t3, A3
<1>11. t4 \in Seq(S) /\ MarksOf(t4) = A4 /\ (G => Rising(Placeholders(t4)))
  <2>1. /\ f["ORDER_BY"] \in Seq(S) /\ MarksOf(f["ORDER_BY"]) = M("ORDER_BY")
        /\ G => Rising(Placeholders(f["ORDER_BY"])) /\ Lead(A3, MarksOf(f["ORDER_BY"]))
    BY <1>1, <1>6, PlacesAre
  <2> QED BY <1>10, <2>1, NextFragment
<1> HIDE DEF t4, A4
<1>12. t5 \in Seq(S) /\ MarksOf(t5) = A5 /\ (G => Rising(Placeholders(t5)))
  <2>1. /\ f["LIMIT"] \in Seq(S) /\ MarksOf(f["LIMIT"]) = M("LIMIT")
        /\ G => Rising(Placeholders(f["LIMIT"])) /\ Lead(A4, MarksOf(f["LIMIT"]))
    BY <1>1, <1>6, PlacesAre
  <2> QED BY <1>11, <2>1, NextFragment
<1> HIDE DEF t5, A5
<1>13. t6 \in Seq(S) /\ MarksOf(t6) = A6 /\ (G => Rising(Placeholders(t6)))
  <2>1. /\ f["OFFSET"] \in Seq(S) /\ MarksOf(f["OFFSET"]) = M("OFFSET")
        /\ G => Rising(Placeholders(f["OFFSET"])) /\ Lead(A5, MarksOf(f["OFFSET"]))
    BY <1>1, <1>6, PlacesAre
  <2> QED BY <1>12, <2>1, NextFragment
<1>14. UNION {M(k) : k \in FragmentKeys} = A6
  BY PlacesAre DEF A0, A1, A2, A3, A4, A5
<1> QED BY <1>3, <1>4, <1>13, <1>14 DEF G

----------------------------------------------------------------------------
(* The chains the property leaves out, and the builder after the others.     *)

Amid(s, first, then, last) ==
  \E i, j, k \in DOMAIN s : i < j /\ j < k /\ s[i] \in first /\ s[j] \in then /\ s[k] \in last
Orders == {"orderBy", "reorder"}
LateTrailing == Trailing \ {"having", "havingRaw"}

\* The chains of SELECT that BindingsMeetTheirValues leaves out on a dialect.
Excluded(s, d) ==
  \/ Said(s, {"onlyTrashed"})
  \/ Amid(s, Orders, {"having", "setOp"}, {"reorder"})
  \/ /\ d # "postgres"
     /\ \/ Said(s, EditsMemo)
        \/ After(s, {"having"}, Conditions \cup {"setOp", "cursorPaginate"})
        \/ After(s, {"setOp"}, Conditions) /\ After(s, {"setOp"}, Trailing)
        \/ Amid(s, {"having"}, LateTrailing, {"having"})

LEMMA AmidMore ==
  ASSUME NEW s, Chain(s), NEW name
  PROVE  \A first, then, last : Amid(Append(s, name), first, then, last) <=> (Amid(s, first, then, last) \/ (After(s, first, then) /\ name \in last))
<1> DEFINE m == Append(s, name)
           n == Len(s)
<1>1. PICK S : s \in Seq(S)
  BY DEF Chain
<1> DEFINE T == S \cup {name}
<1>2. s \in Seq(T) /\ name \in T
  BY <1>1
<1> HIDE DEF T
<1>3. m \in Seq(T) /\ Len(m) = n + 1 /\ n \in Nat /\ m[n + 1] = name /\ \A i \in 1 .. n : m[i] = s[i]
  BY <1>2
<1>4. DOMAIN m = 1 .. n + 1 /\ DOMAIN s = 1 .. n
  BY <1>2, <1>3
<1> HIDE DEF m, n
<1>5. /\ \A i \in 1 .. n + 1 : i = n + 1 \/ i \in 1 .. n
      /\ n + 1 \in 1 .. n + 1 /\ \A i \in 1 .. n : i \in 1 .. n + 1 /\ i < n + 1 /\ ~(n + 1 < i)
      /\ \A i, j \in 1 .. n + 1 : i < j => i \in 1 .. n
  BY <1>3
<1> SUFFICES ASSUME NEW first, NEW then, NEW last
             PROVE  Amid(m, first, then, last) <=> (Amid(s, first, then, last) \/ (After(s, first, then) /\ name \in last))
  BY DEF m
<1>6. ASSUME Amid(m, first, then, last) PROVE Amid(s, first, then, last) \/ (After(s, first, then) /\ name \in last)
  <2>1. PICK i \in 1 .. n + 1, j \in 1 .. n + 1, k \in 1 .. n + 1 : i < j /\ j < k /\ m[i] \in first /\ m[j] \in then /\ m[k] \in last
    BY <1>4, <1>6 DEF Amid
  <2>2. i \in 1 .. n /\ j \in 1 .. n
    BY <1>5, <2>1
  <2>3. s[i] \in first /\ s[j] \in then
    BY <1>3, <2>1, <2>2
  <2>4. CASE k \in 1 .. n
    BY <1>3, <1>4, <2>1, <2>2, <2>3, <2>4 DEF Amid
  <2>5. CASE k = n + 1
    BY <1>3, <1>4, <2>1, <2>2, <2>3, <2>5 DEF After
  <2> QED BY <1>5, <2>1, <2>4, <2>5
<1>7. ASSUME Amid(s, first, then, last) PROVE Amid(m, first, then, last)
  BY <1>3, <1>4, <1>5, <1>7 DEF Amid
<1>8. ASSUME After(s, first, then), name \in last PROVE Amid(m, first, then, last)
  <2>1. PICK i \in 1 .. n, j \in 1 .. n : i < j /\ s[i] \in first /\ s[j] \in then
    BY <1>4, <1>8 DEF After
  <2>2. m[i] \in first /\ m[j] \in then /\ m[n + 1] \in last
    BY <1>3, <1>8, <2>1
  <2> QED BY <1>4, <1>5, <2>1, <2>2 DEF Amid
<1> QED BY <1>6, <1>7, <1>8

\* What a chain that is not excluded says of its last call.
LEMMA Included ==
  ASSUME NEW s, Chain(s), NEW d, NEW name, ~Excluded(Append(s, name), d)
  PROVE  /\ ~Excluded(s, d) /\ Chain(Append(s, name)) /\ name # "onlyTrashed"
         /\ name = "reorder" => ~After(s, Orders, {"having", "setOp"})
         /\ d # "postgres" => /\ name \notin EditsMemo
                              /\ name \in Conditions \cup {"setOp", "cursorPaginate"} => ~Said(s, {"having"})
                              /\ name = "having" => ~After(s, {"having"}, LateTrailing)
<1> DEFINE m == Append(s, name)
<1>1. /\ Chain(m)
      /\ \A names : Said(m, names) <=> (Said(s, names) \/ name \in names)
      /\ \A first, then : After(m, first, then) <=> (After(s, first, then) \/ (Said(s, first) /\ name \in then))
  BY SaidMore
<1>2. \A first, then, last : Amid(m, first, then, last) <=> (Amid(s, first, then, last) \/ (After(s, first, then) /\ name \in last))
  BY AmidMore
<1> HIDE DEF m
<1>3. ~Excluded(m, d)
  BY DEF m
<1>4. ~Excluded(s, d)
  BY <1>1, <1>2, <1>3 DEF Excluded
<1>5. name # "onlyTrashed" /\ (name = "reorder" => ~After(s, Orders, {"having", "setOp"}))
  BY <1>1, <1>2, <1>3 DEF Excluded
<1>6. d # "postgres" => name \notin EditsMemo /\ (name \in Conditions \cup {"setOp", "cursorPaginate"} => ~Said(s, {"having"}))
  BY <1>1, <1>3 DEF Excluded
<1>7. d # "postgres" => (name = "having" => ~After(s, {"having"}, LateTrailing))
  BY <1>2, <1>3 DEF Excluded
<1> QED BY <1>1, <1>4, <1>5, <1>6, <1>7 DEF m

LEMMA SetOpConditions ==
  ASSUME NEW s, Chain(s), NEW d, d # "postgres", ~Excluded(s, d), After(s, {"setOp"}, Conditions)
  PROVE  ~Said(s, {"having"}) /\ ~After(s, {"setOp"}, Trailing)
<1>1. ~After(s, {"setOp"}, Trailing) /\ ~After(s, {"having"}, Conditions \cup {"setOp", "cursorPaginate"})
  BY DEF Excluded
<1>2. PICK S : s \in Seq(S)
  BY DEF Chain
<1>3. PICK i \in DOMAIN s, j \in DOMAIN s : i < j /\ s[i] = "setOp" /\ s[j] \in Conditions
  BY DEF After
<1>4. ASSUME NEW k \in DOMAIN s, s[k] = "having" PROVE FALSE
  <2>1. "having" \in Trailing /\ "having" # "setOp"
    BY DEF Trailing
  <2>2. ~(i < k)
    BY <1>1, <1>3, <1>4, <2>1 DEF After
  <2>3. ~(k < i)
    BY <1>1, <1>3, <1>4 DEF After
  <2>4. i \in Nat /\ k \in Nat
    BY <1>2
  <2> QED BY <1>3, <1>4, <2>1, <2>2, <2>3, <2>4
<1> QED BY <1>1, <1>4 DEF Said

----------------------------------------------------------------------------
\* Every value given has its placeholder in the text or in a condition recorded.
Tallied(x) ==
  /\ DOMAIN x = Fields /\ IsFiniteSet(x.pivots) /\ x.params \in Nat /\ Marked(x.text) /\ Marked(x.terms)
  /\ x.tail \in BOOLEAN /\ x.tailPred \in BOOLEAN /\ x.having \in BOOLEAN
  /\ MarksOf(x.text) \cup MarksOf(x.terms) = Bound(x.dialect, x.params)
  /\ x.tail # TRUE => "WHERE" \notin View(x.text).words

\* What stands behind an ORDER BY.
Droppable(v, s) ==
  /\ ~Said(s, Orders) => "ORDER_BY" \notin v.words
  /\ ~After(s, Orders, {"having", "setOp"}) => v.rest = {}

\* The text and the conditions of a builder have their marks in the order of the values.
InLine(x, v, s) ==
  /\ Rising(Placeholders(x.text)) /\ Rising(Placeholders(x.terms)) /\ Sorted(v) /\ v.marks[BaseText] = {}
  /\ ~Said(s, {"having"}) => \A k \in FragmentKeys : k = "WHERE" \/ v.marks[k] = {}
  /\ x.tail # TRUE => Lead(MarksOf(x.terms), MarksOf(x.text))
  /\ x.tail = TRUE => Lead(MarksOf(x.text), MarksOf(x.terms)) /\ Said(s, {"setOp"})
  /\ (x.tail = TRUE /\ ~After(s, {"setOp"}, Conditions)) => MarksOf(x.terms) = {}
  /\ (x.tail = TRUE /\ x.tailPred = TRUE /\ ~After(s, {"setOp"}, Trailing)) => v.key = "WHERE"
  /\ (Said(s, {"having"}) /\ ~After(s, {"having"}, LateTrailing)) => \A k \in FragmentKeys : Place(v.key) < Place(k) => v.marks[k] = {}
  /\ (x.having = TRUE \/ (x.tail = TRUE /\ x.tailPred = TRUE)) => v.key # BaseText
  /\ Said(s, {"having"}) => x.having = TRUE

Lined(x, s) ==
  /\ Tallied(x) /\ Droppable(View(x.text), s)
  /\ x.dialect # "postgres" => InLine(x, View(x.text), s)
StatementFields == {"dialect", "head", "text", "values"}
Settled(q, d) == DOMAIN q = StatementFields /\ q.dialect = d /\ \E m : FitsAt(q, m, {})
Recalls(x) == x.built # Unbuilt => Settled(x.built[1], x.dialect)
BindsOK(x, s) == Lined(x, s) /\ Recalls(x)

LEMMA LineStays ==
  ASSUME NEW x, NEW s, Chain(s), Lined(x, s), NEW name, name # "having"
  PROVE  Lined(x, Append(s, name))
<1> DEFINE m == Append(s, name)
           v == View(x.text)
<1>1. /\ \A names : Said(m, names) <=> (Said(s, names) \/ name \in names)
      /\ \A first, then : After(m, first, then) <=> (After(s, first, then) \/ (Said(s, first) /\ name \in then))
  BY SaidMore
<1> HIDE DEF m, v
<1>2. Said(m, {"having"}) <=> Said(s, {"having"})
  BY <1>1
<1>3. /\ Said(s, {"setOp"}) => Said(m, {"setOp"})
      /\ ~Said(m, Orders) => ~Said(s, Orders)
      /\ \A first, then : ~After(m, first, then) => ~After(s, first, then)
  BY <1>1
<1>4. Tallied(x) /\ Droppable(v, s) /\ (x.dialect # "postgres" => InLine(x, v, s))
  BY DEF Lined, v
<1>5. Droppable(v, m)
  BY <1>3, <1>4 DEF Droppable
<1>6. InLine(x, v, s) => InLine(x, v, m)
  BY <1>2, <1>3 DEF InLine
<1> QED BY <1>4, <1>5, <1>6 DEF Lined, m, v

\* The same builder but for its list, its memo and bare tokens in its text.
SameLine(x, y) ==
  /\ DOMAIN y = Fields /\ IsFiniteSet(y.pivots) /\ y.dialect = x.dialect /\ y.terms = x.terms /\ y.params = x.params
  /\ y.tail = x.tail /\ y.tailPred = x.tailPred /\ y.having = x.having
  /\ Marked(y.text) /\ View(y.text) = View(x.text) /\ MarksOf(y.text) = MarksOf(x.text)
  /\ Rising(Placeholders(x.text)) => Rising(Placeholders(y.text))

LEMMA SameLined ==
  ASSUME NEW x, NEW s, Lined(x, s), NEW y, SameLine(x, y)
  PROVE  Lined(y, s)
<1>1. Tallied(y)
  BY DEF Lined, Tallied, SameLine
<1>2. Droppable(View(y.text), s)
  BY DEF Lined, SameLine
<1>3. ASSUME y.dialect # "postgres" PROVE InLine(y, View(y.text), s)
  <2>1. InLine(x, View(x.text), s)
    BY <1>3 DEF Lined, SameLine
  <2> DEFINE v == View(x.text)
  <2>2. View(y.text) = v
    BY DEF SameLine
  <2> HIDE DEF v
  <2>3. InLine(y, v, s)
    BY <2>1 DEF InLine, SameLine, v
  <2> QED BY <2>2, <2>3
<1> QED BY <1>1, <1>2, <1>3 DEF Lined

----------------------------------------------------------------------------
(* The conditions written into the text.                                     *)

LEMMA MarkedWith ==
  ASSUME NEW text, Marked(text), NEW t, t.ph \in Seq(PH)
  PROVE  \E S : Holds(S, PH) /\ text \in Seq(S) /\ t \in S
<1>1. PICK S : Holds(S, PH) /\ text \in Seq(S)
  BY DEF Marked
<1> DEFINE W == S \cup {t}
<1>2. Holds(W, PH)
  BY <1>1 DEF Holds
<1>3. text \in Seq(W) /\ t \in W
  BY <1>1
<1> HIDE DEF W
<1> QED BY <1>2, <1>3

LEMMA MarkedBoth ==
  ASSUME NEW u, Marked(u), NEW v, Marked(v)
  PROVE  \E S : Holds(S, PH) /\ u \in Seq(S) /\ v \in Seq(S)
<1>1. PICK A : Holds(A, PH) /\ u \in Seq(A)
  BY DEF Marked
<1>2. PICK B : Holds(B, PH) /\ v \in Seq(B)
  BY DEF Marked
<1> DEFINE W == A \cup B
<1>3. Holds(W, PH)
  BY <1>1, <1>2 DEF Holds
<1>4. u \in Seq(W) /\ v \in Seq(W)
  BY <1>1, <1>2
<1> HIDE DEF W
<1> QED BY <1>3, <1>4

(* SpliceWhere, by what it puts where.                                         *)
Closing(x) == IF x.tail = TRUE /\ x.tailPred = TRUE THEN "AND" ELSE "WHERE"
CurrentForm(x, w, new) ==
  \/ new = x.text /\ MarksOf(w) = {}
  \/ \E S, t : /\ Holds(S, PH) /\ x.text \in Seq(S) /\ t \in S /\ t.kw = Closing(x) /\ t.ph = Placeholders(w)
               /\ x.tail = TRUE => new = Append(x.text, t)
               /\ x.tail # TRUE => new = Inserted(x.text, FirstTopLevel(x.text, TailClause), <<t>>)

LEMMA CurrentIs ==
  ASSUME NEW x, Marked(x.text), x.tail \in BOOLEAN, x.tailPred \in BOOLEAN, NEW w, Marked(w)
  PROVE  CurrentForm(x, w, SpliceWhere(x.text, RenderWhereTerms(w), x.tail, x.tailPred))
<1> DEFINE body == RenderWhereTerms(w)
           new == SpliceWhere(x.text, body, x.tail, x.tailPred)
           t == WhereToken(Closing(x), body)
           cut == FirstTopLevel(x.text, TailClause)
<1>1. PICK T : Holds(T, PH) /\ w \in Seq(T)
  BY DEF Marked
<1>2. BodyPlaceholders(body) = Placeholders(w) /\ Placeholders(w) \in Seq(PH)
  BY <1>1, BodyInOrder, PlaceholdersGrow
<1>3. t.kw = Closing(x) /\ t.ph = Placeholders(w)
  BY <1>2 DEF WhereToken, Token
<1>4. CASE body = <<>>
  <2>1. new = x.text
    BY <1>4 DEF SpliceWhere
  <2>2. BodyPlaceholders(<<>>) = <<>>
    BY FlattenNothing DEF BodyPlaceholders
  <2>3. MarksOf(w) = {}
    BY <1>2, <1>4, <2>2, Unmarked DEF MarksOf
  <2> QED BY <2>1, <2>3 DEF CurrentForm
<1>5. CASE body # <<>>
  <2>1. x.tail = TRUE => new = Append(x.text, t)
    <3> SUFFICES ASSUME x.tail = TRUE PROVE new = Append(x.text, t)
      OBVIOUS
    <3> HIDE DEF body
    <3>1. (IF x.tailPred THEN "AND" ELSE "WHERE") = Closing(x)
      BY DEF Closing
    <3>2. new = Append(x.text, WhereToken(IF x.tailPred THEN "AND" ELSE "WHERE", body))
      BY <1>5 DEF SpliceWhere
    <3> QED BY <3>1, <3>2
  <2>2. x.tail # TRUE => new = Inserted(x.text, cut, <<t>>)
    <3> SUFFICES ASSUME x.tail # TRUE PROVE new = Inserted(x.text, cut, <<t>>)
      OBVIOUS
    <3> HIDE DEF body
    <3>1. Closing(x) = "WHERE"
      BY DEF Closing
    <3> QED BY <1>5, <3>1 DEF SpliceWhere, Inserted
  <2> HIDE DEF t, new
  <2>3. PICK S : Holds(S, PH) /\ x.text \in Seq(S) /\ t \in S
    BY <1>2, <1>3, MarkedWith
  <2> QED BY <1>3, <2>1, <2>2, <2>3 DEF CurrentForm, new
<1> QED BY <1>4, <1>5

\* A clause that a text without later values is continued with.
LEMMA SortedMore ==
  ASSUME NEW v, Sorted(v), v.key \in FragmentKeys, NEW kw, NEW m, NEW all, \A k \in FragmentKeys : v.marks[k] \subseteq all,
         Lead(all, m), m = {} \/ \A k \in FragmentKeys : Place(KeyNow(v, kw)) < Place(k) => v.marks[k] = {}
  PROVE  Sorted(Seen(v, kw, m))
<1> DEFINE key == KeyNow(v, kw)
           new == Seen(v, kw, m)
<1>1. \A k \in FragmentKeys : new.marks[k] = IF k = key THEN v.marks[k] \cup m ELSE v.marks[k]
  BY DEF Seen
<1> HIDE DEF new
<1> SUFFICES ASSUME NEW k \in FragmentKeys, NEW l \in FragmentKeys, Place(k) < Place(l) PROVE Lead(new.marks[k], new.marks[l])
  BY DEF Sorted, new
<1>2. Lead(v.marks[k], v.marks[l])
  BY DEF Sorted
<1>3. k # l
  BY PlacesAre
<1>4. CASE k = key
  <2>1. m = {} \/ v.marks[l] = {}
    BY <1>4
  <2> HIDE DEF key
  <2>2. new.marks[k] = v.marks[k] \cup m /\ new.marks[l] = v.marks[l]
    BY <1>1, <1>3, <1>4
  <2> QED BY <1>2, <2>1, <2>2 DEF Lead
<1>5. CASE l = key
  <2> HIDE DEF key
  <2>1. new.marks[k] = v.marks[k] /\ new.marks[l] = v.marks[l] \cup m
    BY <1>1, <1>3, <1>5
  <2>2. Lead(v.marks[k], m)
    BY DEF Lead
  <2> QED BY <1>2, <2>1, <2>2 DEF Lead
<1>6. CASE k # key /\ l # key
  BY <1>1, <1>2, <1>6
<1> QED BY <1>4, <1>5, <1>6

\* Only the WHERE has values.
OnlyWhere(v) == \A k \in FragmentKeys : k = "WHERE" \/ v.marks[k] = {}
\* The conditions w fit behind a builder's text, or ahead of it.
Fitting(x, v, w) ==
  /\ Rising(Placeholders(w))
  /\ x.tail # TRUE => Lead(MarksOf(w), MarksOf(x.text))
  /\ x.tail = TRUE => Lead(MarksOf(x.text), MarksOf(w)) /\ (MarksOf(w) = {} \/ OnlyWhere(v))
  /\ (x.tail = TRUE /\ x.tailPred = TRUE) => v.key # BaseText

LEMMA CurrentMarks ==
  ASSUME NEW x, Marked(x.text), NEW w, Marked(w), NEW new, CurrentForm(x, w, new)
  PROVE  /\ Marked(new) /\ MarksOf(new) = MarksOf(x.text) \cup MarksOf(w)
<1>1. CASE new = x.text /\ MarksOf(w) = {}
  BY <1>1
<1>2. CASE ~(new = x.text /\ MarksOf(w) = {})
  <2>1. PICK S, t : /\ Holds(S, PH) /\ x.text \in Seq(S) /\ t \in S /\ t.kw = Closing(x) /\ t.ph = Placeholders(w)
                    /\ x.tail = TRUE => new = Append(x.text, t)
                    /\ x.tail # TRUE => new = Inserted(x.text, FirstTopLevel(x.text, TailClause), <<t>>)
    BY <1>2 DEF CurrentForm
  <2>2. Marks(t.ph) = MarksOf(w)
    BY <2>1 DEF MarksOf
  <2>3. CASE x.tail = TRUE
    <3>1. new = Append(x.text, t)
      BY <2>1, <2>3
    <3>2. MarksOf(new) = MarksOf(x.text) \cup Marks(t.ph) /\ new \in Seq(S)
      BY <2>1, <3>1, OneMore
    <3> QED BY <2>1, <2>2, <3>2 DEF Marked
  <2>4. CASE x.tail # TRUE
    <3> DEFINE cut == FirstTopLevel(x.text, TailClause)
               u == SubSeq(x.text, 1, cut - 1)
               v == SubSeq(x.text, cut, Len(x.text))
    <3>1. cut \in 1 .. Len(x.text) + 1 /\ <<t>> \in Seq(S)
      BY <2>1, FirstIs
    <3> HIDE DEF cut
    <3>2. InsertedRight(S, x.text, cut, <<t>>)
      BY <2>1, <3>1, InsertedIs
    <3>3. u \in Seq(S) /\ v \in Seq(S) /\ u \o v = x.text /\ Inserted(x.text, cut, <<t>>) = (u \o <<t>>) \o v
      BY <3>2 DEF InsertedRight, Inserted
    <3> HIDE DEF u, v
    <3>4. u \o <<t>> = Append(u, t) /\ Append(u, t) \in Seq(S)
      BY <2>1, <3>3, AppendIsConcat
    <3>5. MarksOf(Append(u, t)) = MarksOf(u) \cup MarksOf(w)
      BY <2>1, <2>2, <3>3, OneMore
    <3> DEFINE ut == Append(u, t)
    <3>6. ut \in Seq(S) /\ MarksOf(ut) = MarksOf(u) \cup MarksOf(w) /\ new = ut \o v
      BY <2>1, <2>4, <3>3, <3>4, <3>5 DEF cut
    <3> HIDE DEF ut
    <3>7. ut \o v \in Seq(S) /\ MarksOf(ut \o v) = MarksOf(ut) \cup MarksOf(v)
      BY <2>1, <3>3, <3>6, TextsJoin
    <3>8. MarksOf(u \o v) = MarksOf(u) \cup MarksOf(v)
      BY <2>1, <3>3, TextsJoin
    <3>9. MarksOf(new) = MarksOf(x.text) \cup MarksOf(w)
      BY <3>3, <3>6, <3>7, <3>8
    <3> QED BY <2>1, <3>6, <3>7, <3>9 DEF Marked
  <2> QED BY <2>3, <2>4
<1> QED BY <1>1, <1>2

\* What the text keeps of its clauses when the conditions are written into it.
LEMMA CurrentView ==
  ASSUME NEW x, Marked(x.text), NEW w, NEW new, CurrentForm(x, w, new),
         x.tail # TRUE => "WHERE" \notin View(x.text).words
  PROVE  LET v == View(x.text)
             n == View(new)
         IN  /\ "ORDER_BY" \notin v.words => "ORDER_BY" \notin n.words /\ n.rest = {}
             /\ v.key # BaseText => n.key # BaseText
             /\ v.marks[BaseText] = {} => n.marks[BaseText] = {} \/ MarksOf(w) # {}
<1> DEFINE v == View(x.text)
           n == View(new)
<1>1. PICK R : Holds(R, PH) /\ x.text \in Seq(R)
  BY DEF Marked
<1>2. "ORDER_BY" \notin v.words => v.rest = {}
  BY <1>1, MarksAreThere
<1>3. CASE new = x.text
  BY <1>2, <1>3
<1>4. CASE new # x.text
  <2>1. PICK S, t : /\ Holds(S, PH) /\ x.text \in Seq(S) /\ t \in S /\ t.kw = Closing(x) /\ t.ph = Placeholders(w)
                    /\ x.tail = TRUE => new = Append(x.text, t)
                    /\ x.tail # TRUE => new = Inserted(x.text, FirstTopLevel(x.text, TailClause), <<t>>)
    BY <1>4 DEF CurrentForm
  <2>2. CASE x.tail = TRUE
    <3>1. n = Seen(v, t.kw, Marks(t.ph))
      BY <2>1, <2>2, ViewGrows
    <3>2. t.kw = "AND" \/ t.kw = "WHERE"
      BY <2>1 DEF Closing
    <3>3. "ORDER_BY" \notin v.words => "ORDER_BY" \notin n.words /\ n.rest = {}
      BY <3>1, <3>2 DEF Seen, WordsNow
    <3>4. v.key # BaseText => n.key # BaseText
      BY <3>1, <3>2, KeysAre DEF Seen, KeyNow
    <3>5. Marks(t.ph) = MarksOf(w)
      BY <2>1 DEF MarksOf
    <3>6. (v.marks[BaseText] = {} /\ MarksOf(w) = {}) => n.marks[BaseText] = {}
      BY <3>1, <3>5, KeysAre DEF Seen
    <3> QED BY <3>3, <3>4, <3>6
  <2>3. CASE x.tail # TRUE
    <3> DEFINE cut == FirstTopLevel(x.text, TailClause)
    <3>1. t.kw = "WHERE" /\ new = Inserted(x.text, cut, <<t>>) /\ "WHERE" \notin v.words
      BY <2>1, <2>3 DEF Closing
    <3> HIDE DEF cut
    <3>2. cut = FirstTopLevel(x.text, TailClause)
      BY DEF cut
    <3>3. Spliced(n, v, Marks(t.ph))
      BY <2>1, <3>1, <3>2, ViewSplice
    <3>4. "ORDER_BY" \notin v.words => "ORDER_BY" \notin n.words /\ n.rest = {}
      BY <1>2, <3>3 DEF Spliced
    <3>5. v.key # BaseText => n.key # BaseText
      BY <3>3, KeysAre DEF Spliced
    <3>6. v.marks[BaseText] = {} => n.marks[BaseText] = {}
      BY <3>3 DEF Spliced
    <3> QED BY <3>4, <3>5, <3>6
  <2> QED BY <2>2, <2>3
<1> QED BY <1>3, <1>4

LEMMA CurrentStraight ==
  ASSUME NEW x, Marked(x.text), NEW w, NEW new, CurrentForm(x, w, new), x.tail # TRUE => "WHERE" \notin View(x.text).words,
         Rising(Placeholders(x.text)), Sorted(View(x.text)), View(x.text).marks[BaseText] = {}, Fitting(x, View(x.text), w)
  PROVE  LET v == View(x.text)
             n == View(new)
         IN  /\ Rising(Placeholders(new)) /\ Sorted(n) /\ n.marks[BaseText] = {}
             /\ (OnlyWhere(v) /\ (MarksOf(w) = {} \/ x.tail # TRUE \/ x.tailPred # TRUE \/ v.key = "WHERE")) => OnlyWhere(n)
<1> DEFINE v == View(x.text)
           n == View(new)
<1>1. CASE new = x.text
  BY <1>1
<1>2. CASE new # x.text
  <2>1. PICK S, t : /\ Holds(S, PH) /\ x.text \in Seq(S) /\ t \in S /\ t.kw = Closing(x) /\ t.ph = Placeholders(w)
                    /\ x.tail = TRUE => new = Append(x.text, t)
                    /\ x.tail # TRUE => new = Inserted(x.text, FirstTopLevel(x.text, TailClause), <<t>>)
    BY <1>2 DEF CurrentForm
  <2> DEFINE m == Marks(t.ph)
  <2>2. m = MarksOf(w) /\ Rising(t.ph)
    BY <2>1 DEF MarksOf, Fitting
  <2>3. /\ MarksOf(x.text) = UNION {v.marks[k] : k \in FragmentKeys} /\ v.key \in FragmentKeys
    BY <2>1, MarksAreThere
  <2>4. \A k \in FragmentKeys : v.marks[k] \subseteq MarksOf(x.text)
    BY <2>3
  <2>5. CASE x.tail = TRUE
    <3>1. n = Seen(v, t.kw, m)
      BY <2>1, <2>5, ViewGrows
    <3>2. Lead(MarksOf(x.text), m) /\ (m = {} \/ OnlyWhere(v))
      BY <2>2, <2>5 DEF Fitting
    <3>3. Rising(Placeholders(new))
      <4>1. Rising(Placeholders(Append(x.text, t)))
        BY <2>1, <2>2, <3>2, OneMore
      <4> QED BY <2>1, <2>5, <4>1
    <3>4. KeyNow(v, t.kw) \in FragmentKeys /\ KeyNow(v, t.kw) # BaseText
      <4>1. CASE x.tailPred = TRUE
        <5>1. t.kw = "AND" /\ v.key # BaseText
          BY <2>1, <2>5, <4>1 DEF Closing, Fitting
        <5> QED BY <2>3, <5>1, KeysAre DEF KeyNow
      <4>2. CASE x.tailPred # TRUE
        <5>1. t.kw = "WHERE"
          BY <2>1, <4>2 DEF Closing
        <5> QED BY <5>1, KeysAre DEF KeyNow, FragmentKeys
      <4> QED BY <4>1, <4>2
    <3> HIDE DEF m, v, n
    <3>5. OnlyWhere(v) => \A k \in FragmentKeys : Place(KeyNow(v, t.kw)) < Place(k) => v.marks[k] = {}
      <4>1. Place("WHERE") = 1 /\ \A k \in FragmentKeys : k # BaseText => Place(k) \in 1 .. 6
        BY PlacesAre
      <4>2. Place(KeyNow(v, t.kw)) \in 1 .. 6
        BY <3>4, <4>1
      <4>3. ~(Place(KeyNow(v, t.kw)) < Place("WHERE"))
        BY <4>1, <4>2
      <4> QED BY <4>3 DEF OnlyWhere
    <3>6. Sorted(n)
      <4>1. Sorted(v)
        BY DEF v
      <4> QED BY <2>3, <2>4, <3>1, <3>2, <3>5, <4>1, SortedMore
    <3>7. n.marks[BaseText] = {}
      <4>1. n.marks[BaseText] = v.marks[BaseText]
        BY <3>1, <3>4, KeysAre DEF Seen
      <4> QED BY <4>1 DEF v
    <3>8. ASSUME OnlyWhere(v), m = {} \/ x.tailPred # TRUE \/ v.key = "WHERE" PROVE OnlyWhere(n)
      <4>1. m = {} \/ KeyNow(v, t.kw) = "WHERE"
        <5>1. CASE x.tailPred # TRUE
          BY <2>1, <5>1, KeysAre DEF Closing, KeyNow
        <5>2. CASE v.key = "WHERE"
          BY <2>1, <5>2, KeysAre DEF Closing, KeyNow
        <5> QED BY <3>8, <5>1, <5>2
      <4>2. \A k \in FragmentKeys : n.marks[k] = IF k = KeyNow(v, t.kw) THEN v.marks[k] \cup m ELSE v.marks[k]
        BY <3>1 DEF Seen
      <4> QED BY <3>8, <4>1, <4>2 DEF OnlyWhere
    <3> QED BY <2>2, <2>5, <3>3, <3>6, <3>7, <3>8 DEF v, n
  <2>6. CASE x.tail # TRUE
    <3> DEFINE cut == FirstTopLevel(x.text, TailClause)
    <3>1. t.kw = "WHERE" /\ new = Inserted(x.text, cut, <<t>>) /\ "WHERE" \notin v.words
      BY <2>1, <2>6 DEF Closing
    <3> HIDE DEF cut
    <3>2. cut = FirstTopLevel(x.text, TailClause)
      BY DEF cut
    <3>3. Lead(m, MarksOf(x.text))
      BY <2>2, <2>6 DEF Fitting
    <3>4. Spliced(n, v, m) /\ Rising(Placeholders(new))
      BY <2>1, <2>2, <3>1, <3>2, <3>3, ViewSplice
    <3>5. v.marks["WHERE"] = {}
      BY <2>1, <3>1, KeyIsSaid, KeysAre
    <3>6. v.marks[BaseText] = {}
      OBVIOUS
    <3>7. Sorted(v)
      OBVIOUS
    <3> HIDE DEF m, v, n
    <3>8. /\ n.marks[BaseText] = {} /\ n.marks["WHERE"] = m /\ \A k \in FragmentKeys : k = BaseText \/ k = "WHERE" \/ n.marks[k] = v.marks[k]
      BY <3>4, <3>5, <3>6, KeysAre DEF Spliced
    <3>9. Sorted(n)
      <4> SUFFICES ASSUME NEW k \in FragmentKeys, NEW l \in FragmentKeys, Place(k) < Place(l) PROVE Lead(n.marks[k], n.marks[l])
        BY DEF Sorted
      <4>1. Lead(v.marks[k], v.marks[l])
        BY <3>7 DEF Sorted
      <4>2. CASE k = BaseText
        BY <3>8, <4>2 DEF Lead
      <4>3. CASE k = "WHERE"
        <5>1. l # BaseText /\ l # "WHERE"
          BY <4>3, PlacesAre
        <5>2. n.marks[l] \subseteq MarksOf(x.text)
          BY <2>4, <3>8, <5>1
        <5> QED BY <3>3, <3>8, <4>3, <5>2 DEF Lead
      <4>4. CASE k # BaseText /\ k # "WHERE"
        <5>1. l # BaseText /\ l # "WHERE"
          BY <4>4, PlacesAre
        <5> QED BY <3>8, <4>1, <4>4, <5>1
      <4> QED BY <4>2, <4>3, <4>4
    <3>10. OnlyWhere(v) => OnlyWhere(n)
      BY <3>8 DEF OnlyWhere
    <3> QED BY <3>4, <3>8, <3>9, <3>10 DEF v, n
  <2> QED BY <2>5, <2>6
<1> QED BY <1>1, <1>2

----------------------------------------------------------------------------
(* What the builder would send, and what it remembers.                       *)

LEMMA EnsureIs ==
  ASSUME NEW x, DOMAIN x = Fields
  PROVE  /\ SameLine(x, x) \/ ~Marked(x.text) \/ ~IsFiniteSet(x.pivots)
         /\ LET y == EnsureBuilt(x)
            IN  /\ x.built # Unbuilt => y = x
                /\ x.built = Unbuilt => y.built[1] = ToSQL(x)
                /\ y.built # Unbuilt /\ DOMAIN y = Fields
                /\ \A f \in Fields \ {"built"} : y[f] = x[f]
<1> DEFINE y == [x EXCEPT !.built = <<ToSQL(x)>>]
<1>1. SameLine(x, x) \/ ~Marked(x.text) \/ ~IsFiniteSet(x.pivots)
  BY DEF SameLine
<1>2. DOMAIN y = Fields /\ y.built = <<ToSQL(x)>> /\ \A f \in Fields \ {"built"} : y[f] = x[f]
  BY DEF Fields
<1>3. x.built # Unbuilt => EnsureBuilt(x) = x
  BY DEF EnsureBuilt
<1>4. x.built = Unbuilt => EnsureBuilt(x) = y
  BY DEF EnsureBuilt, ToSQL
<1> HIDE DEF y
<1>5. y.built # Unbuilt /\ y.built[1] = ToSQL(x)
  BY <1>2 DEF Unbuilt
<1> QED BY <1>1, <1>2, <1>3, <1>4, <1>5

LEMMA SameFits ==
  ASSUME NEW q, NEW d, Settled(q, d), NEW r, DOMAIN r = DOMAIN q, r.dialect = q.dialect, r.text = q.text, r.values = q.values
  PROVE  Settled(r, d)
BY DEF Settled, FitsAt

LEMMA StatementIs ==
  ASSUME NEW x, NEW text
  PROVE  /\ Statement(x, text).dialect = x.dialect /\ Statement(x, text).text = text
         /\ Statement(x, text).values = Numbered(x.params) /\ DOMAIN Statement(x, text) = StatementFields
BY DEF Statement, Numbered, StatementFields

LEMMA TermsFit ==
  ASSUME NEW x, NEW s, Chain(s), Lined(x, s), x.dialect # "postgres", ~Excluded(s, x.dialect)
  PROVE  Fitting(x, View(x.text), x.terms)
<1> DEFINE v == View(x.text)
<1>1. InLine(x, v, s)
  BY DEF Lined
<1> HIDE DEF v
<1>2. (x.tail = TRUE /\ MarksOf(x.terms) # {}) => OnlyWhere(v)
  <2> SUFFICES ASSUME x.tail = TRUE, MarksOf(x.terms) # {} PROVE OnlyWhere(v)
    OBVIOUS
  <2>1. After(s, {"setOp"}, Conditions)
    BY <1>1 DEF InLine
  <2>2. ~Said(s, {"having"})
    BY <2>1, SetOpConditions
  <2> QED BY <1>1, <2>2 DEF InLine, OnlyWhere
<1> QED BY <1>1, <1>2 DEF InLine, Fitting, v

LEMMA CurrentIsTerms ==
  ASSUME NEW x, Marked(x.terms)
  PROVE  CurrentSql(x, <<>>) = SpliceWhere(x.text, RenderWhereTerms(x.terms), x.tail, x.tailPred)
<1>1. x.terms \o <<>> = x.terms
  BY ConcatEmptySeq DEF Marked
<1> QED BY <1>1 DEF CurrentSql

\* What the builder would send now, as it stands and reordered.
LEMMA CurrentSettled ==
  ASSUME NEW x, NEW s, Chain(s), Lined(x, s), ~Excluded(s, x.dialect)
  PROVE  LET t == CurrentSql(x, <<>>)
         IN  /\ CurrentForm(x, x.terms, t)
             /\ Settled(Statement(x, t), x.dialect) /\ Settled(Statement(x, Reorder(t)), x.dialect)
             /\ x.dialect # "postgres" => Rising(Placeholders(t))
<1> DEFINE t == CurrentSql(x, <<>>)
<1>1. /\ Tallied(x) /\ (x.dialect # "postgres" => InLine(x, View(x.text), s))
      /\ x.dialect # "postgres" => Fitting(x, View(x.text), x.terms)
  BY TermsFit DEF Lined
<1>2. CurrentForm(x, x.terms, t)
  BY <1>1, CurrentIs, CurrentIsTerms DEF Tallied
<1> HIDE DEF t
<1>3. Marked(t) /\ MarksOf(t) = Bound(x.dialect, x.params)
  BY <1>1, <1>2, CurrentMarks DEF Tallied
<1>4. x.dialect # "postgres" => Rising(Placeholders(t)) /\ Sorted(View(t))
  BY <1>1, <1>2, CurrentStraight DEF Tallied, InLine
<1>5. Marked(Reorder(t)) /\ MarksOf(Reorder(t)) = MarksOf(t) /\ (x.dialect # "postgres" => Rising(Placeholders(Reorder(t))))
  <2>1. PICK S : Holds(S, PH) /\ t \in Seq(S)
    BY <1>3 DEF Marked
  <2> QED BY <1>4, <2>1, ReorderMarks DEF Marked
<1>6. ASSUME NEW u, Marked(u), MarksOf(u) = Bound(x.dialect, x.params), x.dialect # "postgres" => Rising(Placeholders(u))
      PROVE  Settled(Statement(x, u), x.dialect)
  <2>1. x.params \in Nat
    BY <1>1 DEF Tallied
  <2>2. FitsAt(Statement(x, u), x.params, {})
    BY <1>6, <2>1, StatementIs DEF FitsAt, MarksOf
  <2> QED BY <2>2, StatementIs DEF Settled
<1> QED BY <1>2, <1>3, <1>4, <1>5, <1>6 DEF t

LEMMA BuiltSettled ==
  ASSUME NEW x, NEW s, Chain(s), BindsOK(x, s), ~Excluded(s, x.dialect)
  PROVE  /\ Settled(Built(x), x.dialect) /\ BindsOK(EnsureBuilt(x), s) /\ SameLine(x, EnsureBuilt(x))
<1> DEFINE y == EnsureBuilt(x)
<1>1. /\ x.built # Unbuilt => y = x
      /\ x.built = Unbuilt => y.built[1] = ToSQL(x)
      /\ y.built # Unbuilt /\ DOMAIN y = Fields
      /\ \A f \in Fields \ {"built"} : y[f] = x[f]
  BY EnsureIs DEF BindsOK, Lined, Tallied
<1>2. Settled(ToSQL(x), x.dialect)
  BY CurrentSettled DEF ToSQL, BindsOK
<1> HIDE DEF y
<1>3. Settled(y.built[1], x.dialect)
  BY <1>1, <1>2 DEF BindsOK, Recalls
<1>4. SameLine(x, y)
  <2>1. Tallied(x)
    BY DEF BindsOK, Lined
  <2>2. /\ y.dialect = x.dialect /\ y.text = x.text /\ y.terms = x.terms /\ y.params = x.params /\ y.pivots = x.pivots
        /\ y.tail = x.tail /\ y.tailPred = x.tailPred /\ y.having = x.having
    BY <1>1 DEF Fields
  <2> QED BY <1>1, <2>1, <2>2 DEF SameLine, Tallied
<1>5. Lined(y, s)
  BY <1>4, SameLined DEF BindsOK
<1>6. y.dialect = x.dialect
  BY <1>4 DEF SameLine
<1> QED BY <1>3, <1>4, <1>5, <1>6 DEF Built, BindsOK, Recalls, y

----------------------------------------------------------------------------
(* Calls that change the list, the joins or nothing.                         *)

LEMMA SelfLine ==
  ASSUME NEW x, NEW s, BindsOK(x, s)
  PROVE  SameLine(x, x) /\ DOMAIN x = Fields /\ IsFiniteSet(x.pivots) /\ Marked(x.text) /\ Lined(x, s)
<1>1. Tallied(x) /\ Lined(x, s)
  BY DEF BindsOK, Lined
<1> QED BY <1>1 DEF Tallied, SameLine

LEMMA LineChain ==
  ASSUME NEW x, NEW y, NEW z, SameLine(x, y), SameLine(y, z)
  PROVE  SameLine(x, z)
BY DEF SameLine

\* A call that is not having() leaves what was true before it.
LEMMA CallStays ==
  ASSUME NEW x, NEW s, Chain(s), BindsOK(x, s), NEW name, name # "having"
  PROVE  BindsOK(x, Append(s, name))
BY LineStays DEF BindsOK

LEMMA EditStays ==
  ASSUME NEW x, NEW s, BindsOK(x, s), NEW y, SameLine(x, y), y.built = Unbuilt \/ y.built = x.built
  PROVE  BindsOK(y, s)
<1>1. Lined(y, s)
  BY SameLined DEF BindsOK
<1>2. Recalls(y)
  BY DEF BindsOK, Recalls, SameLine
<1> QED BY <1>1, <1>2 DEF BindsOK

LEMMA ForgetStays ==
  ASSUME NEW x, NEW s, BindsOK(x, s)
  PROVE  BindsOK(Dirty(x), s) /\ SameLine(x, Dirty(x))
<1> DEFINE y == Dirty(x)
<1>1. SameLine(x, x) /\ DOMAIN x = Fields
  BY SelfLine
<1>2. /\ DOMAIN y = Fields /\ y.pivots = x.pivots /\ y.dialect = x.dialect /\ y.terms = x.terms /\ y.params = x.params
      /\ y.tail = x.tail /\ y.tailPred = x.tailPred /\ y.having = x.having /\ y.text = x.text /\ y.built = Unbuilt
  BY <1>1 DEF Dirty, Fields
<1> HIDE DEF y
<1>3. SameLine(x, y)
  BY <1>1, <1>2 DEF SameLine
<1>4. BindsOK(y, s)
  BY <1>2, <1>3, EditStays
<1> QED BY <1>3, <1>4 DEF y

LEMMA HeadStays ==
  ASSUME NEW x, NEW s, BindsOK(x, s), NEW h
  PROVE  LET y == [x EXCEPT !.head = h] IN BindsOK(y, s) /\ BindsOK(Dirty(y), s) /\ SameLine(x, y)
<1> DEFINE y == [x EXCEPT !.head = h]
<1>1. SameLine(x, x) /\ DOMAIN x = Fields
  BY SelfLine
<1>2. /\ DOMAIN y = Fields /\ y.pivots = x.pivots /\ y.dialect = x.dialect /\ y.terms = x.terms /\ y.params = x.params
      /\ y.tail = x.tail /\ y.tailPred = x.tailPred /\ y.having = x.having /\ y.text = x.text /\ y.built = x.built
  BY <1>1 DEF Fields
<1> HIDE DEF y
<1>3. SameLine(x, y)
  BY <1>1, <1>2 DEF SameLine
<1>4. BindsOK(y, s)
  BY <1>2, <1>3, EditStays
<1>5. BindsOK(Dirty(y), s)
  BY <1>4, ForgetStays
<1> QED BY <1>3, <1>4, <1>5 DEF y

LEMMA FieldsLine ==
  ASSUME NEW x, SameLine(x, x), NEW y, DOMAIN y = Fields, y.pivots = x.pivots, y.dialect = x.dialect, y.terms = x.terms,
         y.params = x.params, y.tail = x.tail, y.tailPred = x.tailPred, y.having = x.having, y.text = x.text
  PROVE  SameLine(x, y) /\ SameLine(y, y)
BY DEF SameLine

LEMMA ColumnLine ==
  ASSUME NEW x, SameLine(x, x), NEW col, NEW sub
  PROVE  LET y == AddToSelectClause(x, col, sub) IN SameLine(x, y) /\ SameLine(y, y)
<1> DEFINE h == WithColumn(x.head, col, sub)
           listed == [x EXCEPT !.head = h]
           edited == EnsureBuilt(listed)
           query == edited.built[1]
           more == [query EXCEPT !.head = WithColumn(@, col, sub), !.values = <<>>]
           y == [edited EXCEPT !.built = <<more>>]
<1>1. AddToSelectClause(x, col, sub) = IF x.dialect = "postgres" \/ x.head.cte THEN edited ELSE y
  <2>1. listed = [x EXCEPT !.head = WithColumn(@, col, sub)]
    OBVIOUS
  <2> HIDE DEF listed
  <2> QED BY <2>1 DEF AddToSelectClause
<1>2. DOMAIN x = Fields
  BY DEF SameLine
<1>3. /\ DOMAIN listed = Fields /\ listed.pivots = x.pivots /\ listed.dialect = x.dialect /\ listed.terms = x.terms
      /\ listed.params = x.params /\ listed.tail = x.tail /\ listed.tailPred = x.tailPred /\ listed.having = x.having
      /\ listed.text = x.text
  BY <1>2 DEF Fields
<1> HIDE DEF listed
<1>4. DOMAIN edited = Fields /\ \A f \in Fields \ {"built"} : edited[f] = listed[f]
  BY <1>3, EnsureIs
<1> HIDE DEF edited
<1>5. /\ edited.pivots = x.pivots /\ edited.dialect = x.dialect /\ edited.terms = x.terms
      /\ edited.params = x.params /\ edited.tail = x.tail /\ edited.tailPred = x.tailPred /\ edited.having = x.having
      /\ edited.text = x.text
  BY <1>3, <1>4 DEF Fields
<1> HIDE DEF more
<1>6. /\ DOMAIN y = Fields /\ y.pivots = x.pivots /\ y.dialect = x.dialect /\ y.terms = x.terms
      /\ y.params = x.params /\ y.tail = x.tail /\ y.tailPred = x.tailPred /\ y.having = x.having /\ y.text = x.text
  BY <1>4, <1>5 DEF Fields
<1> HIDE DEF y
<1>7. SameLine(x, edited) /\ SameLine(edited, edited)
  BY <1>4, <1>5, FieldsLine
<1>8. SameLine(x, y) /\ SameLine(y, y)
  BY <1>6, FieldsLine
<1> QED BY <1>1, <1>7, <1>8

\* Where the driver's queries cannot be read, the memo keeps its values.
LEMMA ColumnStays ==
  ASSUME NEW x, NEW s, Chain(s), BindsOK(x, s), ~Excluded(s, x.dialect), x.dialect = "postgres", NEW col, NEW sub
  PROVE  BindsOK(AddToSelectClause(x, col, sub), s)
<1> DEFINE h == WithColumn(x.head, col, sub)
           listed == [x EXCEPT !.head = h]
<1>1. listed = [x EXCEPT !.head = WithColumn(@, col, sub)]
  OBVIOUS
<1>2. BindsOK(listed, s) /\ SameLine(x, listed)
  BY HeadStays
<1> HIDE DEF listed
<1>3. BindsOK(EnsureBuilt(listed), s)
  BY <1>2, BuiltSettled DEF SameLine
<1> QED BY <1>1, <1>3 DEF AddToSelectClause

\* Tokens that say nothing of clauses or values, put ahead of one of the text's.
LEMMA InsertStays ==
  ASSUME NEW x, NEW s, BindsOK(x, s), NEW W, \A t \in W : Bare(t) /\ t.ph \in Seq(PH), NEW w \in Seq(W),
         NEW cut \in 1 .. Len(x.text) + 1,
         NEW y, DOMAIN y = Fields, y.pivots = x.pivots, y.dialect = x.dialect, y.terms = x.terms, y.params = x.params,
         y.tail = x.tail, y.tailPred = x.tailPred, y.having = x.having, y.text = Inserted(x.text, cut, w), y.built = Unbuilt \/ y.built = x.built
  PROVE  SameLine(x, y) /\ BindsOK(y, s)
<1>1. SameLine(x, x) /\ IsFiniteSet(x.pivots) /\ Marked(x.text)
  BY SelfLine
<1>2. PICK S : Holds(S, PH) /\ x.text \in Seq(S)
  BY <1>1 DEF Marked
<1> DEFINE R == S \cup W
           Q == {t \in R : Bare(t)}
<1>3. Holds(R, PH)
  BY <1>2 DEF Holds
<1>4. x.text \in Seq(R) /\ w \in Seq(Q)
  <2>1. S \subseteq R /\ W \subseteq Q
    OBVIOUS
  <2> HIDE DEF R, Q
  <2> QED BY <1>2, <2>1, SeqMonotonic
<1> HIDE DEF R
<1>5. /\ Inserted(x.text, cut, w) \in Seq(R) /\ View(Inserted(x.text, cut, w)) = View(x.text)
      /\ MarksOf(Inserted(x.text, cut, w)) = MarksOf(x.text)
      /\ Rising(Placeholders(x.text)) => Rising(Placeholders(Inserted(x.text, cut, w)))
  BY <1>3, <1>4, BareInsert
<1>6. Marked(y.text)
  BY <1>3, <1>5 DEF Marked
<1>7. SameLine(x, y)
  BY <1>1, <1>5, <1>6 DEF SameLine
<1> QED BY <1>7, EditStays

LEMMA JoinsStay ==
  ASSUME NEW x, NEW s, BindsOK(x, s), NEW W, \A t \in W : Bare(t) /\ t.ph \in Seq(PH), NEW w \in Seq(W)
  PROVE  SameLine(x, AddJoins(x, w)) /\ BindsOK(AddJoins(x, w), s)
<1> DEFINE cut == FirstTopLevel(x.text, JoinCut)
           j == x.joined \cup {w[i].tbl : i \in DOMAIN w}
           z == [x EXCEPT !.text = InsertJoin(x.text, w), !.joined = j]
           y == Dirty(z)
<1>1. DOMAIN x = Fields /\ Marked(x.text)
  BY SelfLine
<1>2. cut \in 1 .. Len(x.text) + 1
  BY <1>1, FirstIs DEF Marked
<1>3. InsertJoin(x.text, w) = Inserted(x.text, cut, w)
  BY DEF InsertJoin, Inserted
<1>4. AddJoins(x, w) = y
  BY DEF AddJoins
<1> HIDE DEF cut, j
<1>5. /\ DOMAIN z = Fields /\ z.pivots = x.pivots /\ z.dialect = x.dialect /\ z.terms = x.terms /\ z.params = x.params
      /\ z.tail = x.tail /\ z.tailPred = x.tailPred /\ z.having = x.having /\ z.text = Inserted(x.text, cut, w) /\ z.built = x.built
  BY <1>1, <1>3 DEF Fields
<1> HIDE DEF z
<1>6. SameLine(x, z) /\ BindsOK(z, s)
  BY <1>2, <1>5, InsertStays
<1>7. BindsOK(y, s) /\ SameLine(z, y)
  BY <1>6, ForgetStays
<1> HIDE DEF y
<1> QED BY <1>4, <1>6, <1>7, LineChain

LEMMA JoinTokensAreBare ==
  /\ <<>> \in Seq(PH)
  /\ \A tbl, on : Bare(JoinToken(tbl, on)) /\ JoinToken(tbl, on).ph = <<>>
<1>1. \A tbl, on : JoinToken(tbl, on).kw = "JOIN" /\ JoinToken(tbl, on).ph = <<>>
  BY DEF JoinToken, Token
<1>2. "JOIN" \notin ReorderKeywords /\ Marks(<<>>) = {} /\ <<>> \in Seq(PH)
  BY Unmarked DEF ReorderKeywords
<1> QED BY <1>1, <1>2 DEF Bare

LEMMA HopStays ==
  ASSUME NEW x, NEW s, BindsOK(x, s), NEW from, NEW r
  PROVE  LET y == AddJoins(x, JoinsOf(from, r)) IN BindsOK(y, s) /\ SameLine(x, y)
<1> DEFINE one == JoinToken(r.pivot, from)
           two == JoinToken(r.target, r.pivot)
           only == JoinToken(r.target, from)
           w == JoinsOf(from, r)
           W == {one, two, only}
<1>1. w = <<one, two>> \/ w = <<only>>
  BY DEF JoinsOf
<1>2. \A t \in W : Bare(t) /\ t.ph \in Seq(PH)
  BY JoinTokensAreBare
<1> HIDE DEF one, two, only
<1>3. <<one, two>> \in Seq(W) /\ <<only>> \in Seq(W)
  OBVIOUS
<1> HIDE DEF W, w
<1>4. w \in Seq(W)
  BY <1>1, <1>3
<1>5. BindsOK(AddJoins(x, w), s) /\ SameLine(x, AddJoins(x, w))
  BY <1>2, <1>4, JoinsStay
<1> QED BY <1>5 DEF w

LEMMA HopsStay ==
  ASSUME NEW x, NEW s, BindsOK(x, s), NEW y, Hops(y, x)
  PROVE  BindsOK(y, s) /\ SameLine(x, y)
<1>1. ASSUME NEW u, NEW v, BindsOK(u, s), OneHop(v, u) PROVE BindsOK(v, s) /\ SameLine(u, v)
  <2>1. SameLine(u, u)
    BY <1>1, SelfLine
  <2>2. CASE v = u
    BY <1>1, <2>1, <2>2
  <2>3. CASE \E from, r : v = AddJoins(u, JoinsOf(from, r))
    BY <1>1, <2>3, HopStays
  <2> QED BY <1>1, <2>2, <2>3 DEF OneHop
<1>2. PICK z : OneHop(z, x) /\ OneHop(y, z)
  BY DEF Hops
<1>3. BindsOK(z, s) /\ SameLine(x, z)
  BY <1>1, <1>2
<1>4. BindsOK(y, s) /\ SameLine(z, y)
  BY <1>1, <1>2, <1>3
<1> QED BY <1>3, <1>4, LineChain

LEMMA PivotsStay ==
  ASSUME NEW x, NEW s, Chain(s), BindsOK(x, s), ~Excluded(s, x.dialect)
  PROVE  LET y == ApplyPivotColumns(x)
         IN  SameLine(x, y) /\ SameLine(y, y) /\ (x.dialect = "postgres" => BindsOK(y, s))
<1> DEFINE names == SetToSeq(x.pivots)
           N == Len(names)
<1>1. IsFiniteSet(x.pivots) /\ SameLine(x, x)
  BY SelfLine
<1>2. PICK g : ColumnTrace(g, x)
  BY <1>1, PivotColumnsAreTraced
<1>3. /\ g[0] = x /\ \A n \in 1 .. N : g[n] = AddToSelectClause(g[n - 1], PivotTable(names[n]), FALSE)
      /\ ApplyPivotColumns(x) = g[N]
  BY <1>2 DEF ColumnTrace
<1>4. N \in Nat
  BY <1>1, NamesAre
<1> HIDE DEF N, names
<1> DEFINE Good(y) == SameLine(x, y) /\ SameLine(y, y) /\ (x.dialect = "postgres" => BindsOK(y, s))
           S == {n \in 0 .. N : Good(g[n])}
<1>5. 0 \in S
  <2>1. 0 \in 0 .. N
    BY <1>4
  <2> QED BY <1>1, <1>3, <2>1
<1>6. ASSUME NEW n \in 0 .. N - 1, n \in S PROVE n + 1 \in S
  <2>1. n + 1 \in 1 .. N /\ n + 1 \in 0 .. N /\ n + 1 - 1 = n
    BY <1>4
  <2> DEFINE next == n + 1
             col == PivotTable(names[next])
             y == AddToSelectClause(g[n], col, FALSE)
  <2>2. g[n + 1] = y
    <3>1. next \in 1 .. N /\ next - 1 = n /\ g[next] = g[n + 1]
      BY <2>1
    <3> HIDE DEF next
    <3>2. g[next] = AddToSelectClause(g[next - 1], PivotTable(names[next]), FALSE)
      BY <1>3, <3>1, Zenon
    <3> QED BY <3>1, <3>2
  <2> HIDE DEF col, next
  <2>3. Good(g[n])
    BY <1>6
  <2> DEFINE was == g[n]
  <2>4. was.dialect = x.dialect
    BY <2>3 DEF SameLine
  <2> HIDE DEF was
  <2>5. SameLine(was, y) /\ SameLine(y, y)
    BY <2>3, ColumnLine DEF was
  <2>6. x.dialect = "postgres" => BindsOK(y, s)
    BY <2>3, <2>4, ColumnStays DEF was
  <2> HIDE DEF y
  <2>7. SameLine(x, y)
    BY <2>3, <2>5, LineChain DEF was
  <2> QED BY <2>1, <2>2, <2>5, <2>6, <2>7
<1>7. N \in S
  <2> HIDE DEF S
  <2>1. 0 .. N \subseteq S
    BY <1>4, <1>5, <1>6, CountingUp
  <2>2. N \in 0 .. N
    BY <1>4
  <2> QED BY <2>1, <2>2
<1> QED BY <1>3, <1>7

LEMMA WithStays ==
  ASSUME NEW x, NEW s, Chain(s), BindsOK(x, s), ~Excluded(s, x.dialect), NEW path, Len(path) \in {1, 2}
  PROVE  LET y == With(x, <<path>>).b IN BindsOK(y, s) /\ SameLine(x, y)
<1>1. PICK y : Hops(y, x) /\ With(x, <<path>>).b \in {y, Dirty(ApplyPivotColumns(y))}
  BY WithIs
<1>2. BindsOK(y, s) /\ SameLine(x, y)
  BY <1>1, HopsStay
<1> DEFINE z == ApplyPivotColumns(y)
           w == Dirty(z)
<1>3. SameLine(y, z) /\ SameLine(z, z)
  <2>1. y.dialect = x.dialect
    BY <1>2 DEF SameLine
  <2> HIDE DEF z
  <2> QED BY <1>2, <2>1, PivotsStay DEF z
<1> HIDE DEF z
<1>4. DOMAIN z = Fields
  BY <1>3 DEF SameLine
<1>5. /\ DOMAIN w = Fields /\ w.pivots = z.pivots /\ w.dialect = z.dialect /\ w.terms = z.terms
      /\ w.params = z.params /\ w.tail = z.tail /\ w.tailPred = z.tailPred /\ w.having = z.having /\ w.text = z.text
      /\ w.built = Unbuilt
  BY <1>4 DEF Dirty, Fields
<1> HIDE DEF w
<1>6. SameLine(z, w)
  BY <1>3, <1>5, FieldsLine
<1>7. SameLine(y, w)
  BY <1>3, <1>6, LineChain
<1>8. BindsOK(w, s)
  BY <1>2, <1>5, <1>7, EditStays
<1>9. SameLine(x, w)
  BY <1>2, <1>7, LineChain
<1> QED BY <1>1, <1>2, <1>8, <1>9 DEF w, z

LEMMA PivotStays ==
  ASSUME NEW x, NEW s, Chain(s), BindsOK(x, s), ~Excluded(s, x.dialect), x.dialect = "postgres", NEW name
  PROVE  BindsOK(WithPivot(x, name), s) /\ SameLine(x, WithPivot(x, name))
<1> DEFINE y == [x EXCEPT !.pivots = @ \cup {name}]
<1>1. DOMAIN x = Fields /\ IsFiniteSet(x.pivots) /\ SameLine(x, x)
  BY SelfLine
<1>2. /\ DOMAIN y = Fields /\ y.pivots = x.pivots \cup {name} /\ y.dialect = x.dialect /\ y.terms = x.terms
      /\ y.params = x.params /\ y.tail = x.tail /\ y.tailPred = x.tailPred /\ y.having = x.having /\ y.text = x.text
      /\ y.built = x.built
  BY <1>1 DEF Fields
<1> HIDE DEF y
<1>3. IsFiniteSet(y.pivots)
  BY <1>1, <1>2, FS_AddElement
<1>4. SameLine(x, y)
  BY <1>1, <1>2, <1>3 DEF SameLine
<1>5. BindsOK(y, s)
  BY <1>2, <1>4, EditStays
<1>6. BindsOK(ApplyPivotColumns(y), s) /\ SameLine(y, ApplyPivotColumns(y))
  BY <1>2, <1>5, PivotsStay
<1>7. SameLine(x, ApplyPivotColumns(y))
  BY <1>4, <1>6, LineChain
<1> QED BY <1>6, <1>7 DEF WithPivot, y

LEMMA CTEStays ==
  ASSUME NEW x, NEW s, BindsOK(x, s), NEW words, NEW k \in Nat
  PROVE  BindsOK(WithCTE(x, words, k), s) /\ SameLine(x, WithCTE(x, words, k))
<1> DEFINE t == [Token("CTE") EXCEPT !.inner = words, !.ph = LostPlaceholders(x, k)]
           w == <<t>>
           h == [[x.head EXCEPT !.cte = TRUE] EXCEPT !.inner = TRUE]
           z == [x EXCEPT !.text = w \o x.text, !.head = h]
           y == Dirty(z)
<1>1. DOMAIN x = Fields /\ Marked(x.text)
  BY SelfLine
<1>2. t.kw = "CTE" /\ t.ph = LostPlaceholders(x, k)
  BY DEF Token
<1>3. Bare(t) /\ t.ph \in Seq(PH)
  <2>1. "CTE" \notin ReorderKeywords
    BY DEF ReorderKeywords
  <2> QED BY <1>2, <2>1, PlaceholdersLost DEF Bare
<1>4. WithCTE(x, words, k) = y
  BY DEF WithCTE
<1> HIDE DEF t, h
<1>5. /\ DOMAIN z = Fields /\ z.pivots = x.pivots /\ z.dialect = x.dialect /\ z.terms = x.terms /\ z.params = x.params
      /\ z.tail = x.tail /\ z.tailPred = x.tailPred /\ z.having = x.having /\ z.text = w \o x.text /\ z.built = x.built
  BY <1>1 DEF Fields
<1>6. 1 \in 1 .. Len(x.text) + 1 /\ w \o x.text = Inserted(x.text, 1, w) /\ w \in Seq({t})
  <2>1. PICK S : x.text \in Seq(S)
    BY <1>1 DEF Marked
  <2>2. w \in Seq({t})
    OBVIOUS
  <2>3. SubSeq(x.text, 1, 0) = <<>> /\ SubSeq(x.text, 1, Len(x.text)) = x.text /\ Len(x.text) \in Nat
    BY <2>1, Beginnings
  <2> HIDE DEF w
  <2>4. <<>> \o w = w
    BY <2>2
  <2> QED BY <2>2, <2>3, <2>4 DEF Inserted
<1> HIDE DEF z, w
<1>7. \A u \in {t} : Bare(u) /\ u.ph \in Seq(PH)
  BY <1>3
<1>8. SameLine(x, z) /\ BindsOK(z, s)
  BY <1>5, <1>6, <1>7, InsertStays
<1>9. BindsOK(y, s) /\ SameLine(z, y)
  BY <1>8, ForgetStays
<1> HIDE DEF y
<1> QED BY <1>4, <1>8, <1>9, LineChain

LEMMA PivotJoinStays ==
  ASSUME NEW x, NEW s, Chain(s), BindsOK(x, s), ~Excluded(s, x.dialect), NEW name
  PROVE  BindsOK(EnsurePivotJoined(x, name), s) /\ SameLine(x, EnsurePivotJoined(x, name))
<1> DEFINE t == JoinToken(PivotTable(name), Root)
           w == <<t>>
           e == EnsureBuilt(x)
           j == e.joined \cup {PivotTable(name)}
           y == [e EXCEPT !.text = Append(e.text, t), !.joined = j]
<1>1. SameLine(x, x)
  BY SelfLine
<1>2. BindsOK(e, s) /\ SameLine(x, e)
  BY BuiltSettled
<1>3. EnsurePivotJoined(x, name) \in {x, y}
  BY DEF EnsurePivotJoined
<1> HIDE DEF e, j
<1>4. DOMAIN e = Fields /\ Marked(e.text)
  BY <1>2, SelfLine
<1>5. /\ DOMAIN y = Fields /\ y.pivots = e.pivots /\ y.dialect = e.dialect /\ y.terms = e.terms /\ y.params = e.params
      /\ y.tail = e.tail /\ y.tailPred = e.tailPred /\ y.having = e.having /\ y.text = Append(e.text, t) /\ y.built = e.built
  BY <1>4 DEF Fields
<1> HIDE DEF y
<1>6. Bare(t) /\ t.ph \in Seq(PH)
  BY JoinTokensAreBare
<1> HIDE DEF t
<1>7. \A u \in {t} : Bare(u) /\ u.ph \in Seq(PH)
  BY <1>6
<1> DEFINE cut == Len(e.text) + 1
<1>8. cut \in 1 .. Len(e.text) + 1 /\ Append(e.text, t) = Inserted(e.text, cut, w) /\ w \in Seq({t})
  <2>1. PICK S : e.text \in Seq(S)
    BY <1>4 DEF Marked
  <2> DEFINE text == e.text
             R == S \cup {t}
  <2>2. text \in Seq(R) /\ t \in R /\ w \in Seq({t}) /\ w \in Seq(R)
    BY <2>1
  <2> HIDE DEF R, text, w
  <2>3. SubSeq(text, 1, Len(text)) = text /\ Len(text) \in Nat
    BY <2>2, Beginnings
  <2>4. SubSeq(text, Len(text) + 1, Len(text)) = <<>> /\ Len(text) + 1 - 1 = Len(text)
    BY <2>2, <2>3
  <2>5. (text \o w) \o <<>> = text \o w
    BY <2>2
  <2>6. text \o w = Append(text, t)
    BY <2>2, AppendIsConcat DEF w
  <2>7. Len(text) + 1 \in 1 .. Len(text) + 1
    BY <2>3
  <2>8. Inserted(text, Len(text) + 1, w) = text \o w
    <3>1. SubSeq(text, 1, Len(text) + 1 - 1) = text
      BY <2>3, <2>4
    <3>2. Inserted(text, Len(text) + 1, w) = SubSeq(text, 1, Len(text) + 1 - 1) \o w \o SubSeq(text, Len(text) + 1, Len(text))
      BY DEF Inserted
    <3>3. Inserted(text, Len(text) + 1, w) = text \o w \o <<>>
      BY <2>4, <3>1, <3>2
    <3> QED BY <2>5, <3>3
  <2> QED BY <2>2, <2>6, <2>7, <2>8 DEF text
<1> HIDE DEF cut, w
<1>9. BindsOK(y, s) /\ SameLine(e, y)
  <2>1. y.text = Inserted(e.text, cut, w)
    BY <1>5, <1>8
  <2> QED BY <1>2, <1>5, <1>7, <1>8, <2>1, InsertStays
<1>10. SameLine(x, y)
  BY <1>2, <1>9, LineChain
<1> QED BY <1>1, <1>3, <1>9, <1>10

----------------------------------------------------------------------------
(* Calls that put something behind the conditions or behind the text.        *)

\* What a condition that binds values needs of the calls before it.
MayBind(x, s) ==
  x.dialect # "postgres" => ~Said(s, {"having"}) /\ (x.tail = TRUE => After(s, {"setOp"}, Conditions))

LEMMA PushStays ==
  ASSUME NEW x, NEW s, BindsOK(x, s), NEW t, NEW k \in Nat, t.ph \in Seq(PH), Rising(t.ph),
         Marks(t.ph) = NextMarks(x.dialect, x.params, k), k = 0 \/ MayBind(x, s)
  PROVE  LET y == PushWhere(x, t, k) IN BindsOK(y, s) /\ y.dialect = x.dialect
<1> DEFINE n == x.atoms + Cardinality(t.atoms)
           z == [x EXCEPT !.terms = Append(x.terms, t), !.params = x.params + k, !.atoms = n]
           y == Dirty(z)
           v == View(x.text)
           M == NextMarks(x.dialect, x.params, k)
<1>1. Tallied(x) /\ DOMAIN x = Fields /\ Droppable(v, s) /\ (x.dialect # "postgres" => InLine(x, v, s))
  BY DEF BindsOK, Lined, Tallied
<1>2. PushWhere(x, t, k) = y
  BY DEF PushWhere
<1> HIDE DEF n
<1>3. /\ DOMAIN y = Fields /\ y.pivots = x.pivots /\ y.dialect = x.dialect /\ y.terms = Append(x.terms, t) /\ y.params = x.params + k
      /\ y.tail = x.tail /\ y.tailPred = x.tailPred /\ y.having = x.having /\ y.text = x.text /\ y.built = Unbuilt
  BY <1>1 DEF Dirty, Fields
<1> HIDE DEF y, z, v
<1>4. x.params \in Nat /\ Marked(x.text) /\ Marked(x.terms) /\ MarksOf(x.text) \cup MarksOf(x.terms) = Bound(x.dialect, x.params)
  BY <1>1 DEF Tallied
<1>5. PICK S : Holds(S, PH) /\ x.terms \in Seq(S) /\ t \in S
  BY <1>4, MarkedWith
<1>6. /\ MarksOf(y.terms) = MarksOf(x.terms) \cup M /\ y.terms \in Seq(S)
      /\ Rising(Placeholders(y.terms)) <=> (Rising(Placeholders(x.terms)) /\ Lead(MarksOf(x.terms), M))
  BY <1>3, <1>5, OneMore
<1>7. /\ Bound(x.dialect, x.params + k) = Bound(x.dialect, x.params) \cup M
      /\ Lead(Bound(x.dialect, x.params), M) /\ (k = 0 => M = {})
  BY <1>4, GivenMore
<1> HIDE DEF M
<1>8. Lead(MarksOf(x.terms), M) /\ Lead(MarksOf(x.text), M)
  BY <1>4, <1>7 DEF Lead
<1>9. Tallied(y)
  <2>1. y.params \in Nat /\ Marked(y.terms)
    BY <1>3, <1>4, <1>5, <1>6 DEF Marked
  <2>2. MarksOf(y.text) \cup MarksOf(y.terms) = Bound(y.dialect, y.params)
    BY <1>3, <1>4, <1>6, <1>7
  <2> QED BY <1>1, <1>3, <2>1, <2>2 DEF Tallied
<1>10. ASSUME x.dialect # "postgres" PROVE InLine(y, v, s)
  <2>1. InLine(x, v, s)
    BY <1>1, <1>10
  <2>2. Rising(Placeholders(y.terms))
    BY <1>6, <1>8, <2>1 DEF InLine
  <2>3. x.tail # TRUE => Lead(MarksOf(y.terms), MarksOf(x.text))
    <3>1. ASSUME x.tail # TRUE, M # {} PROVE MarksOf(x.text) = {}
      <4>1. ~Said(s, {"having"})
        BY <1>7, <1>10, <3>1 DEF MayBind
      <4>2. \A key \in FragmentKeys : key = "WHERE" \/ v.marks[key] = {}
        BY <2>1, <4>1 DEF InLine
      <4>3. "WHERE" \notin v.words
        BY <1>1, <3>1 DEF Tallied, v
      <4>4. PICK R : Holds(R, PH) /\ x.text \in Seq(R)
        BY <1>4 DEF Marked
      <4>5. v.marks["WHERE"] = {}
        BY <4>3, <4>4, KeyIsSaid, KeysAre DEF v
      <4>6. MarksOf(x.text) = UNION {v.marks[key] : key \in FragmentKeys}
        BY <4>4, MarksAreThere DEF v
      <4> QED BY <4>2, <4>5, <4>6
    <3>2. x.tail # TRUE => Lead(MarksOf(x.terms), MarksOf(x.text))
      BY <2>1 DEF InLine
    <3> QED BY <1>6, <3>1, <3>2, Unmarked
  <2>4. x.tail = TRUE => Lead(MarksOf(x.text), MarksOf(y.terms)) /\ Said(s, {"setOp"})
    <3>1. x.tail = TRUE => Lead(MarksOf(x.text), MarksOf(x.terms)) /\ Said(s, {"setOp"})
      BY <2>1 DEF InLine
    <3> QED BY <1>6, <1>8, <3>1 DEF Lead
  <2>5. (x.tail = TRUE /\ ~After(s, {"setOp"}, Conditions)) => MarksOf(y.terms) = {}
    <3>1. (x.tail = TRUE /\ ~After(s, {"setOp"}, Conditions)) => MarksOf(x.terms) = {}
      BY <2>1 DEF InLine
    <3>2. (x.tail = TRUE /\ ~After(s, {"setOp"}, Conditions)) => M = {}
      BY <1>7, <1>10 DEF MayBind
    <3> QED BY <1>6, <3>1, <3>2
  <2> QED BY <1>3, <2>1, <2>2, <2>3, <2>4, <2>5 DEF InLine
<1>11. Lined(y, s)
  BY <1>1, <1>3, <1>9, <1>10 DEF Lined, v
<1> QED BY <1>2, <1>3, <1>11 DEF BindsOK, Recalls, y

\* What a call must leave behind at the chain s.
Stays(x, y, s) == BindsOK(y, s) /\ y.dialect = x.dialect

\* What a clause of this name needs of the calls, its own the last of them.
Trails(x, s, name) ==
  /\ name \in LateTrailing /\ Said(s, {name})
  /\ x.dialect # "postgres" => /\ x.tail = TRUE => After(s, {"setOp"}, Trailing)
                               /\ Said(s, {"having"}) => After(s, {"having"}, LateTrailing)
  /\ name = "reorder" => View(x.text).rest = {}

\* A text that lost nothing but clauses without values at its end.
Clipped(u, text) ==
  /\ Marked(u) /\ View(u).marks = View(text).marks /\ View(u).words \subseteq View(text).words
  /\ View(text).rest = {} => View(u).rest = {}
  /\ MarksOf(u) = MarksOf(text)
  /\ Rising(Placeholders(text)) => Rising(Placeholders(u))

\* A clause without values at the end, or in the place of the ORDER BY and all behind it.
LEMMA ClauseStays ==
  ASSUME NEW x, NEW s, NEW name, BindsOK(x, s), Trails(x, s, name), NEW u, Clipped(u, x.text),
         NEW t, t.ph = <<>>, t.kw # "WHERE", View(u).key = View(x.text).key \/ t.kw \in ReorderKeywords,
         t.kw = "ORDER_BY" => name \in Orders
  PROVE  Stays(x, Dirty([x EXCEPT !.text = Append(u, t)]), s)
<1> DEFINE y == Dirty([x EXCEPT !.text = Append(u, t)])
           v == View(x.text)
           w == View(u)
           n == View(Append(u, t))
<1>0. /\ Marked(u) /\ View(u).marks = View(x.text).marks /\ View(u).words \subseteq View(x.text).words
      /\ View(x.text).rest = {} => View(u).rest = {}
      /\ MarksOf(u) = MarksOf(x.text)
      /\ Rising(Placeholders(x.text)) => Rising(Placeholders(u))
      /\ x.dialect # "postgres" => /\ x.tail = TRUE => After(s, {"setOp"}, Trailing)
                                   /\ Said(s, {"having"}) => After(s, {"having"}, LateTrailing)
      /\ t.kw = "ORDER_BY" => Said(s, Orders)
  BY DEF Clipped, Trails, Said
<1>1. Tallied(x) /\ DOMAIN x = Fields /\ Droppable(v, s) /\ (x.dialect # "postgres" => InLine(x, v, s))
  BY DEF BindsOK, Lined, Tallied
<1>2. /\ DOMAIN y = Fields /\ y.pivots = x.pivots /\ y.dialect = x.dialect /\ y.terms = x.terms /\ y.params = x.params
      /\ y.tail = x.tail /\ y.tailPred = x.tailPred /\ y.having = x.having /\ y.text = Append(u, t) /\ y.built = Unbuilt
  BY <1>1 DEF Dirty, Fields
<1> HIDE DEF y
<1>3. Marks(t.ph) = {} /\ Rising(t.ph) /\ t.ph \in Seq(PH) /\ Lead(MarksOf(u), Marks(t.ph))
  BY Unmarked
<1>4. PICK S : Holds(S, PH) /\ u \in Seq(S) /\ t \in S
  BY <1>0, <1>3, MarkedWith
<1>5. /\ MarksOf(Append(u, t)) = MarksOf(x.text) /\ Append(u, t) \in Seq(S)
      /\ Rising(Placeholders(x.text)) => Rising(Placeholders(Append(u, t)))
  <2>1. /\ MarksOf(Append(u, t)) = MarksOf(u) \cup Marks(t.ph) /\ Append(u, t) \in Seq(S)
        /\ Rising(Placeholders(Append(u, t))) <=> (Rising(Placeholders(u)) /\ Rising(t.ph) /\ Lead(MarksOf(u), Marks(t.ph)))
    BY <1>4, OneMore
  <2> QED BY <1>0, <1>3, <2>1
<1>6. n = Seen(w, t.kw, {})
  BY <1>3, <1>4, ViewGrows
<1> HIDE DEF n
<1>7. n.marks = v.marks
  <2>1. n.marks = [k \in FragmentKeys |-> w.marks[k]]
    BY <1>6 DEF Seen
  <2>2. w.marks = [k \in FragmentKeys |-> w.marks[k]]
    BY DEF View
  <2> QED BY <1>0, <2>1, <2>2
<1>8. n.words \subseteq v.words \cup {t.kw} /\ (w.rest = {} => n.rest = {}) /\ n.key = KeyNow(w, t.kw)
  BY <1>0, <1>6 DEF Seen, WordsNow
<1>9. v.key # BaseText => n.key # BaseText
  BY <1>8, KeysAre DEF KeyNow
<1>10. Tallied(y)
  <2>1. Marked(y.text)
    BY <1>2, <1>4, <1>5 DEF Marked
  <2>2. x.tail # TRUE => "WHERE" \notin View(y.text).words
    BY <1>1, <1>2, <1>8 DEF Tallied, n, v
  <2> QED BY <1>1, <1>2, <1>5, <2>1, <2>2 DEF Tallied
<1>11. Droppable(n, s)
  BY <1>0, <1>1, <1>8 DEF Droppable
<1>12. ASSUME x.dialect # "postgres" PROVE InLine(y, n, s)
  <2>1. InLine(x, v, s)
    BY <1>1, <1>12
  <2> HIDE DEF v, w
  <2>2. Sorted(n)
    BY <1>7, <2>1 DEF InLine, Sorted
  <2>3. Rising(Placeholders(y.text)) /\ Rising(Placeholders(y.terms)) /\ n.marks[BaseText] = {}
    BY <1>2, <1>5, <1>7, <2>1 DEF InLine
  <2>4. ~Said(s, {"having"}) => \A k \in FragmentKeys : k = "WHERE" \/ n.marks[k] = {}
    BY <1>7, <2>1 DEF InLine
  <2>5. (x.having = TRUE \/ (x.tail = TRUE /\ x.tailPred = TRUE)) => n.key # BaseText
    BY <1>9, <2>1 DEF InLine
  <2>6. MarksOf(y.text) = MarksOf(x.text)
    BY <1>2, <1>5
  <2>7. /\ x.tail = TRUE => After(s, {"setOp"}, Trailing)
        /\ Said(s, {"having"}) => After(s, {"having"}, LateTrailing)
    BY <1>0, <1>12
  <2> QED BY <1>2, <2>1, <2>2, <2>3, <2>4, <2>5, <2>6, <2>7 DEF InLine
<1>13. Lined(y, s)
  BY <1>2, <1>10, <1>11, <1>12 DEF Lined, n
<1> QED BY <1>2, <1>13 DEF BindsOK, Recalls, Stays, y

\* having() and havingRaw(): their values are given now, behind all the text.
LEMMA HavingStays ==
  ASSUME NEW x, NEW s, Chain(s), BindsOK(x, s), NEW name \in {"having", "havingRaw"}, ~Excluded(Append(s, name), x.dialect),
         NEW k \in Nat, name = "havingRaw" => k = 0
  PROVE  LET y == Having(x, k) IN BindsOK(y, Append(s, name)) /\ y.dialect = x.dialect
<1> DEFINE m == Append(s, name)
           t == [Token(IF x.having THEN "AND" ELSE "HAVING") EXCEPT !.of = "HAVING", !.ph = GetPlaceholders(x, k)]
           z == [x EXCEPT !.text = Append(x.text, t), !.having = TRUE, !.params = x.params + k]
           y == Dirty(z)
           v == View(x.text)
           n == View(Append(x.text, t))
           M == NextMarks(x.dialect, x.params, k)
<1>1. Tallied(x) /\ DOMAIN x = Fields /\ Droppable(v, s) /\ (x.dialect # "postgres" => InLine(x, v, s))
  BY DEF BindsOK, Lined, Tallied
<1>2. Having(x, k) = y
  BY DEF Having
<1>3. t.kw = (IF x.having = TRUE THEN "AND" ELSE "HAVING") /\ t.ph = GetPlaceholders(x, k)
  <2>1. t.kw = IF x.having THEN "AND" ELSE "HAVING"
    BY DEF Token
  <2>2. x.having \in BOOLEAN
    BY <1>1 DEF Tallied
  <2>3. t.ph = GetPlaceholders(x, k)
    BY DEF Token
  <2> HIDE DEF t
  <2>4. CASE x.having = TRUE
    BY <2>1, <2>3, <2>4
  <2>5. CASE x.having # TRUE
    BY <2>1, <2>2, <2>3, <2>5
  <2> QED BY <2>4, <2>5
<1> HIDE DEF t
<1>4. /\ DOMAIN y = Fields /\ y.pivots = x.pivots /\ y.dialect = x.dialect /\ y.terms = x.terms /\ y.params = x.params + k
      /\ y.tail = x.tail /\ y.tailPred = x.tailPred /\ y.having = TRUE /\ y.text = Append(x.text, t) /\ y.built = Unbuilt
  BY <1>1 DEF Dirty, Fields
<1> HIDE DEF y, z
<1>5. x.params \in Nat /\ Marked(x.text) /\ Marked(x.terms) /\ MarksOf(x.text) \cup MarksOf(x.terms) = Bound(x.dialect, x.params)
  BY <1>1 DEF Tallied
<1>6. Marks(t.ph) = M /\ Rising(t.ph) /\ t.ph \in Seq(PH)
  BY <1>3, <1>5, PlaceholdersGiven
<1>7. /\ Bound(x.dialect, x.params + k) = Bound(x.dialect, x.params) \cup M
      /\ Lead(Bound(x.dialect, x.params), M) /\ (k = 0 => M = {})
  BY <1>5, GivenMore
<1> HIDE DEF M
<1>8. Lead(MarksOf(x.terms), M) /\ Lead(MarksOf(x.text), M)
  BY <1>5, <1>7 DEF Lead
<1>9. PICK S : Holds(S, PH) /\ x.text \in Seq(S) /\ t \in S
  BY <1>5, <1>6, MarkedWith
<1>10. /\ MarksOf(y.text) = MarksOf(x.text) \cup M /\ y.text \in Seq(S)
       /\ Rising(Placeholders(x.text)) => Rising(Placeholders(y.text))
  <2>1. /\ MarksOf(Append(x.text, t)) = MarksOf(x.text) \cup Marks(t.ph) /\ Append(x.text, t) \in Seq(S)
        /\ Rising(Placeholders(Append(x.text, t))) <=> (Rising(Placeholders(x.text)) /\ Rising(t.ph) /\ Lead(MarksOf(x.text), Marks(t.ph)))
    BY <1>9, OneMore
  <2> QED BY <1>4, <1>6, <1>8, <2>1
<1>11. n = Seen(v, t.kw, M) /\ v.key \in FragmentKeys
  BY <1>6, <1>9, ViewGrows, MarksAreThere
<1> DEFINE key == KeyNow(v, t.kw)
<1>12. n.key = key /\ n.rest = IF "ORDER_BY" \in n.words THEN v.rest \cup M ELSE {}
  BY <1>11 DEF Seen
<1>13. n.words \subseteq v.words \cup {"HAVING"} /\ \A j \in FragmentKeys : n.marks[j] = IF j = key THEN v.marks[j] \cup M ELSE v.marks[j]
  <2>1. t.kw \in ReorderKeywords => t.kw = "HAVING"
    BY <1>3, KeysAre
  <2> QED BY <1>11, <2>1 DEF Seen, WordsNow
<1>14. key = (IF x.having = TRUE THEN v.key ELSE "HAVING") /\ key \in FragmentKeys
  <2>1. "HAVING" \in ReorderKeywords /\ "AND" \notin ReorderKeywords /\ "HAVING" \in FragmentKeys
    BY KeysAre DEF FragmentKeys, ReorderKeywords
  <2> QED BY <1>3, <1>11, <2>1 DEF KeyNow
<1> HIDE DEF n, v, key
<1>15. /\ Chain(m) /\ (name = "having" => Said(m, {"having"}) /\ (x.dialect # "postgres" => ~After(s, {"having"}, LateTrailing)))
       /\ \A names : Said(m, names) <=> (Said(s, names) \/ name \in names)
       /\ \A first, then : After(m, first, then) <=> (After(s, first, then) \/ (Said(s, first) /\ name \in then))
  BY SaidMore, Included
<1>16. ~Excluded(m, x.dialect)
  OBVIOUS
<1> HIDE DEF m
<1>17. name \in Trailing /\ name \notin LateTrailing /\ name \notin Orders /\ name # "setOp"
  BY DEF Trailing, LateTrailing, Orders
<1>18. Tallied(y)
  <2>1. Marked(y.text)
    BY <1>9, <1>10 DEF Marked
  <2>2. x.tail # TRUE => "WHERE" \notin View(y.text).words
    <3>1. View(y.text) = n
      BY <1>4 DEF n
    <3> QED BY <1>1, <1>13, <3>1 DEF Tallied, v
  <2>3. MarksOf(y.text) \cup MarksOf(y.terms) = Bound(y.dialect, y.params) /\ y.params \in Nat
    BY <1>4, <1>5, <1>7, <1>10
  <2> QED BY <1>1, <1>4, <2>1, <2>2, <2>3 DEF Tallied
<1>19. Droppable(n, m)
  <2>1. ~Said(s, Orders) => "ORDER_BY" \notin n.words
    BY <1>1, <1>13 DEF Droppable
  <2>2. CASE name = "having"
    <3>1. ~After(m, Orders, {"having", "setOp"}) => n.rest = {}
      BY <1>12, <1>15, <2>1, <2>2
    <3> QED BY <1>15, <2>1, <3>1 DEF Droppable
  <2>3. CASE name = "havingRaw"
    <3>1. M = {} /\ (~After(m, Orders, {"having", "setOp"}) => v.rest = {})
      BY <1>1, <1>7, <1>15, <2>3 DEF Droppable
    <3> QED BY <1>12, <1>15, <2>1, <3>1 DEF Droppable
  <2> QED BY <2>2, <2>3
<1>20. ASSUME x.dialect # "postgres" PROVE InLine(y, n, m)
  <2>1. InLine(x, v, s)
    BY <1>1, <1>20
  <2>2. M = {} \/ \A j \in FragmentKeys : Place(key) < Place(j) => v.marks[j] = {}
    <3> SUFFICES ASSUME name = "having", NEW j \in FragmentKeys, Place(key) < Place(j) PROVE v.marks[j] = {}
      BY <1>7
    <3>1. ~After(s, {"having"}, LateTrailing)
      BY <1>15, <1>20
    <3>2. CASE Said(s, {"having"})
      <4>1. x.having = TRUE /\ key = v.key
        BY <1>14, <2>1, <3>2 DEF InLine
      <4> QED BY <2>1, <3>1, <3>2, <4>1 DEF InLine
    <3>3. CASE ~Said(s, {"having"})
      <4>1. key # BaseText
        BY <1>14, <2>1, KeysAre DEF InLine
      <4>2. j # "WHERE"
        BY <1>14, <4>1, PlacesAre
      <4> QED BY <2>1, <3>3, <4>2 DEF InLine
    <3> QED BY <3>2, <3>3
  <2>3. key # BaseText
    BY <1>14, <2>1, KeysAre DEF InLine
  <2>4. Sorted(n)
    <3>1. \A j \in FragmentKeys : v.marks[j] \subseteq MarksOf(x.text)
      BY <1>9, MarksAreThere DEF v
    <3> QED BY <1>8, <1>11, <2>1, <2>2, <3>1, SortedMore DEF InLine, key
  <2>5. n.marks[BaseText] = {} /\ n.key # BaseText
    BY <1>12, <1>13, <2>1, <2>3 DEF InLine, FragmentKeys
  <2>6. ~Said(m, {"having"}) => \A j \in FragmentKeys : j = "WHERE" \/ n.marks[j] = {}
    BY <1>7, <1>13, <1>15, <2>1 DEF InLine
  <2>7. x.tail # TRUE => Lead(MarksOf(x.terms), MarksOf(y.text))
    <3>1. x.tail # TRUE => Lead(MarksOf(x.terms), MarksOf(x.text))
      BY <2>1 DEF InLine
    <3> QED BY <1>8, <1>10, <3>1 DEF Lead
  <2>8. x.tail = TRUE => Lead(MarksOf(y.text), MarksOf(x.terms))
    <3>1. x.tail = TRUE => Lead(MarksOf(x.text), MarksOf(x.terms))
      BY <2>1 DEF InLine
    <3>2. (x.tail = TRUE /\ name = "having") => MarksOf(x.terms) = {}
      <4>1. name = "having" => ~After(m, {"setOp"}, Conditions)
        BY <1>15, <1>16, <1>20, SetOpConditions
      <4>2. ~After(m, {"setOp"}, Conditions) => ~After(s, {"setOp"}, Conditions)
        BY <1>15
      <4> QED BY <2>1, <4>1, <4>2 DEF InLine
    <3>3. name = "havingRaw" => M = {}
      BY <1>7
    <3> QED BY <1>10, <3>1, <3>2, <3>3, Unmarked
  <2>9. x.tail = TRUE => Said(m, {"setOp"}) /\ After(m, {"setOp"}, Trailing)
    BY <1>15, <1>17, <2>1 DEF InLine
  <2>10. (x.tail = TRUE /\ ~After(m, {"setOp"}, Conditions)) => MarksOf(x.terms) = {}
    BY <1>15, <2>1 DEF InLine
  <2>11. (Said(m, {"having"}) /\ ~After(m, {"having"}, LateTrailing)) => \A j \in FragmentKeys : Place(n.key) < Place(j) => n.marks[j] = {}
    <3> SUFFICES ASSUME Said(m, {"having"}), ~After(m, {"having"}, LateTrailing), NEW j \in FragmentKeys, Place(n.key) < Place(j)
                 PROVE  n.marks[j] = {}
      OBVIOUS
    <3>1. j # key /\ n.marks[j] = v.marks[j]
      BY <1>12, <1>13, <1>14, PlacesAre
    <3>2. CASE name = "having"
      <4>1. M = {} => v.marks[j] = {}
        <5>1. ~After(s, {"having"}, LateTrailing)
          BY <1>15, <1>20, <3>2
        <5>2. CASE Said(s, {"having"})
          <6>1. x.having = TRUE /\ key = v.key
            BY <1>14, <2>1, <5>2 DEF InLine
          <6> QED BY <1>12, <2>1, <5>1, <5>2, <6>1 DEF InLine
        <5>3. CASE ~Said(s, {"having"})
          <6>1. j # "WHERE"
            BY <1>12, <1>14, <2>3, PlacesAre
          <6> QED BY <2>1, <5>3, <6>1 DEF InLine
        <5> QED BY <5>2, <5>3
      <4> QED BY <1>12, <2>2, <3>1, <4>1
    <3>3. CASE name = "havingRaw"
      <4>1. Said(s, {"having"}) /\ ~After(s, {"having"}, LateTrailing)
        BY <1>15, <3>3
      <4>2. x.having = TRUE /\ key = v.key
        BY <1>14, <2>1, <4>1 DEF InLine
      <4> QED BY <1>12, <2>1, <3>1, <4>1, <4>2 DEF InLine
    <3> QED BY <3>2, <3>3
  <2>12. Rising(Placeholders(y.text)) /\ Rising(Placeholders(x.terms))
    BY <1>10, <2>1 DEF InLine
  <2> HIDE DEF key
  <2> QED BY <1>4, <2>4, <2>5, <2>6, <2>7, <2>8, <2>9, <2>10, <2>11, <2>12 DEF InLine
<1>21. Lined(y, m)
  BY <1>1, <1>4, <1>18, <1>19, <1>20 DEF Lined, n
<1> QED BY <1>2, <1>4, <1>21 DEF BindsOK, Recalls, y, z, m

----------------------------------------------------------------------------
(* Set operators: the other side of one.                                     *)

\* A fresh builder of conditions only, whose k values are numbered from 1.
Whole(o, d, k) ==
  /\ Clean(o) /\ o.dialect = d /\ o.params = k /\ k \in Nat /\ o.tailPred = FALSE /\ Marked(o.terms)
  /\ Placeholders(o.terms) = GetPlaceholders(MakeSelect(d), k) /\ (o.terms # <<>> => k # 0)

LEMMA PlaceholdersFollow ==
  ASSUME NEW x, x.params = 0, NEW y, y.dialect = x.dialect, NEW k \in Nat, y.params = k
  PROVE  GetPlaceholders(x, k) \o GetPlaceholders(y, 1) = GetPlaceholders(x, k + 1)
<1> DEFINE s == GetPlaceholders(x, k)
           r == GetPlaceholders(y, 1)
           w == GetPlaceholders(x, k + 1)
<1>0. k \in Nat /\ 1 \in Nat /\ k + 1 \in Nat /\ x.params \in Nat /\ y.params \in Nat
  OBVIOUS
<1>1. s \in Seq(PH) /\ Len(s) = k /\ r \in Seq(PH) /\ Len(r) = 1 /\ w \in Seq(PH) /\ Len(w) = k + 1
  <2>1. s \in Seq(PH) /\ Len(s) = k
    BY <1>0, PlaceholdersGiven
  <2>2. r \in Seq(PH) /\ Len(r) = 1
    BY <1>0, PlaceholdersGiven
  <2>3. w \in Seq(PH) /\ Len(w) = k + 1
    BY <1>0, PlaceholdersGiven
  <2> QED BY <2>1, <2>2, <2>3
<1>2. \A i \in 1 .. k : s[i] = [at |-> i, n |-> IF x.dialect = "postgres" THEN i ELSE 0]
  BY DEF GetPlaceholders
<1>3. \A i \in 1 .. k + 1 : w[i] = [at |-> i, n |-> IF x.dialect = "postgres" THEN i ELSE 0]
  BY DEF GetPlaceholders
<1>4. r[1] = [at |-> k + 1, n |-> IF x.dialect = "postgres" THEN k + 1 ELSE 0]
  BY DEF GetPlaceholders
<1> HIDE DEF s, r, w
<1>5. s \o r \in Seq(PH) /\ Len(s \o r) = k + 1
  <2>1. s \o r \in Seq(PH) /\ Len(s \o r) = Len(s) + Len(r)
    BY <1>1, ConcatProperties
  <2> QED BY <1>1, <2>1
<1>6. \A i \in 1 .. k + 1 : (s \o r)[i] = w[i]
  <2> TAKE i \in 1 .. k + 1
  <2>1. CASE i \in 1 .. k
    <3>1. (s \o r)[i] = s[i]
      BY <1>1, <2>1, ConcatProperties
    <3> QED BY <1>2, <1>3, <2>1, <3>1
  <2>2. CASE i = k + 1
    <3>1. (s \o r)[i] = r[1]
      BY <1>1, <2>2, ConcatProperties
    <3> QED BY <1>3, <1>4, <2>2, <3>1
  <2>3. i \in 1 .. k \/ i = k + 1
    BY <1>0
  <2> QED BY <2>1, <2>2, <2>3
<1>7. s \o r = w
  BY <1>1, <1>5, <1>6, SeqEqual
<1> QED BY <1>7 DEF s, r, w

LEMMA RenumberedFollow ==
  ASSUME NEW y, y.params = 0, NEW x, y.dialect = x.dialect, x.params \in Nat, NEW k \in Nat
  PROVE  Renumber(GetPlaceholders(y, k), x) = GetPlaceholders(x, k)
<1> DEFINE s == GetPlaceholders(y, k)
<1>1. DOMAIN s = 1 .. k /\ \A i \in 1 .. k : s[i].at = i /\ s[i].n = IF x.dialect = "postgres" THEN i ELSE 0
  BY DEF GetPlaceholders
<1> HIDE DEF s
<1>2. Renumber(s, x) = [i \in 1 .. k |-> [at |-> s[i].at + x.params, n |-> IF x.dialect = "postgres" THEN s[i].n + x.params ELSE s[i].n]]
  BY <1>1 DEF Renumber
<1>3. \A i \in 1 .. k : [at |-> s[i].at + x.params, n |-> IF x.dialect = "postgres" THEN s[i].n + x.params ELSE s[i].n]
                        = [at |-> x.params + i, n |-> IF x.dialect = "postgres" THEN x.params + i ELSE 0]
  <2> TAKE i \in 1 .. k
  <2>1. s[i].at + x.params = x.params + i
    BY <1>1
  <2>2. (IF x.dialect = "postgres" THEN s[i].n + x.params ELSE s[i].n) = IF x.dialect = "postgres" THEN x.params + i ELSE 0
    BY <1>1
  <2> QED BY <2>1, <2>2
<1> QED BY <1>2, <1>3 DEF GetPlaceholders, s

LEMMA WholeBegins ==
  ASSUME NEW d
  PROVE  Whole(MakeSelect(d), d, 0)
<1> DEFINE o == MakeSelect(d)
<1>1. o.dialect = d /\ o.params = 0 /\ o.tailPred = FALSE /\ o.terms = <<>>
  BY DEF MakeSelect
<1>2. Clean(o)
  BY CleanBegins
<1>3. Marked(<<>>)
  <2>1. Holds({}, PH) /\ <<>> \in Seq({})
    BY DEF Holds
  <2> QED BY <2>1 DEF Marked
<1>4. GetPlaceholders(o, 0) = <<>>
  BY DEF GetPlaceholders
<1> HIDE DEF o
<1> QED BY <1>1, <1>2, <1>3, <1>4, NoPlaceholders DEF Whole, o

LEMMA WholeGrows ==
  ASSUME NEW o, NEW d, NEW k, Whole(o, d, k), NEW conn \in Conn
  PROVE  Whole(Predicate(o, conn, "all", 1, 1), d, k + 1)
<1> DEFINE t == Term(conn, "all", NextAtoms(o, 1), GetPlaceholders(o, 1))
           y == Predicate(o, conn, "all", 1, 1)
           z == MakeSelect(d)
<1>1. /\ Clean(o) /\ DOMAIN o = Fields /\ o.dialect = d /\ o.params = k /\ k \in Nat /\ o.tailPred = FALSE /\ Marked(o.terms)
      /\ Placeholders(o.terms) = GetPlaceholders(z, k)
  BY DEF Whole, Clean
<1>2. t.ph = GetPlaceholders(o, 1)
  BY DEF Term
<1> HIDE DEF t
<1>3. y.dialect = d /\ y.params = k + 1 /\ y.tailPred = FALSE /\ y.terms = Append(o.terms, t)
  BY <1>1 DEF Predicate, PushWhere, Dirty, Fields, t
<1>4. Clean(y)
  BY <1>1, CleanGrows
<1> HIDE DEF y
<1>5. t.ph \in Seq(PH)
  BY <1>1, <1>2, PlaceholdersGiven
<1>6. PICK S : Holds(S, PH) /\ o.terms \in Seq(S) /\ t \in S
  BY <1>1, <1>5, MarkedWith
<1>7. Placeholders(y.terms) = GetPlaceholders(z, k) \o GetPlaceholders(o, 1) /\ y.terms \in Seq(S)
  BY <1>1, <1>2, <1>3, <1>6, PlaceholdersGrow, OneMore
<1>8. z.params = 0 /\ z.dialect = o.dialect
  BY <1>1 DEF MakeSelect
<1> HIDE DEF z
<1>9. GetPlaceholders(z, k) \o GetPlaceholders(o, 1) = GetPlaceholders(z, k + 1)
  BY <1>1, <1>8, PlaceholdersFollow
<1>10. Marked(y.terms)
  BY <1>6, <1>7 DEF Marked
<1>11. k + 1 \in Nat /\ k + 1 # 0
  BY <1>1
<1> QED BY <1>3, <1>4, <1>7, <1>9, <1>10, <1>11 DEF Whole, y, z

\* Its conditions, moved behind another builder's: the next k values of that one.
LEMMA WholeMoves ==
  ASSUME NEW o, NEW d, NEW k, Whole(o, d, k), NEW x, x.dialect = d, x.params \in Nat
  PROVE  /\ Renumber(BodyPlaceholders(RenderWhereTerms(o.terms)), x) = GetPlaceholders(x, k)
         /\ k # 0 => RenderWhereTerms(o.terms) # <<>>
<1> DEFINE z == MakeSelect(d)
           body == RenderWhereTerms(o.terms)
<1>1. k \in Nat /\ Marked(o.terms) /\ Placeholders(o.terms) = GetPlaceholders(z, k)
  BY DEF Whole
<1>2. z.params = 0 /\ z.dialect = d
  BY DEF MakeSelect
<1> HIDE DEF z
<1>3. PICK S : Holds(S, PH) /\ o.terms \in Seq(S)
  BY <1>1 DEF Marked
<1>4. BodyPlaceholders(body) = GetPlaceholders(z, k)
  BY <1>1, <1>3, BodyInOrder
<1> HIDE DEF body
<1>5. Renumber(BodyPlaceholders(body), x) = GetPlaceholders(x, k)
  BY <1>1, <1>2, <1>4, RenumberedFollow
<1>6. k # 0 => body # <<>>
  <2>1. BodyPlaceholders(<<>>) = <<>>
    BY FlattenNothing DEF BodyPlaceholders
  <2>2. Len(GetPlaceholders(z, k)) = k
    BY <1>1, <1>2, PlaceholdersGiven
  <2> QED BY <1>1, <1>4, <2>1, <2>2
<1> QED BY <1>5, <1>6 DEF body

\* The other side's text, numbered on from x.
MovedText(other, x) ==
  LET theirs == Reorder(CurrentSql(other, <<>>)) IN [i \in DOMAIN theirs |-> RenumberToken(theirs[i], x)]

\* What a set operator adds: its keyword, and a WHERE if the other side has one.
LEMMA MovedOn ==
  ASSUME NEW other, NEW d, NEW k, Whole(other, d, k), NEW x, x.dialect = d, x.params \in Nat, NEW left, Marked(left), NEW kw
  PROVE  LET new == left \o <<Token(kw)>> \o MovedText(other, x)
             one == Append(left, Token(kw))
         IN  \/ other.terms = <<>> /\ k = 0 /\ new = one
             \/ other.terms # <<>> /\ \E t : t.kw = "WHERE" /\ t.ph = GetPlaceholders(x, k) /\ new = Append(one, t)
<1> DEFINE body == RenderWhereTerms(other.terms)
           theirs == Reorder(CurrentSql(other, <<>>))
           moved == MovedText(other, x)
           o == WhereToken("WHERE", body)
           u == RenumberToken(o, x)
           c == Token(kw)
           one == Append(left, c)
           new == left \o <<c>> \o moved
<1>1. /\ Clean(other) /\ k \in Nat /\ Placeholders(other.terms) = GetPlaceholders(MakeSelect(d), k)
      /\ other.terms # <<>> => k # 0
  BY DEF Whole
<1>2. (body = <<>> => theirs = <<>>) /\ (body # <<>> => theirs = <<o>>)
  BY <1>1, TheirsAre
<1>3. other.terms = <<>> => k = 0 /\ body = <<>>
  <2>1. MakeSelect(d).params = 0
    BY DEF MakeSelect
  <2>2. Len(GetPlaceholders(MakeSelect(d), k)) = k
    BY <1>1, <2>1, PlaceholdersGiven
  <2>3. <<>> \in Seq({})
    OBVIOUS
  <2>4. RenderWhereTerms(<<>>) = <<>>
    BY <2>3, RenderedType
  <2>5. other.terms = <<>> => GetPlaceholders(MakeSelect(d), k) = <<>>
    BY <1>1, NoPlaceholders
  <2>6. other.terms = <<>> => k = 0
    BY <2>2, <2>5
  <2> QED BY <2>4, <2>6
<1>4. other.terms # <<>> => body # <<>>
  BY <1>1, WholeMoves
<1>5. u.kw = "WHERE" /\ u.ph = GetPlaceholders(x, k)
  <2>1. o.ph = BodyPlaceholders(body) /\ DOMAIN o = {"kw", "of", "ph", "body", "inner", "tbl", "on"}
    BY DEF WhereToken, Token
  <2>2. u.kw = "WHERE"
    BY MovedToken
  <2> HIDE DEF o, body
  <2>3. u.ph = Renumber(o.ph, x)
    BY <2>1 DEF RenumberToken
  <2> QED BY <2>1, <2>2, <2>3, WholeMoves DEF body
<1>6. PICK S : left \in Seq(S)
  BY DEF Marked
<1> DEFINE R == S \cup {c, u}
<1>7. left \in Seq(R) /\ c \in R /\ u \in R
  BY <1>6
<1> HIDE DEF R, u, c, theirs, o, body
<1>8. left \o <<c>> = one /\ one \in Seq(R)
  BY <1>7
<1> HIDE DEF one
<1>9. CASE other.terms = <<>>
  <2>1. moved = <<>>
    BY <1>2, <1>3, <1>9 DEF MovedText, theirs
  <2>2. one \o <<>> = one
    BY <1>8
  <2> HIDE DEF moved
  <2>3. new = one
    BY <1>8, <2>1, <2>2
  <2> QED BY <1>3, <1>9, <2>3 DEF moved, one, c, theirs
<1>10. CASE other.terms # <<>>
  <2>1. moved = <<u>>
    BY <1>2, <1>4, <1>10 DEF u, MovedText, theirs
  <2>2. one \o <<u>> = Append(one, u)
    BY <1>7, <1>8
  <2> HIDE DEF moved
  <2>3. new = Append(one, u)
    BY <1>8, <2>1, <2>2
  <2> QED BY <1>5, <1>10, <2>3 DEF moved, one, c, theirs
<1> QED BY <1>9, <1>10

\* union .. exceptAll: what was there stays in line, what the other side brings comes last.
LEMMA SetOpStays ==
  ASSUME NEW x, NEW s, Chain(s), BindsOK(x, s), ~Excluded(Append(s, "setOp"), x.dialect), NEW kw \in SetOperators,
         NEW other, NEW k, Whole(other, x.dialect, k)
  PROVE  LET y == AppendSetOp(x, kw, other) IN BindsOK(y, Append(s, "setOp")) /\ y.dialect = x.dialect
<1> DEFINE m == Append(s, "setOp")
           left == IF x.terms = <<>> THEN x.text ELSE CurrentSql(x, <<>>)
           new == left \o <<Token(kw)>> \o MovedText(other, x)
           y == AppendSetOp(x, kw, other)
           one == Append(left, Token(kw))
           v == View(x.text)
           l == View(left)
           n == View(new)
           M == NextMarks(x.dialect, x.params, k)
<1>1. Tallied(x) /\ DOMAIN x = Fields /\ Droppable(v, s) /\ (x.dialect # "postgres" => InLine(x, v, s)) /\ Lined(x, s)
  BY DEF BindsOK, Lined, Tallied
<1>2. /\ x.params \in Nat /\ Marked(x.text) /\ Marked(x.terms) /\ IsFiniteSet(x.pivots) /\ x.having \in BOOLEAN
      /\ MarksOf(x.text) \cup MarksOf(x.terms) = Bound(x.dialect, x.params)
      /\ x.tail # TRUE => "WHERE" \notin v.words
  BY <1>1 DEF Tallied
<1>3. /\ ~Excluded(s, x.dialect) /\ Chain(m)
      /\ x.dialect # "postgres" => ~Said(s, {"having"})
  BY Included
<1>4. /\ \A names : Said(m, names) <=> (Said(s, names) \/ "setOp" \in names)
      /\ \A first, then : After(m, first, then) <=> (After(s, first, then) \/ (Said(s, first) /\ "setOp" \in then))
  BY SaidMore
<1> HIDE DEF m
<1>5. left = CurrentSql(x, <<>>)
  <2>1. CASE x.terms = <<>>
    <3>1. <<>> \o <<>> = <<>> /\ <<>> \in Seq({})
      OBVIOUS
    <3>2. RenderWhereTerms(<<>>) = <<>>
      BY <3>1, RenderedType
    <3> QED BY <2>1, <3>1, <3>2 DEF CurrentSql, SpliceWhere
  <2> QED BY <2>1
<1>6. other.params = k /\ k \in Nat /\ other.tailPred = FALSE /\ Clean(other)
  BY DEF Whole
<1>7. /\ DOMAIN y = Fields /\ y.pivots = x.pivots /\ y.dialect = x.dialect /\ y.terms = <<>> /\ y.params = x.params + k
      /\ y.tail = TRUE /\ y.tailPred = (other.terms # <<>>) /\ y.having = x.having /\ y.text = new /\ y.built = Unbuilt
  <2>1. /\ DOMAIN y = Fields /\ y.pivots = x.pivots /\ y.dialect = x.dialect /\ y.terms = <<>> /\ y.params = x.params + other.params
        /\ y.tail = TRUE /\ y.tailPred = (other.terms # <<>> \/ other.tailPred) /\ y.having = x.having /\ y.built = Unbuilt
    BY <1>1 DEF AppendSetOp, Dirty, Fields
  <2>2. y.text = new
    BY <1>1 DEF AppendSetOp, Dirty, Fields, MovedText
  <2> HIDE DEF y, new
  <2> QED BY <1>6, <2>1, <2>2
<1> HIDE DEF y, left
<1>8. CurrentForm(x, x.terms, left)
  BY <1>1, <1>3, <1>5, CurrentSettled
<1>9. Marked(left) /\ MarksOf(left) = Bound(x.dialect, x.params)
  BY <1>2, <1>8, CurrentMarks
<1>10. /\ "ORDER_BY" \notin v.words => "ORDER_BY" \notin l.words /\ l.rest = {}
       /\ v.key # BaseText => l.key # BaseText
  BY <1>2, <1>8, CurrentView
<1> DEFINE t == CHOOSE t : t.kw = "WHERE" /\ t.ph = GetPlaceholders(x, k) /\ new = Append(one, t)
<1>11. \/ other.terms = <<>> /\ k = 0 /\ new = one
       \/ other.terms # <<>> /\ t.kw = "WHERE" /\ t.ph = GetPlaceholders(x, k) /\ new = Append(one, t)
  <2>1. \/ other.terms = <<>> /\ k = 0 /\ new = one
        \/ other.terms # <<>> /\ \E u : u.kw = "WHERE" /\ u.ph = GetPlaceholders(x, k) /\ new = Append(one, u)
    <3> DEFINE d == x.dialect
    <3>1. Whole(other, d, k) /\ x.dialect = d /\ x.params \in Nat /\ Marked(left)
      BY <1>2, <1>9
    <3> HIDE DEF d
    <3> QED BY <3>1, MovedOn
  <2> HIDE DEF new, one
  <2> QED BY <2>1
<1> HIDE DEF t, new
<1>12. Token(kw).kw = kw /\ Token(kw).ph = <<>> /\ Bare(Token(kw)) /\ <<>> \in Seq(PH) /\ Marks(<<>>) = {} /\ Rising(<<>>)
  <2>1. Token(kw).kw = kw /\ Token(kw).ph = <<>>
    BY DEF Token
  <2>2. kw \notin ReorderKeywords
    BY DEF SetOperators, ReorderKeywords
  <2> QED BY <2>1, <2>2, Unmarked DEF Bare
<1>13. PICK S : Holds(S, PH) /\ left \in Seq(S) /\ Token(kw) \in S
  BY <1>9, <1>12, MarkedWith
<1>14. /\ one \in Seq(S) /\ MarksOf(one) = Bound(x.dialect, x.params) /\ View(one) = l
       /\ Rising(Placeholders(left)) => Rising(Placeholders(one))
  <2>1. /\ MarksOf(one) = MarksOf(left) \cup Marks(Token(kw).ph) /\ one \in Seq(S)
        /\ Rising(Placeholders(one)) <=> (Rising(Placeholders(left)) /\ Rising(Token(kw).ph) /\ Lead(MarksOf(left), Marks(Token(kw).ph)))
    BY <1>13, OneMore
  <2>2. View(one) = Seen(l, Token(kw).kw, Marks(Token(kw).ph))
    BY <1>13, ViewGrows
  <2>3. Seen(l, Token(kw).kw, Marks(Token(kw).ph)) = l
    BY <1>12, <1>13, BareSeen
  <2> QED BY <1>9, <1>12, <2>1, <2>2, <2>3, Unmarked
<1> HIDE DEF one, l
<1>15. /\ Bound(x.dialect, x.params + k) = Bound(x.dialect, x.params) \cup M
       /\ Lead(Bound(x.dialect, x.params), M) /\ (k = 0 => M = {})
  BY <1>2, <1>6, GivenMore
<1>16. GetPlaceholders(x, k) \in Seq(PH) /\ Marks(GetPlaceholders(x, k)) = M /\ Rising(GetPlaceholders(x, k))
  BY <1>2, <1>6, PlaceholdersGiven
<1> HIDE DEF M
  \* The text, whichever of the two it is.
<1>17. /\ Marked(new) /\ MarksOf(new) = Bound(x.dialect, x.params + k)
       /\ n = (IF other.terms = <<>> THEN l ELSE Seen(l, "WHERE", M))
       /\ Rising(Placeholders(left)) => Rising(Placeholders(new))
  <2>1. CASE other.terms = <<>>
    <3>1. new = one /\ M = {}
      BY <1>11, <1>15, <2>1
    <3>2. Marked(one)
      BY <1>13, <1>14 DEF Marked
    <3> QED BY <1>14, <1>15, <2>1, <3>1, <3>2
  <2>2. CASE other.terms # <<>>
    <3>1. t.kw = "WHERE" /\ t.ph = GetPlaceholders(x, k) /\ new = Append(one, t)
      BY <1>11, <2>2
    <3>2. t.ph \in Seq(PH) /\ Marks(t.ph) = M /\ Rising(t.ph)
      BY <1>16, <3>1
    <3>3. Marked(one)
      BY <1>13, <1>14 DEF Marked
    <3>4. PICK R : Holds(R, PH) /\ one \in Seq(R) /\ t \in R
      BY <3>2, <3>3, MarkedWith
    <3>5. /\ MarksOf(new) = MarksOf(one) \cup M /\ new \in Seq(R)
          /\ Rising(Placeholders(new)) <=> (Rising(Placeholders(one)) /\ Rising(t.ph) /\ Lead(MarksOf(one), M))
      BY <3>1, <3>2, <3>4, OneMore
    <3>6. n = Seen(l, "WHERE", M)
      BY <1>14, <3>1, <3>2, <3>4, ViewGrows
    <3>7. Marked(new)
      BY <3>4, <3>5 DEF Marked
    <3> QED BY <1>14, <1>15, <2>2, <3>2, <3>5, <3>6, <3>7
  <2> QED BY <2>1, <2>2
<1>18. l.key \in FragmentKeys /\ \A j \in FragmentKeys : l.marks[j] \subseteq MarksOf(left)
  BY <1>13, MarksAreThere DEF l
<1> HIDE DEF n, v
<1>19. "WHERE" \in ReorderKeywords /\ "WHERE" \in FragmentKeys /\ BaseText # "WHERE"
  BY KeysAre DEF FragmentKeys, ReorderKeywords
<1>20. other.terms # <<>> =>
         /\ n.key = "WHERE" /\ n.words = l.words \cup {"WHERE"} /\ n.rest = IF "ORDER_BY" \in l.words THEN l.rest \cup M ELSE {}
         /\ \A j \in FragmentKeys : n.marks[j] = IF j = "WHERE" THEN l.marks[j] \cup M ELSE l.marks[j]
  BY <1>17, <1>19 DEF Seen, KeyNow, WordsNow
<1>21. other.terms = <<>> => n = l
  BY <1>17
<1>22. Tallied(y)
  <2>1. MarksOf(y.terms) = {} /\ Marked(y.terms)
    <3>1. Holds({}, PH) /\ <<>> \in Seq({})
      BY DEF Holds
    <3> QED BY <1>7, <3>1, NoPlaceholders, Unmarked DEF MarksOf, Marked
  <2>2. MarksOf(y.text) \cup MarksOf(y.terms) = Bound(y.dialect, y.params) /\ y.params \in Nat
    BY <1>2, <1>6, <1>7, <1>17, <2>1
  <2> QED BY <1>2, <1>7, <1>17, <2>1, <2>2 DEF Tallied
<1>23. Droppable(n, m)
  <2>1. "ORDER_BY" \notin v.words => "ORDER_BY" \notin n.words /\ n.rest = {}
    <3>1. CASE other.terms = <<>>
      BY <1>10, <1>21, <3>1
    <3>2. CASE other.terms # <<>>
      BY <1>10, <1>20, <3>2
    <3> QED BY <3>1, <3>2
  <2>2. ~Said(m, Orders) => "ORDER_BY" \notin n.words
    BY <1>1, <1>4, <2>1 DEF Droppable
  <2>3. ~After(m, Orders, {"having", "setOp"}) => n.rest = {}
    BY <1>1, <1>4, <2>1 DEF Droppable
  <2> QED BY <2>2, <2>3 DEF Droppable
<1>24. ASSUME x.dialect # "postgres" PROVE InLine(y, n, m)
  <2>1. InLine(x, v, s) /\ ~Said(s, {"having"})
    BY <1>1, <1>3, <1>24
  <2>2. OnlyWhere(v)
    BY <2>1 DEF InLine, OnlyWhere
  <2>3. Fitting(x, v, x.terms)
    BY <1>1, <1>3, <1>24, TermsFit DEF v
  <2>4. MarksOf(x.terms) = {} \/ x.tail # TRUE \/ x.tailPred # TRUE \/ v.key = "WHERE"
    <3>1. (x.tail = TRUE /\ MarksOf(x.terms) # {}) => After(s, {"setOp"}, Conditions)
      BY <2>1 DEF InLine
    <3>2. After(s, {"setOp"}, Conditions) => ~After(s, {"setOp"}, Trailing)
      BY <1>3, <1>24, SetOpConditions
    <3> QED BY <2>1, <3>1, <3>2 DEF InLine
  <2>5. Rising(Placeholders(left)) /\ Sorted(l) /\ l.marks[BaseText] = {} /\ OnlyWhere(l)
    <3>1. Rising(Placeholders(x.text)) /\ Sorted(v) /\ v.marks[BaseText] = {}
      BY <2>1 DEF InLine
    <3> QED BY <1>2, <1>8, <2>2, <2>3, <2>4, <3>1, CurrentStraight DEF v, l
  <2>6. Sorted(n) /\ n.marks[BaseText] = {} /\ OnlyWhere(n)
    <3>1. CASE other.terms = <<>>
      BY <1>21, <2>5, <3>1
    <3>2. CASE other.terms # <<>>
      <4>1. \A j \in FragmentKeys : Place(KeyNow(l, "WHERE")) < Place(j) => l.marks[j] = {}
        <5>1. KeyNow(l, "WHERE") = "WHERE" /\ Place("WHERE") = 1
          BY <1>19, PlacesAre DEF KeyNow
        <5> QED BY <2>5, <5>1 DEF OnlyWhere
      <4>2. Lead(MarksOf(left), M)
        BY <1>9, <1>15
      <4>3. Sorted(n)
        BY <1>17, <1>18, <2>5, <3>2, <4>1, <4>2, SortedMore
      <4>4. BaseText \in FragmentKeys
        BY DEF FragmentKeys
      <4> QED BY <1>19, <1>20, <2>5, <3>2, <4>3, <4>4 DEF OnlyWhere
    <3> QED BY <3>1, <3>2
  <2>7. Rising(Placeholders(y.text)) /\ Rising(Placeholders(y.terms)) /\ MarksOf(y.terms) = {}
    BY <1>7, <1>17, <2>5, NoPlaceholders, Unmarked DEF MarksOf
  <2>8. ~Said(m, {"having"}) /\ Said(m, {"setOp"})
    BY <1>4, <2>1
  <2>9. y.tailPred = TRUE => n.key = "WHERE"
    BY <1>7, <1>20
  <2>10. (y.having = TRUE \/ (y.tail = TRUE /\ y.tailPred = TRUE)) => n.key # BaseText
    <3>1. y.having = TRUE => l.key # BaseText
      BY <1>7, <1>10, <2>1 DEF InLine
    <3>2. CASE other.terms = <<>>
      BY <1>7, <1>19, <1>21, <2>9, <3>1, <3>2
    <3>3. CASE other.terms # <<>>
      BY <1>19, <1>20, <3>3
    <3> QED BY <3>2, <3>3
  <2> QED BY <1>7, <2>6, <2>7, <2>8, <2>9, <2>10, Unmarked DEF InLine, OnlyWhere
<1>25. Lined(y, m)
  <2>1. View(y.text) = n
    BY <1>7 DEF n
  <2> QED BY <1>7, <1>22, <1>23, <1>24, <2>1 DEF Lined
<1> QED BY <1>7, <1>25 DEF BindsOK, Recalls, y, m

----------------------------------------------------------------------------
(* The calls that give a condition, by what they do.                         *)

LEMMA PredicateStays ==
  ASSUME NEW x, NEW s, BindsOK(x, s), NEW conn, NEW mode, NEW n, NEW k \in Nat, k = 0 \/ MayBind(x, s)
  PROVE  Stays(x, Predicate(x, conn, mode, n, k), s)
<1> DEFINE t == Term(conn, mode, NextAtoms(x, n), GetPlaceholders(x, k))
<1>1. x.params \in Nat
  BY DEF BindsOK, Lined, Tallied
<1>2. t.ph = GetPlaceholders(x, k)
  BY DEF Term
<1>3. Predicate(x, conn, mode, n, k) = PushWhere(x, t, k)
  BY DEF Predicate
<1> HIDE DEF t
<1>4. t.ph \in Seq(PH) /\ Rising(t.ph) /\ Marks(t.ph) = NextMarks(x.dialect, x.params, k)
  BY <1>1, <1>2, PlaceholdersGiven
<1> QED BY <1>3, <1>4, PushStays DEF Stays

LEMMA SubqueryStays ==
  ASSUME NEW x, NEW s, BindsOK(x, s), NEW conn, NEW k \in Nat
  PROVE  Stays(x, WhereSubquery(x, conn, k), s)
<1> DEFINE t == Term(conn, "all", NextAtoms(x, 1), LostPlaceholders(x, k))
<1>1. x.params \in Nat
  BY DEF BindsOK, Lined, Tallied
<1>2. t.ph = LostPlaceholders(x, k)
  BY DEF Term
<1>3. WhereSubquery(x, conn, k) = PushWhere(x, t, 0)
  BY DEF WhereSubquery
<1> HIDE DEF t
<1>4. NextMarks(x.dialect, x.params, 0) = {}
  BY <1>1, GivenMore
<1>5. t.ph \in Seq(PH) /\ Rising(t.ph) /\ Marks(t.ph) = NextMarks(x.dialect, x.params, 0)
  BY <1>2, <1>4, PlaceholdersLost, Unmarked
<1> QED BY <1>3, <1>5, PushStays DEF Stays

LEMMA PairIsWhole ==
  ASSUME NEW d, NEW second \in Conn
  PROVE  Whole(Pair(d, second), d, 2)
<1> DEFINE x0 == MakeSelect(d)
           x1 == Predicate(x0, "AND", "all", 1, 1)
<1>1. "AND" \in Conn
  BY DEF Conn
<1>2. Pair(d, second) = Predicate(x1, second, "all", 1, 1)
  BY DEF Pair, AddBooleanWhere, Where
<1>3. Whole(x0, d, 0)
  BY WholeBegins
<1> HIDE DEF x0
<1>4. Whole(x1, d, 0 + 1)
  BY <1>1, <1>3, WholeGrows
<1> HIDE DEF x1
<1>5. Whole(Predicate(x1, second, "all", 1, 1), d, (0 + 1) + 1)
  BY <1>4, WholeGrows
<1>6. (0 + 1) + 1 = 2
  OBVIOUS
<1> QED BY <1>2, <1>5, <1>6

LEMMA GroupStays ==
  ASSUME NEW x, NEW s, BindsOK(x, s), MayBind(x, s), NEW conn, NEW second \in Conn
  PROVE  Stays(x, AddWhereGroup(x, conn, Pair(x.dialect, second)), s)
<1> DEFINE o == Pair(x.dialect, second)
           mode == IF \E i \in 2 .. Len(o.terms) : o.terms[i].conn = "OR" THEN "any" ELSE "all"
           body == Term(conn, mode, UNION {o.terms[i].atoms : i \in DOMAIN o.terms}, BodyPlaceholders(RenderWhereTerms(o.terms)))
           t == RenumberTerm(body, x)
<1>1. x.params \in Nat
  BY DEF BindsOK, Lined, Tallied
<1>2. Whole(o, x.dialect, 2)
  BY PairIsWhole
<1>3. AddWhereGroup(x, conn, o) = PushWhere(x, t, o.params)
  BY DEF AddWhereGroup
<1> HIDE DEF o
<1>4. o.params = 2 /\ Renumber(BodyPlaceholders(RenderWhereTerms(o.terms)), x) = GetPlaceholders(x, 2)
  BY <1>1, <1>2, WholeMoves DEF Whole
<1>5. body.ph = BodyPlaceholders(RenderWhereTerms(o.terms)) /\ DOMAIN body = {"conn", "mode", "atoms", "ph"}
  BY DEF Term
<1> HIDE DEF body
<1>6. t.ph = Renumber(body.ph, x)
  BY <1>5 DEF RenumberTerm
<1> HIDE DEF t
<1>7. t.ph \in Seq(PH) /\ Rising(t.ph) /\ Marks(t.ph) = NextMarks(x.dialect, x.params, 2)
  BY <1>1, <1>4, <1>5, <1>6, PlaceholdersGiven
<1> QED BY <1>3, <1>4, <1>7, PushStays DEF Stays, o

LEMMA WhereInStays ==
  ASSUME NEW x, NEW s, BindsOK(x, s), MayBind(x, s), NEW conn, NEW n \in Nat, NEW negated
  PROVE  Stays(x, WhereIn(x, conn, n, negated), s)
<1> DEFINE in == RenderInPredicate(n, negated)
<1>1. WhereIn(x, conn, n, negated) = Predicate(x, conn, in.mode, in.atoms, n)
  BY DEF WhereIn
<1> HIDE DEF in
<1> QED BY <1>1, PredicateStays

\* The pivot filters join first.
LEMMA PivotFilterStays ==
  ASSUME NEW x, NEW s, Chain(s), BindsOK(x, s), ~Excluded(s, x.dialect), MayBind(x, s), NEW name, NEW n \in Nat, NEW negated
  PROVE  LET y == EnsurePivotJoined(x, name)
         IN  /\ Stays(x, Predicate(y, "AND", "all", 1, 1), s) /\ Stays(x, WhereNull(y, "AND"), s)
             /\ Stays(x, WhereIn(y, "AND", n, negated), s)
<1> DEFINE y == EnsurePivotJoined(x, name)
<1>1. BindsOK(y, s) /\ SameLine(x, y)
  BY PivotJoinStays
<1> HIDE DEF y
<1>2. MayBind(y, s) /\ y.dialect = x.dialect
  BY <1>1 DEF MayBind, SameLine
<1>3. Stays(y, Predicate(y, "AND", "all", 1, 1), s) /\ Stays(y, Predicate(y, "AND", "all", 1, 0), s)
  BY <1>1, <1>2, PredicateStays
<1>4. Stays(y, WhereIn(y, "AND", n, negated), s)
  BY <1>1, <1>2, WhereInStays
<1> QED BY <1>2, <1>3, <1>4 DEF Stays, WhereNull, y

----------------------------------------------------------------------------
(* The calls that give a condition.                                          *)
LEMMA FiltersAre ==
  ASSUME NEW next, NEW m, Stays(b, next, m)
  PROVE  /\ \A conn, mode, n : Filter(next, conn, mode, n) => Stays(b, b', m) /\ sent' = <<>>
         /\ \A conn, n, negated : AskMember(next, conn, n, negated) => Stays(b, b', m) /\ sent' = <<>>
         /\ Shape(next) => Stays(b, b', m) /\ sent' = <<>>
<1>1. \A conn, mode, n : Filter(next, conn, mode, n) => b' = next /\ sent' = <<>>
  BY DEF Filter
<1>2. \A conn, n, negated : AskMember(next, conn, n, negated) => b' = next /\ sent' = <<>>
  BY DEF AskMember, Filter
<1>3. Shape(next) => b' = next /\ sent' = <<>>
  BY DEF Shape
<1> QED BY <1>1, <1>2, <1>3

LEMMA WheresStay ==
  ASSUME NEW m, BindsOK(b, m), MayBind(b, m), CallWhere \/ CallBooleanWhere \/ CallWhereNull \/ CallWhereValue \/ CallWhereHas
  PROVE  Stays(b, b', m) /\ sent' = <<>>
<1>1. \A conn, mode, n : \A k \in Nat : Stays(b, Predicate(b, conn, mode, n, k), m)
  BY PredicateStays
<1>2. ASSUME NEW conn, NEW mode, NEW n, NEW k \in Nat, NEW c, NEW o, NEW j, Filter(Predicate(b, conn, mode, n, k), c, o, j)
      PROVE  Stays(b, b', m) /\ sent' = <<>>
  BY <1>1, <1>2, FiltersAre
<1>3. CASE CallWhere
  BY <1>2, <1>3 DEF CallWhere, Where
<1>4. CASE CallBooleanWhere
  BY <1>2, <1>4 DEF CallBooleanWhere, AddBooleanWhere
<1>5. CASE CallWhereNull
  BY <1>2, <1>5 DEF CallWhereNull, WhereNull, WhereRaw
<1>6. CASE CallWhereValue
  <2>1. PICK c \in Conns :
          \/ Filter(WhereBetween(b, c), c, "all", 1)
          \/ Filter(WhereLike(b, c), c, "all", 1)
          \/ Filter(WhereNotBetween(b), c, "all", 1)
          \/ Filter(WhereDate(b), c, "all", 1)
          \/ Filter(WhereJsonPath(b), c, "all", 1)
          \/ LET n == IF b.dialect = "sqlite" THEN 2 ELSE 1 IN Filter(WhereJsonContains(b, n), c, "all", n)
    BY <1>6 DEF CallWhereValue
  <2>2. CASE Filter(WhereBetween(b, c), c, "all", 1) \/ Filter(WhereLike(b, c), c, "all", 1)
    BY <1>2, <2>2 DEF WhereBetween, WhereLike
  <2>3. CASE Filter(WhereNotBetween(b), c, "all", 1) \/ Filter(WhereDate(b), c, "all", 1) \/ Filter(WhereJsonPath(b), c, "all", 1)
    BY <1>2, <2>3 DEF WhereNotBetween, WhereDate, WhereJsonPath
  <2>4. CASE LET n == IF b.dialect = "sqlite" THEN 2 ELSE 1 IN Filter(WhereJsonContains(b, n), c, "all", n)
    <3>1. CASE b.dialect = "sqlite"
      BY <1>2, <2>4, <3>1 DEF WhereJsonContains
    <3>2. CASE b.dialect # "sqlite"
      BY <1>2, <2>4, <3>2 DEF WhereJsonContains
    <3> QED BY <3>1, <3>2
  <2> QED BY <2>1, <2>2, <2>3, <2>4
<1>7. CASE CallWhereHas
  BY <1>2, <1>7 DEF CallWhereHas, WhereHas, WhereDoesntHave
<1> QED BY <1>3, <1>4, <1>5, <1>6, <1>7

LEMMA ListsStay ==
  ASSUME NEW m, BindsOK(b, m), MayBind(b, m), CallWhereColumns \/ CallWhereIn \/ CallDynamicWhere
  PROVE  Stays(b, b', m) /\ sent' = <<>>
<1>1. \A n \in Sizes : n \in Nat
  BY DEF Sizes
<1>2. \A conn, mode, n : \A k \in Nat : Stays(b, Predicate(b, conn, mode, n, k), m)
  BY PredicateStays
<1>3. Stays(b, b, m)
  BY DEF Stays
<1>4. CASE CallWhereColumns
  <2>1. PICK n \in Sizes : \/ Filter(WhereAny(b, n), "AND", "any", n)
                           \/ n > 0 /\ Filter(WhereAll(b, n), "AND", "all", n)
                           \/ n > 0 /\ Filter(WhereNone(b, n), "AND", "none", n)
                           \/ n = 0 /\ (Shape(WhereAll(b, n)) \/ Shape(WhereNone(b, n)))
    BY <1>4 DEF CallWhereColumns
  <2>2. Stays(b, WhereAny(b, n), m) /\ Stays(b, WhereAll(b, n), m) /\ Stays(b, WhereNone(b, n), m)
    BY <1>1, <1>2, <1>3 DEF WhereAny, WhereAll, WhereNone
  <2> QED BY <2>1, <2>2, FiltersAre
<1>5. CASE CallWhereIn
  <2>1. PICK c \in Conns, n \in Sizes, negated \in BOOLEAN : AskMember(WhereIn(b, c, n, negated), c, n, negated)
    BY <1>5 DEF CallWhereIn
  <2>2. Stays(b, WhereIn(b, c, n, negated), m)
    BY <1>1, WhereInStays
  <2> QED BY <2>1, <2>2, FiltersAre
<1>6. CASE CallDynamicWhere
  <2>1. PICK c \in Conns, n \in Sizes : AskMember(DynamicWhere(b, c, n), c, n, FALSE)
    BY <1>6 DEF CallDynamicWhere
  <2>2. Stays(b, DynamicWhere(b, c, n), m)
    BY <1>1, <1>2 DEF DynamicWhere
  <2> QED BY <2>1, <2>2, FiltersAre
<1> QED BY <1>4, <1>5, <1>6

LEMMA SubqueriesStay ==
  ASSUME NEW m, BindsOK(b, m), MayBind(b, m), CallWhereSubquery \/ CallWhereGroup
  PROVE  Stays(b, b', m) /\ sent' = <<>>
<1>1. CASE CallWhereSubquery
  <2>1. PICK c \in Conns, k \in {0, 1} : Filter(WhereSubquery(b, c, k), c, "all", 1)
    BY <1>1 DEF CallWhereSubquery
  <2>2. Stays(b, WhereSubquery(b, c, k), m)
    <3>1. k \in Nat
      OBVIOUS
    <3> QED BY <3>1, SubqueryStays
  <2> QED BY <2>1, <2>2, FiltersAre
<1>2. CASE CallWhereGroup
  <2>1. PICK c \in Conns, second \in Conns :
          Filter(AddWhereGroup(b, c, Pair(b.dialect, second)), c, IF second = "OR" THEN "any" ELSE "all", 2)
    BY <1>2 DEF CallWhereGroup, Pair
  <2>2. second \in Conn
    BY DEF Conns, Conn
  <2>3. Stays(b, AddWhereGroup(b, c, Pair(b.dialect, second)), m)
    BY <2>2, GroupStays
  <2> QED BY <2>1, <2>3, FiltersAre
<1> QED BY <1>1, <1>2

LEMMA PivotFiltersStay ==
  ASSUME NEW m, Chain(m), BindsOK(b, m), ~Excluded(m, b.dialect), MayBind(b, m), CallWherePivot
  PROVE  Stays(b, b', m) /\ sent' = <<>>
<1>1. PICK name \in Names :
        \/ Filter(WherePivot(b, name), "AND", "all", 1)
        \/ Filter(WherePivotNull(b, name), "AND", "all", 1)
        \/ \E k \in Sizes : AskMember(WherePivotIn(b, name, k), "AND", k, FALSE)
        \/ AskMember(WherePivotNotIn(b, name, 2), "AND", 2, TRUE)
        \/ Shape(WherePivotNotIn(b, name, 0))
  BY DEF CallWherePivot
<1> DEFINE y == EnsurePivotJoined(b, name)
<1>2. \A n \in Nat : \A negated :
        /\ Stays(b, Predicate(y, "AND", "all", 1, 1), m) /\ Stays(b, WhereNull(y, "AND"), m)
        /\ Stays(b, WhereIn(y, "AND", n, negated), m)
  BY PivotFilterStays
<1>3. 0 \in Nat /\ 2 \in Nat /\ \A k \in Sizes : k \in Nat
  BY DEF Sizes
<1>4. Stays(b, WherePivot(b, name), m)
  BY <1>2, <1>3 DEF WherePivot
<1>5. Stays(b, WherePivotNull(b, name), m)
  BY <1>2, <1>3 DEF WherePivotNull
<1>6. \A k \in Sizes : Stays(b, WherePivotIn(b, name, k), m)
  BY <1>2, <1>3 DEF WherePivotIn
<1>7. Stays(b, WherePivotNotIn(b, name, 2), m)
  <2>1. WherePivotNotIn(b, name, 2) = WhereIn(y, "AND", 2, TRUE)
    BY DEF WherePivotNotIn
  <2> QED BY <1>2, <1>3, <2>1
<1>8. Stays(b, WherePivotNotIn(b, name, 0), m)
  <2>1. WherePivotNotIn(b, name, 0) = b
    BY DEF WherePivotNotIn
  <2> QED BY <2>1 DEF Stays
<1> QED BY <1>1, <1>4, <1>5, <1>6, <1>7, <1>8, FiltersAre

LEMMA ConditionsStay ==
  ASSUME NEW m, Chain(m), BindsOK(b, m), ~Excluded(m, b.dialect), MayBind(b, m), CallCondition
  PROVE  Stays(b, b', m) /\ sent' = <<>>
BY WheresStay, ListsStay, SubqueriesStay, PivotFiltersStay DEF CallCondition

\* A condition may always bind where it is not excluded.
LEMMA ConditionsMayBind ==
  ASSUME NEW x, NEW s, Chain(s), BindsOK(x, s), NEW name \in Conditions, ~Excluded(Append(s, name), x.dialect)
  PROVE  MayBind(x, Append(s, name))
<1> DEFINE m == Append(s, name)
<1>1. x.dialect # "postgres" => ~Said(s, {"having"})
  BY Included
<1>2. /\ \A names : Said(m, names) <=> (Said(s, names) \/ name \in names)
      /\ \A first, then : After(m, first, then) <=> (After(s, first, then) \/ (Said(s, first) /\ name \in then))
  BY SaidMore
<1> HIDE DEF m
<1>3. name # "having"
  BY DEF Conditions
<1>4. (x.dialect # "postgres" /\ x.tail = TRUE) => Said(s, {"setOp"})
  BY DEF BindsOK, Lined, InLine
<1> QED BY <1>1, <1>2, <1>3, <1>4 DEF MayBind, m

----------------------------------------------------------------------------
(* The calls that shape the statement.                                       *)
LEMMA ListsAre == CallColumns \/ CallSelect => \E h : Shape(Dirty([b EXCEPT !.head = h]))
<1> DEFINE Listing(h) == [b EXCEPT !.head = h]
<1>1. \E h : Distinct(b) = Dirty(Listing(h))
  BY DEF Distinct
<1>2. \A col, subquery : \E h : SelectRaw(b, col, subquery) = Dirty(Listing(h))
  BY DEF SelectRaw
<1>3. (\E h : RankedColumn(b) = Dirty(Listing(h))) /\ \A col : \E h : AddSelect(b, col) = Dirty(Listing(h))
  BY DEF RankedColumn, AddSelect
<1>4. (\A col : \E h : Select(b, col) = Dirty(Listing(h))) /\ \E h : SelectAllRelations(b) = Dirty(Listing(h))
  BY DEF Select, SelectAllRelations
<1> HIDE DEF Listing
<1>5. CallColumns \/ CallSelect => \E h : Shape(Dirty(Listing(h)))
  BY <1>1, <1>2, <1>3, <1>4 DEF CallColumns, CallSelect
<1> QED BY <1>5 DEF Listing

LEMMA ColumnsStay ==
  ASSUME NEW m, BindsOK(b, m), CallColumns \/ CallSelect
  PROVE  Stays(b, b', m) /\ sent' = <<>>
<1>1. PICK h : Shape(Dirty([b EXCEPT !.head = h]))
  BY ListsAre
<1> DEFINE y == [b EXCEPT !.head = h]
<1>2. BindsOK(Dirty(y), m) /\ SameLine(b, y)
  BY HeadStays
<1>3. y.dialect = b.dialect /\ DOMAIN y = Fields
  BY <1>2 DEF SameLine
<1> HIDE DEF y
<1>4. Dirty(y).dialect = y.dialect
  BY <1>3 DEF Dirty, Fields
<1>5. Stays(b, Dirty(y), m)
  BY <1>2, <1>3, <1>4 DEF Stays
<1> QED BY <1>1, <1>5, FiltersAre DEF y

\* A chain that edits the memo's text is left out where placeholders are ?.
LEMMA ListEditsStay ==
  ASSUME NEW m, Chain(m), BindsOK(b, m), ~Excluded(m, b.dialect), Said(m, EditsMemo), CallWindow \/ CallWithCount \/ CallWithPivot
  PROVE  Stays(b, b', m) /\ sent' = <<>>
<1>1. b.dialect = "postgres"
  BY DEF Excluded
<1>2. \A col, sub : BindsOK(AddToSelectClause(b, col, sub), m) /\ AddToSelectClause(b, col, sub).dialect = b.dialect
  <2> TAKE col, sub
  <2>1. SameLine(b, b)
    BY SelfLine
  <2>2. SameLine(b, AddToSelectClause(b, col, sub))
    BY <2>1, ColumnLine
  <2> QED BY <1>1, <2>2, ColumnStays DEF SameLine
<1>3. Stays(b, b, m) /\ \A col, sub : Stays(b, AddToSelectClause(b, col, sub), m)
  BY <1>2 DEF Stays
<1>4. CASE CallWindow
  <2> DEFINE no == FALSE
  <2>1. Shape(AddToSelectClause(b, "window", no))
    BY <1>4 DEF CallWindow, AddWindowFunction
  <2> HIDE DEF no
  <2> QED BY <1>3, <2>1, FiltersAre
<1>5. CASE CallWithCount
  <2>1. PICK name : Shape(WithCount(b, name))
    BY <1>5 DEF CallWithCount, ApplyRelationAggregate
  <2> DEFINE yes == TRUE
  <2>2. WithCount(b, name) \in {b, AddToSelectClause(b, name, yes)}
    BY DEF WithCount
  <2> HIDE DEF yes
  <2> QED BY <1>3, <2>1, <2>2, FiltersAre
<1>6. CASE CallWithPivot
  <2>1. PICK name : Shape(WithPivot(b, name))
    BY <1>6 DEF CallWithPivot
  <2>2. BindsOK(WithPivot(b, name), m) /\ SameLine(b, WithPivot(b, name))
    BY <1>1, PivotStays
  <2>3. Stays(b, WithPivot(b, name), m)
    BY <2>2 DEF Stays, SameLine
  <2> QED BY <2>1, <2>3, FiltersAre
<1> QED BY <1>4, <1>5, <1>6

LEMMA SourcesStay ==
  ASSUME NEW m, Chain(m), BindsOK(b, m), ~Excluded(m, b.dialect), CallCTE \/ CallJoin \/ CallJoinSub \/ CallWith
  PROVE  Stays(b, b', m) /\ sent' = <<>>
<1>1. ASSUME NEW t, Bare(t), t.ph \in Seq(PH) PROVE Stays(b, AddJoins(b, <<t>>), m)
  <2>1. <<t>> \in Seq({t}) /\ \A u \in {t} : Bare(u) /\ u.ph \in Seq(PH)
    BY <1>1
  <2>2. SameLine(b, AddJoins(b, <<t>>)) /\ BindsOK(AddJoins(b, <<t>>), m)
    BY <2>1, JoinsStay
  <2> QED BY <2>2 DEF Stays, SameLine
<1>2. CASE CallCTE
  <2>1. PICK k \in {0, 1} : Shape(WithCTE(b, {"WHERE"}, k))
    BY <1>2 DEF CallCTE
  <2>2. k \in Nat
    OBVIOUS
  <2>3. BindsOK(WithCTE(b, {"WHERE"}, k), m) /\ SameLine(b, WithCTE(b, {"WHERE"}, k))
    BY <2>2, CTEStays
  <2>4. Stays(b, WithCTE(b, {"WHERE"}, k), m)
    BY <2>3 DEF Stays, SameLine
  <2> QED BY <2>1, <2>4, FiltersAre
<1>3. CASE CallJoin
  <2>1. PICK t : Shape(AddJoins(b, <<JoinToken(t, Root)>>))
    BY <1>3 DEF CallJoin, Join
  <2>2. Bare(JoinToken(t, Root)) /\ JoinToken(t, Root).ph \in Seq(PH)
    BY JoinTokensAreBare
  <2> QED BY <1>1, <2>1, <2>2, FiltersAre
<1>4. CASE CallJoinSub
  <2>1. PICK k \in {0, 1}, words \in {{}, {"LIMIT"}} : Shape(JoinSub(b, "sub", Root, words, k))
    BY <1>4 DEF CallJoinSub
  <2> DEFINE t == [JoinToken("sub", Root) EXCEPT !.inner = words, !.ph = LostPlaceholders(b, k)]
  <2>2. JoinSub(b, "sub", Root, words, k) = AddJoins(b, <<t>>)
    BY DEF JoinSub
  <2>3. t.kw = "JOIN" /\ t.ph = LostPlaceholders(b, k)
    BY DEF JoinToken, Token
  <2> HIDE DEF t
  <2>4. k \in Nat
    OBVIOUS
  <2>5. Bare(t) /\ t.ph \in Seq(PH)
    BY <2>3, <2>4, PlaceholdersLost DEF Bare, ReorderKeywords
  <2>6. Stays(b, AddJoins(b, <<t>>), m)
    BY <1>1, <2>5
  <2> QED BY <2>1, <2>2, <2>6, FiltersAre
<1>5. CASE CallWith
  <2>1. PICK p \in Paths : Shape(With(b, <<p>>).b)
    BY <1>5 DEF CallWith
  <2>2. Len(p) \in {1, 2}
    BY DEF Paths
  <2>3. BindsOK(With(b, <<p>>).b, m) /\ SameLine(b, With(b, <<p>>).b)
    BY <2>2, WithStays
  <2>4. Stays(b, With(b, <<p>>).b, m)
    BY <2>3 DEF Stays, SameLine
  <2> QED BY <2>1, <2>4, FiltersAre
<1> QED BY <1>2, <1>3, <1>4, <1>5

----------------------------------------------------------------------------
(* The clauses behind the conditions.                                        *)

LEMMA ClausesTrail ==
  ASSUME NEW x, NEW s, Chain(s), BindsOK(x, s), NEW name \in LateTrailing, ~Excluded(Append(s, name), x.dialect)
  PROVE  Trails(x, Append(s, name), name) /\ BindsOK(x, Append(s, name)) /\ Chain(Append(s, name))
<1> DEFINE m == Append(s, name)
<1>1. Chain(m) /\ (name = "reorder" => ~After(s, Orders, {"having", "setOp"}))
  BY Included
<1>2. /\ \A names : Said(m, names) <=> (Said(s, names) \/ name \in names)
      /\ \A first, then : After(m, first, then) <=> (After(s, first, then) \/ (Said(s, first) /\ name \in then))
  BY SaidMore
<1>3. name \in Trailing /\ name # "having"
  BY DEF LateTrailing, Trailing
<1>4. BindsOK(x, m)
  BY <1>3, CallStays
<1> HIDE DEF m
<1>5. (x.dialect # "postgres" /\ x.tail = TRUE) => Said(s, {"setOp"})
  BY DEF BindsOK, Lined, InLine
<1>6. name = "reorder" => View(x.text).rest = {}
  <2>1. name = "reorder" => ~After(m, Orders, {"having", "setOp"})
    BY <1>1, <1>2
  <2> QED BY <1>4, <2>1 DEF BindsOK, Lined, Droppable
<1> QED BY <1>1, <1>2, <1>3, <1>4, <1>5, <1>6 DEF Trails, m

LEMMA ClauseAtTheEnd ==
  ASSUME NEW x, NEW s, NEW name, BindsOK(x, s), Trails(x, s, name), NEW t, t.ph = <<>>, t.kw # "WHERE", t.kw = "ORDER_BY" => name \in Orders
  PROVE  Stays(x, Dirty([x EXCEPT !.text = Append(x.text, t)]), s)
<1> DEFINE u == x.text
<1>1. Clipped(u, x.text) /\ View(u).key = View(x.text).key
  BY DEF BindsOK, Lined, Tallied, Clipped
<1> HIDE DEF u
<1>2. Stays(x, Dirty([x EXCEPT !.text = Append(u, t)]), s)
  BY <1>1, ClauseStays
<1> QED BY <1>2 DEF u

LEMMA NothingAtTheEnd ==
  ASSUME NEW x, NEW s, BindsOK(x, s)
  PROVE  Stays(x, Dirty([x EXCEPT !.text = x.text]), s)
<1>1. SameLine(x, x) /\ DOMAIN x = Fields
  BY SelfLine
<1> DEFINE y == Dirty([x EXCEPT !.text = x.text])
<1>2. /\ DOMAIN y = Fields /\ y.pivots = x.pivots /\ y.dialect = x.dialect /\ y.terms = x.terms /\ y.params = x.params
      /\ y.tail = x.tail /\ y.tailPred = x.tailPred /\ y.having = x.having /\ y.text = x.text /\ y.built = Unbuilt
  BY <1>1 DEF Dirty, Fields
<1> HIDE DEF y
<1>3. SameLine(x, y)
  BY <1>1, <1>2, FieldsLine
<1> QED BY <1>2, <1>3, EditStays DEF Stays, y

LEMMA ReorderStays ==
  ASSUME NEW x, NEW s, BindsOK(x, s), Trails(x, s, "reorder")
  PROVE  Stays(x, ReorderBy(x), s)
<1> DEFINE u == SubSeq(x.text, 1, FirstTopLevel(x.text, {"ORDER_BY"}) - 1)
           t == Token("ORDER_BY")
<1>1. Marked(x.text) /\ View(x.text).rest = {}
  BY DEF BindsOK, Lined, Tallied, Trails
<1>2. PICK S : Holds(S, PH) /\ x.text \in Seq(S)
  BY <1>1 DEF Marked
<1>3. /\ u \in Seq(S) /\ View(u).marks = View(x.text).marks /\ View(u).words \subseteq View(x.text).words
      /\ View(u).rest = {} /\ MarksOf(u) = MarksOf(x.text)
      /\ Rising(Placeholders(x.text)) => Rising(Placeholders(u))
  BY <1>1, <1>2, CutEnd
<1>4. ReorderBy(x) = Dirty([x EXCEPT !.text = Append(u, t)])
  BY DEF ReorderBy
<1> HIDE DEF u
<1>5. Clipped(u, x.text)
  BY <1>2, <1>3 DEF Marked, Clipped
<1>6. t.ph = <<>> /\ t.kw = "ORDER_BY" /\ "ORDER_BY" \in ReorderKeywords /\ "reorder" \in Orders
  BY DEF Token, ReorderKeywords, Orders
<1> HIDE DEF t
<1>7. Stays(x, Dirty([x EXCEPT !.text = Append(u, t)]), s)
  BY <1>5, <1>6, ClauseStays
<1> QED BY <1>4, <1>7

LEMMA ExtendStays ==
  ASSUME NEW x, NEW s, NEW name, BindsOK(x, s), Trails(x, s, name), NEW kw, kw # "WHERE", kw = "ORDER_BY" => name \in Orders
  PROVE  Stays(x, Dirty([x EXCEPT !.text = ExtendClause(x.text, kw)]), s)
<1> DEFINE t == IF Mentions(x.text, kw) THEN [Token("COMMA") EXCEPT !.of = kw] ELSE Token(kw)
<1>1. ExtendClause(x.text, kw) = Append(x.text, t)
  BY DEF ExtendClause
<1>2. t.ph = <<>> /\ t.kw \in {"COMMA", kw}
  BY DEF Token
<1> HIDE DEF t
<1>3. t.kw # "WHERE" /\ (t.kw = "ORDER_BY" => name \in Orders)
  BY <1>2
<1> QED BY <1>1, <1>2, <1>3, ClauseAtTheEnd

LEMMA SetClauseStays ==
  ASSUME NEW x, NEW s, NEW name, BindsOK(x, s), Trails(x, s, name), NEW kw \in {"LIMIT", "OFFSET"}
  PROVE  Stays(x, Dirty([x EXCEPT !.text = SetClause(x.text, kw)]), s)
<1> DEFINE t == Token(kw)
<1>1. t.ph = <<>> /\ t.kw = kw
  BY DEF Token
<1> HIDE DEF t
<1>2. Stays(x, Dirty([x EXCEPT !.text = Append(x.text, t)]), s)
  BY <1>1, ClauseAtTheEnd
<1>3. Stays(x, Dirty([x EXCEPT !.text = x.text]), s)
  BY NothingAtTheEnd
<1>4. SetClause(x.text, kw) = x.text \/ SetClause(x.text, kw) = Append(x.text, t)
  BY DEF SetClause, t
<1> QED BY <1>2, <1>3, <1>4

LEMMA PageStays ==
  ASSUME NEW x, NEW s, NEW name, BindsOK(x, s), Trails(x, s, name), name # "reorder"
  PROVE  Stays(x, ForPage(x), s)
<1> DEFINE t == Token("LIMIT")
           o == Token("OFFSET")
           one == Append(x.text, t)
           two == Append(one, o)
           y == Dirty([x EXCEPT !.text = one])
           z == Dirty([y EXCEPT !.text = Append(y.text, o)])
<1>1. t.ph = <<>> /\ t.kw = "LIMIT" /\ o.ph = <<>> /\ o.kw = "OFFSET"
  BY DEF Token
<1>2. Marked(x.text) /\ DOMAIN x = Fields
  BY DEF BindsOK, Lined, Tallied
<1>3. x.text \o <<t, o>> = two
  <2>1. PICK S : x.text \in Seq(S)
    BY <1>2 DEF Marked
  <2> HIDE DEF t, o
  <2>2. x.text \in Seq(S \cup {t, o}) /\ t \in S \cup {t, o} /\ o \in S \cup {t, o}
    BY <2>1
  <2> QED BY <2>2
<1> HIDE DEF t, o
<1>4. Stays(x, y, s)
  BY <1>1, ClauseAtTheEnd
<1>5. y.dialect = x.dialect /\ y.tail = x.tail /\ y.text = one /\ DOMAIN y = Fields
  BY <1>2 DEF Dirty, Fields
<1>6. Trails(y, s, name)
  BY <1>5 DEF Trails
<1>7. z = Dirty([x EXCEPT !.text = two])
  BY <1>2, <1>5 DEF Dirty, Fields
<1> HIDE DEF y
<1>8. Stays(y, z, s)
  BY <1>1, <1>4, <1>6, ClauseAtTheEnd DEF Stays
<1>9. ForPage(x) = Dirty([x EXCEPT !.text = two])
  BY <1>3 DEF ForPage, t, o
<1> HIDE DEF z
<1>10. Stays(x, z, s)
  BY <1>4, <1>8 DEF Stays
<1> QED BY <1>7, <1>9, <1>10

----------------------------------------------------------------------------
(* Sending a SELECT.                                                         *)

\* A statement sent by a builder of dialect d, for every value it carries.
Matched(q, d) == q.dialect = d /\ Fits(q)

LEMMA SettledMatches ==
  ASSUME NEW q, NEW d, Settled(q, d)
  PROVE  Matched(q, d)
BY DEF Settled, Matched, Fits

\* More behind a statement that ends before: nothing, or the call's own value.
LEMMA MoreFits ==
  ASSUME NEW q, NEW m, FitsAt(q, m, {}), NEW own \in {{}, {OwnMark(q.dialect, m)}}, NEW more, Marked(more), MarksOf(more) = own,
         Rising(Placeholders(more)), NEW r, r.dialect = q.dialect, r.text = q.text \o more,
         r.values = IF own = {} THEN q.values ELSE q.values \o <<OwnValue>>
  PROVE  FitsAt(r, m, own)
<1>1. /\ m \in Nat /\ q.values = Numbered(m) /\ Marked(q.text) /\ MarksOf(q.text) = Bound(q.dialect, m)
      /\ q.dialect # "postgres" => Rising(Placeholders(q.text))
  BY DEF FitsAt, MarksOf
<1>2. PICK S : Holds(S, PH) /\ q.text \in Seq(S) /\ more \in Seq(S)
  BY <1>1, MarkedBoth
<1>3. /\ r.text \in Seq(S) /\ MarksOf(r.text) = Bound(q.dialect, m) \cup own
      /\ Rising(Placeholders(r.text)) <=> (Rising(Placeholders(q.text)) /\ Rising(Placeholders(more)) /\ Lead(Bound(q.dialect, m), own))
  BY <1>1, <1>2, TextsJoin
<1>4. Lead(Bound(q.dialect, m), own)
  <2>1. \A p \in Bound(q.dialect, m) : p.at \in 1 .. m
    BY DEF Bound, Mark
  <2>2. \A p \in own : p.at = OwnValue
    BY DEF OwnMark
  <2>3. \A i \in 1 .. m : i # OwnValue
    BY <1>1 DEF OwnValue
  <2> QED BY <2>1, <2>2, <2>3 DEF Lead, Prior
<1>5. Marked(r.text)
  BY <1>2, <1>3 DEF Marked
<1>6. r.values = IF own = {} THEN Numbered(m) ELSE Numbered(m) \o <<OwnValue>>
  BY <1>1
<1> QED BY <1>1, <1>3, <1>4, <1>5, <1>6 DEF FitsAt, MarksOf

LEMMA ComposedFits ==
  ASSUME NEW q, NEW d, Settled(q, d), NEW more, Marked(more), MarksOf(more) = {}
  PROVE  Matched(Compose(q, more, <<>>), d)
<1> DEFINE r == Compose(q, more, <<>>)
<1>1. PICK m : FitsAt(q, m, {})
  BY DEF Settled
<1>2. q.dialect = d /\ q.values = Numbered(m) /\ m \in Nat
  BY <1>1 DEF FitsAt, Settled
<1>3. r.dialect = q.dialect /\ r.text = q.text \o more /\ r.values = q.values
  <2>1. q.values \o <<>> = q.values
    BY <1>2 DEF Numbered
  <2>2. DOMAIN q = {"dialect", "head", "text", "values"}
    BY DEF Settled, StatementFields
  <2> QED BY <2>1, <2>2 DEF Compose
<1>4. Rising(Placeholders(more))
  BY Unmarked DEF MarksOf
<1> HIDE DEF r
<1>5. FitsAt(r, m, {})
  BY <1>1, <1>3, <1>4, MoreFits
<1> QED BY <1>2, <1>3, <1>5 DEF Matched, Fits, r

LEMMA TokensAreUnmarked ==
  ASSUME NEW kw, NEW then
  PROVE  /\ Marked(<<Token(kw)>>) /\ MarksOf(<<Token(kw)>>) = {}
         /\ Marked(<<Token(kw), Token(then)>>) /\ MarksOf(<<Token(kw), Token(then)>>) = {}
<1> DEFINE t == Token(kw)
           u == Token(then)
           S == {t, u}
<1>1. t.ph = <<>> /\ u.ph = <<>>
  BY DEF Token
<1>2. <<>> \in Seq(PH) /\ Marks(<<>>) = {}
  BY Unmarked
<1> HIDE DEF t, u
<1>3. Holds(S, PH) /\ S = {v \in S : Marks(v.ph) = {}}
  BY <1>1, <1>2 DEF Holds
<1>4. <<>> \in Seq(S) /\ <<t>> \in Seq(S) /\ <<t, u>> \in Seq(S)
  OBVIOUS
<1> HIDE DEF S
<1>5. \A w \in Seq(S) : Marked(w) /\ MarksOf(w) = {}
  BY <1>3, <1>4, UnmarkedEnd DEF Marked
<1> QED BY <1>4, <1>5 DEF t, u

LEMMA ComposedOK ==
  ASSUME NEW q, NEW d, Settled(q, d)
  PROVE  /\ Matched(Compose(q, <<Token("LIMIT")>>, <<>>), d)
         /\ Matched(Compose(q, <<Token("LIMIT"), Token("OFFSET")>>, <<>>), d)
BY TokensAreUnmarked, ComposedFits

LEMMA OwnIs ==
  ASSUME NEW q, NEW m \in Nat, Len(q.values) = m
  PROVE  OwnPlaceholder(q) = OwnMark(q.dialect, m) /\ OwnMark(q.dialect, m) \in PH /\ OwnTerm(q).ph = <<OwnMark(q.dialect, m)>>
<1>1. OwnPlaceholder(q) = OwnMark(q.dialect, m)
  BY DEF OwnPlaceholder, OwnMark
<1>2. OwnMark(q.dialect, m) \in PH
  BY DEF OwnMark, PH, OwnValue
<1> QED BY <1>1, <1>2 DEF OwnTerm, Term

\* A key after the memo's own values: find(), and the next page of lazy().
LEMMA KeyFits ==
  ASSUME NEW q, NEW d, Settled(q, d), NEW end, Marked(end), MarksOf(end) = {}
  PROVE  LET w == WhereToken("WHERE", RenderWhereTerms(<<OwnTerm(q)>>))
         IN  Matched(Compose(q, <<w>> \o end, <<OwnValue>>), d)
<1> DEFINE o == OwnTerm(q)
           w == WhereToken("WHERE", RenderWhereTerms(<<o>>))
           more == <<w>> \o end
           r == Compose(q, more, <<OwnValue>>)
<1>1. PICK m : FitsAt(q, m, {})
  BY DEF Settled
<1>2. q.dialect = d /\ q.values = Numbered(m) /\ m \in Nat /\ Len(q.values) = m
  BY <1>1, ValuesAre DEF FitsAt, Settled
<1> DEFINE p == OwnMark(q.dialect, m)
<1>3. o.ph = <<p>> /\ p \in PH /\ p.at # 0
  <2>1. o.ph = <<p>> /\ p \in PH
    BY <1>2, OwnIs
  <2>2. p.at # 0
    BY DEF OwnMark, OwnValue
  <2> QED BY <2>1, <2>2
<1>4. w.ph = BodyPlaceholders(RenderWhereTerms(<<o>>))
  BY DEF WhereToken, Token
<1> HIDE DEF o, p, w
<1>5. Holds({o}, PH) /\ <<o>> \in Seq({o})
  <2>1. o.ph \in Seq(PH)
    BY <1>3
  <2> QED BY <2>1 DEF Holds
<1>6. w.ph = <<p>>
  BY <1>3, <1>4, <1>5, BodyInOrder, OnePlaceholders
<1>7. Marks(<<p>>) = {p} /\ Rising(<<p>>)
  <2>1. DOMAIN <<p>> = {1} /\ <<p>>[1] = p
    OBVIOUS
  <2> QED BY <1>3, <2>1 DEF Marks, Rising
<1>8. PICK S : Holds(S, PH) /\ end \in Seq(S) /\ w \in S
  <2>1. w.ph \in Seq(PH)
    BY <1>3, <1>6
  <2> QED BY <2>1, MarkedWith
<1>9. Marked(more) /\ MarksOf(more) = {p} /\ Rising(Placeholders(more))
  <2>1. <<w>> \in Seq(S)
    BY <1>8
  <2>2. MarksOf(<<w>>) = {p} /\ Rising(Placeholders(<<w>>))
    BY <1>6, <1>7, OnePlaceholders DEF MarksOf
  <2>3. Rising(Placeholders(end))
    BY Unmarked DEF MarksOf
  <2>4. /\ more \in Seq(S) /\ MarksOf(more) = MarksOf(<<w>>) \cup MarksOf(end)
        /\ Rising(Placeholders(more)) <=> (Rising(Placeholders(<<w>>)) /\ Rising(Placeholders(end)) /\ Lead(MarksOf(<<w>>), MarksOf(end)))
    BY <1>8, <2>1, TextsJoin
  <2> QED BY <1>8, <2>2, <2>3, <2>4, Unmarked DEF Marked
<1> HIDE DEF more
<1>10. r.dialect = q.dialect /\ r.text = q.text \o more /\ r.values = q.values \o <<OwnValue>>
  <2>1. DOMAIN q = {"dialect", "head", "text", "values"}
    BY DEF Settled, StatementFields
  <2> QED BY <2>1 DEF Compose
<1> HIDE DEF r
<1>11. {p} # {} /\ {p} \in {{}, {OwnMark(q.dialect, m)}}
  BY DEF p
<1>12. FitsAt(r, m, {p})
  BY <1>1, <1>9, <1>10, <1>11, MoreFits
<1> QED BY <1>2, <1>10, <1>12 DEF Matched, Fits, r, more, w, o

\* cursorPaginate(): the key of the page goes behind the conditions, in the WHERE.
LEMMA CursorFits ==
  ASSUME NEW x, NEW s, Chain(s), BindsOK(x, s), x.dialect # "postgres" => ~Said(s, {"having"})
  PROVE  Matched(CursorPaginate(x), x.dialect)
<1> DEFINE d == x.dialect
           m == x.params
           base == Statement(x, <<>>)
           o == OwnTerm(base)
           p == OwnMark(d, m)
           w == x.terms \o <<o>>
           l == CurrentSql(x, <<o>>)
           end == <<Token("ORDER_BY"), Token("LIMIT")>>
           text == Reorder(l) \o end
           r == CursorPaginate(x)
           v == View(x.text)
<1>1. Tallied(x) /\ (x.dialect # "postgres" => InLine(x, v, s))
  BY DEF BindsOK, Lined
<1>2. /\ m \in Nat /\ Marked(x.text) /\ Marked(x.terms) /\ x.tail \in BOOLEAN /\ x.tailPred \in BOOLEAN
      /\ MarksOf(x.text) \cup MarksOf(x.terms) = Bound(d, m)
      /\ x.tail # TRUE => "WHERE" \notin v.words
  BY <1>1 DEF Tallied
<1>3. base.dialect = d /\ base.values = Numbered(m) /\ Len(base.values) = m /\ DOMAIN base = {"dialect", "head", "text", "values"}
  <2>1. base.dialect = d /\ base.values = Numbered(m) /\ DOMAIN base = {"dialect", "head", "text", "values"}
    BY StatementIs DEF StatementFields
  <2> QED BY <1>2, <2>1 DEF Numbered
<1>4. r.dialect = d /\ r.text = text /\ r.values = Numbered(m) \o <<OwnValue>>
  <2> HIDE DEF base, text
  <2>1. r = [base EXCEPT !.text = text, !.values = base.values \o <<OwnValue>>]
    BY DEF CursorPaginate, base, text
  <2> HIDE DEF r
  <2> QED BY <1>3, <2>1
<1> HIDE DEF r
<1>5. o.ph = <<p>> /\ p \in PH /\ p.at = OwnValue /\ p.at # 0
  <2> HIDE DEF base
  <2>1. o.ph = <<OwnMark(base.dialect, m)>> /\ OwnMark(base.dialect, m) \in PH
    BY <1>2, <1>3, OwnIs
  <2>2. p.at = OwnValue /\ p.at # 0
    BY DEF OwnMark, OwnValue
  <2> QED BY <1>3, <2>1, <2>2
<1> HIDE DEF o, base, v
<1>6. Marks(<<p>>) = {p} /\ Rising(<<p>>) /\ <<p>> \in Seq(PH)
  <2>1. DOMAIN <<p>> = {1} /\ <<p>>[1] = p
    OBVIOUS
  <2> QED BY <1>5, <2>1 DEF Marks, Rising
<1>7. PICK S : Holds(S, PH) /\ x.terms \in Seq(S) /\ o \in S
  BY <1>2, <1>5, <1>6, MarkedWith
<1>8. w = Append(x.terms, o)
  BY <1>7
<1>9. Lead(Bound(d, m), {p})
  <2>1. \A q \in Bound(d, m) : q.at \in 1 .. m
    BY DEF Bound, Mark
  <2>2. \A i \in 1 .. m : i # OwnValue
    BY <1>2 DEF OwnValue
  <2> QED BY <1>5, <2>1, <2>2 DEF Lead, Prior
<1>10. /\ MarksOf(w) = MarksOf(x.terms) \cup {p} /\ Marked(w)
       /\ Rising(Placeholders(x.terms)) => Rising(Placeholders(w))
  <2>1. /\ MarksOf(Append(x.terms, o)) = MarksOf(x.terms) \cup Marks(o.ph) /\ Append(x.terms, o) \in Seq(S)
        /\ Rising(Placeholders(Append(x.terms, o))) <=> (Rising(Placeholders(x.terms)) /\ Rising(o.ph) /\ Lead(MarksOf(x.terms), Marks(o.ph)))
    BY <1>7, OneMore
  <2>2. Lead(MarksOf(x.terms), {p})
    BY <1>2, <1>9 DEF Lead
  <2> QED BY <1>5, <1>6, <1>7, <1>8, <2>1, <2>2 DEF Marked
<1> HIDE DEF p
<1>11. CurrentForm(x, w, l)
  BY <1>2, <1>10, CurrentIs DEF CurrentSql
<1> HIDE DEF w, l
<1>12. Marked(l) /\ MarksOf(l) = Bound(d, m) \cup {p}
  BY <1>2, <1>10, <1>11, CurrentMarks
<1>13. x.dialect # "postgres" => Rising(Placeholders(l)) /\ Sorted(View(l))
  <2> SUFFICES ASSUME x.dialect # "postgres" PROVE Rising(Placeholders(l)) /\ Sorted(View(l))
    OBVIOUS
  <2>1. InLine(x, v, s) /\ ~Said(s, {"having"})
    BY <1>1
  <2>2. OnlyWhere(v)
    BY <2>1 DEF InLine, OnlyWhere
  <2>3. x.tail # TRUE => MarksOf(x.text) = {}
    <3>1. PICK R : Holds(R, PH) /\ x.text \in Seq(R)
      BY <1>2 DEF Marked
    <3>2. "WHERE" \notin v.words => v.marks["WHERE"] = {}
      BY <3>1, KeyIsSaid, KeysAre DEF v
    <3>3. MarksOf(x.text) = UNION {v.marks[key] : key \in FragmentKeys}
      BY <3>1, MarksAreThere DEF v
    <3> QED BY <1>2, <2>2, <3>2, <3>3 DEF OnlyWhere
  <2>4. x.tail = TRUE => Lead(MarksOf(x.text), MarksOf(w))
    <3>1. x.tail = TRUE => Lead(MarksOf(x.text), MarksOf(x.terms))
      BY <2>1 DEF InLine
    <3>2. Lead(MarksOf(x.text), {p})
      BY <1>2, <1>9 DEF Lead
    <3> QED BY <1>10, <3>1, <3>2 DEF Lead
  <2>5. Fitting(x, v, w)
    <3>1. Rising(Placeholders(w))
      BY <1>10, <2>1 DEF InLine
    <3>2. x.tail # TRUE => Lead(MarksOf(w), MarksOf(x.text))
      BY <2>3, Unmarked
    <3>3. (x.tail = TRUE /\ x.tailPred = TRUE) => v.key # BaseText
      BY <2>1 DEF InLine
    <3> QED BY <2>2, <2>4, <3>1, <3>2, <3>3 DEF Fitting
  <2>6. Rising(Placeholders(x.text)) /\ Sorted(v) /\ v.marks[BaseText] = {}
    BY <2>1 DEF InLine
  <2> QED BY <1>2, <1>11, <2>5, <2>6, CurrentStraight DEF v
<1>14. Marked(Reorder(l)) /\ MarksOf(Reorder(l)) = Bound(d, m) \cup {p} /\ (d # "postgres" => Rising(Placeholders(Reorder(l))))
  <2>1. PICK R : Holds(R, PH) /\ l \in Seq(R)
    BY <1>12 DEF Marked
  <2> QED BY <1>12, <1>13, <2>1, ReorderMarks DEF Marked
<1>15. Marked(text) /\ MarksOf(text) = Bound(d, m) \cup {p} /\ (d # "postgres" => Rising(Placeholders(text)))
  <2>1. Marked(end) /\ MarksOf(end) = {} /\ Rising(Placeholders(end))
    BY TokensAreUnmarked, Unmarked DEF MarksOf
  <2> DEFINE u == Reorder(l)
  <2> HIDE DEF end, u
  <2>2. Marked(u) /\ MarksOf(u) = Bound(d, m) \cup {p} /\ (d # "postgres" => Rising(Placeholders(u)))
    BY <1>14 DEF u
  <2>3. PICK R : Holds(R, PH) /\ u \in Seq(R) /\ end \in Seq(R)
    BY <2>1, <2>2, MarkedBoth
  <2>4. /\ u \o end \in Seq(R) /\ MarksOf(u \o end) = MarksOf(u) \cup MarksOf(end)
        /\ Rising(Placeholders(u \o end)) <=> (Rising(Placeholders(u)) /\ Rising(Placeholders(end)) /\ Lead(MarksOf(u), MarksOf(end)))
    BY <2>3, TextsJoin
  <2>5. Marked(u \o end) /\ MarksOf(u \o end) = Bound(d, m) \cup {p} /\ (d # "postgres" => Rising(Placeholders(u \o end)))
    BY <2>1, <2>2, <2>3, <2>4, Unmarked DEF Marked
  <2> QED BY <2>5 DEF u
<1> HIDE DEF text
<1>16. FitsAt(r, m, {p})
  <2>1. {p} # {} /\ {p} = {OwnMark(d, m)}
    BY DEF p
  <2> QED BY <1>2, <1>4, <1>15, <2>1 DEF FitsAt, MarksOf
<1> QED BY <1>4, <1>16 DEF Matched, Fits, r

SendsOne(d) == \E q : sent' = <<q>> /\ Matched(q, d)

LEMMA CountedFits ==
  ASSUME NEW x, NEW s, Chain(s), BindsOK(x, s), ~Excluded(s, x.dialect)
  PROVE  Matched(Count(x), x.dialect) /\ Matched(Aggregate(x), x.dialect)
<1> DEFINE t == CurrentSql(x, <<>>)
           q == Statement(x, t)
<1>1. Settled(q, x.dialect)
  BY CurrentSettled DEF BindsOK
<1>2. Count(x) = q \/ \E h : Count(x) = [q EXCEPT !.head = h]
  <2> HIDE DEF q
  <2>1. Count(x) = IF Mentions(t, "GROUP_BY") THEN q ELSE [q EXCEPT !.head = ReplaceList(q.head, {"count"}, FALSE)]
    BY DEF Count, q
  <2> QED BY <2>1
<1>3. \E h : Aggregate(x) = [q EXCEPT !.head = h]
  <2> HIDE DEF q
  <2>1. Aggregate(x) = [q EXCEPT !.head = ReplaceList(q.head, {"agg"}, FALSE)]
    BY DEF Aggregate, q
  <2> QED BY <2>1
<1> HIDE DEF q
<1>4. \A h : Settled([q EXCEPT !.head = h], x.dialect)
  <2> TAKE h
  <2> DEFINE r == [q EXCEPT !.head = h]
  <2>1. DOMAIN r = DOMAIN q /\ r.dialect = q.dialect /\ r.text = q.text /\ r.values = q.values
    OBVIOUS
  <2> HIDE DEF r
  <2>2. Settled(r, x.dialect)
    BY <1>1, <2>1, SameFits
  <2> QED BY <2>2 DEF r
<1> QED BY <1>1, <1>2, <1>3, <1>4, SettledMatches

LEMMA KeyStatements ==
  ASSUME NEW x, NEW d, Settled(Built(x), d)
  PROVE  Matched(Find(x), d) /\ Matched(Lazy(x), d)
<1> DEFINE q == Built(x)
           w == WhereToken("WHERE", RenderWhereTerms(<<OwnTerm(q)>>))
           l == Token("LIMIT")
           o == Token("ORDER_BY")
<1>1. Find(x) = Compose(q, <<w, l>>, <<OwnValue>>) /\ Lazy(x) = Compose(q, <<w, o, l>>, <<OwnValue>>)
  BY DEF Find, Lazy
<1>2. Marked(<<l>>) /\ MarksOf(<<l>>) = {} /\ Marked(<<o, l>>) /\ MarksOf(<<o, l>>) = {}
  BY TokensAreUnmarked
<1> HIDE DEF l, o
<1>3. Matched(Compose(q, <<w>> \o <<l>>, <<OwnValue>>), d) /\ Matched(Compose(q, <<w>> \o <<o, l>>, <<OwnValue>>), d)
  BY <1>2, KeyFits
<1> HIDE DEF w
<1>4. <<w>> \o <<l>> = <<w, l>> /\ <<w>> \o <<o, l>> = <<w, o, l>>
  <2> DEFINE R == {w, l, o}
  <2>1. w \in R /\ l \in R /\ o \in R
    OBVIOUS
  <2> HIDE DEF R
  <2>2. <<w>> \o <<l>> = Append(<<w>>, l) /\ <<w, l>> = Append(<<w>>, l)
    BY <2>1
  <2>3. <<w>> \o <<o, l>> = Append(Append(<<w>>, o), l) /\ <<w, o, l>> = Append(Append(<<w>>, o), l)
    BY <2>1
  <2> QED BY <2>2, <2>3
<1> QED BY <1>1, <1>3, <1>4

LEMMA SendsFit ==
  ASSUME Chain(calls), BindsOK(b, calls), ~Excluded(calls', b.dialect), SendSelect
  PROVE  Stays(b, b', calls') /\ SendsOne(b.dialect)
<1> DEFINE d == b.dialect
           m == calls'
           x == EnsureBuilt(b)
<1>1. PICK name \in SendNames : m = Append(calls, name)
  BY SelectNames DEF CallsAre, May
<1>2. Chain(m) /\ BindsOK(b, m)
  <2>1. name # "having"
    BY DEF SendNames
  <2>2. ~Excluded(Append(calls, name), b.dialect)
    BY <1>1
  <2> QED BY <1>1, <2>1, <2>2, CallStays, Included
<1> DEFINE s == m
<1>3. ~Excluded(s, d)
  OBVIOUS
<1> HIDE DEF s
<1>4. Chain(s) /\ BindsOK(b, s)
  BY <1>2 DEF s
<1>5. Settled(Built(b), d) /\ Stays(b, x, s) /\ Stays(b, b, s)
  <2>1. Settled(Built(b), d) /\ BindsOK(x, s) /\ SameLine(b, x)
    BY <1>3, <1>4, BuiltSettled
  <2> QED BY <1>4, <2>1 DEF Stays, SameLine
<1> HIDE DEF x
<1>6. ASSUME NEW next, Stays(b, next, s), NEW q, Matched(q, d), Send(next, q)
      PROVE  Stays(b, b', calls') /\ SendsOne(b.dialect)
  BY <1>6 DEF Send, SendsOne, s
<1> HIDE DEF d
<1>7. CASE SendMemo
  <2>1. Send(x, Built(b))
    BY <1>7 DEF SendMemo, Execute, Exists, x
  <2> QED BY <1>5, <1>6, <2>1, SettledMatches
<1>8. CASE SendOneRow
  <2>1. Send(x, Compose(Built(b), <<Token("LIMIT")>>, <<>>))
    BY <1>8 DEF SendOneRow, First, Value, x
  <2> QED BY <1>5, <1>6, <2>1, ComposedOK
<1>9. CASE SendPage
  <2> DEFINE end == <<Token("LIMIT"), Token("OFFSET")>>
  <2>1. \/ Send(x, Compose(Built(b), end, <<>>))
        \/ Send(b, Compose(ToSQL(b), end, <<>>))
        \/ May("select", "cursorPaginate") /\ Send(b, CursorPaginate(b))
    BY <1>9 DEF SendPage, Paginate, SimplePaginate, PaginateTx, x
  <2> HIDE DEF end
  <2>2. Matched(Compose(Built(b), end, <<>>), d)
    BY <1>5, ComposedOK DEF end
  <2>3. Matched(Compose(ToSQL(b), end, <<>>), d)
    <3>1. Settled(ToSQL(b), d)
      BY <1>3, <1>4, CurrentSettled DEF ToSQL, BindsOK, d
    <3> QED BY <3>1, ComposedOK DEF end
  <2>4. May("select", "cursorPaginate") => Matched(CursorPaginate(b), d)
    <3> SUFFICES ASSUME May("select", "cursorPaginate") PROVE Matched(CursorPaginate(b), d)
      OBVIOUS
    <3>1. ~Excluded(Append(calls, "cursorPaginate"), b.dialect)
      BY DEF May
    <3>2. b.dialect # "postgres" => ~Said(calls, {"having"})
      BY <3>1, Included
    <3> QED BY <3>2, CursorFits DEF d
  <2> QED BY <1>5, <1>6, <2>1, <2>2, <2>3, <2>4
<1>10. CASE SendKey
  <2>1. Send(x, Find(b)) \/ Send(x, Lazy(b))
    BY <1>10 DEF SendKey, x
  <2>2. Matched(Find(b), d) /\ Matched(Lazy(b), d)
    BY <1>5, KeyStatements
  <2> QED BY <1>5, <1>6, <2>1, <2>2
<1>11. CASE SendAggregate
  <2>1. Send(b, Count(b)) \/ Send(b, Aggregate(b))
    BY <1>11 DEF SendAggregate
  <2>2. Matched(Count(b), d) /\ Matched(Aggregate(b), d)
    BY <1>3, <1>4, CountedFits DEF d
  <2> QED BY <1>5, <1>6, <2>1, <2>2
<1>12. CASE SendText
  <2>1. Send(b, ToSQL(b))
    BY <1>12 DEF SendText
  <2>2. Settled(ToSQL(b), d)
    BY <1>3, <1>4, CurrentSettled DEF ToSQL, BindsOK, d
  <2> QED BY <1>5, <1>6, <2>1, <2>2, SettledMatches
<1> QED BY <1>7, <1>8, <1>9, <1>10, <1>11, <1>12 DEF SendSelect

\* get(): the text as it stands, and the condition of the soft deletes.
LEMMA GetStays ==
  ASSUME NEW x, NEW s, Chain(s), BindsOK(x, s), ~Excluded(s, x.dialect), NEW on
  PROVE  Stays(x, GetBuilder(x, on), s) /\ Matched(Get(x, on), x.dialect)
<1> DEFINE plain == [x EXCEPT !.built = <<Statement(x, CurrentSql(x, <<>>))>>]
           p == WhereNull(plain, "AND")
           k == [p EXCEPT !.deletedAt = TRUE]
           g == GetBuilder(x, on)
<1>1. SameLine(x, x) /\ DOMAIN x = Fields /\ Lined(x, s)
  BY SelfLine
<1>2. /\ DOMAIN plain = Fields /\ plain.pivots = x.pivots /\ plain.dialect = x.dialect /\ plain.terms = x.terms
      /\ plain.params = x.params /\ plain.tail = x.tail /\ plain.tailPred = x.tailPred /\ plain.having = x.having
      /\ plain.text = x.text /\ plain.built = <<Statement(x, CurrentSql(x, <<>>))>>
  BY <1>1 DEF Fields
<1>3. g = EnsureBuilt(k) \/ g = plain
  BY DEF GetBuilder
<1> HIDE DEF plain
<1>4. BindsOK(plain, s)
  <2>1. SameLine(x, plain)
    BY <1>1, <1>2, FieldsLine
  <2>2. Lined(plain, s)
    BY <1>1, <2>1, SameLined
  <2>3. Settled(Statement(x, CurrentSql(x, <<>>)), x.dialect)
    BY <1>1, CurrentSettled
  <2> DEFINE q == Statement(x, CurrentSql(x, <<>>))
  <2> HIDE DEF q
  <2>4. plain.built[1] = q /\ Settled(q, plain.dialect)
    BY <1>2, <2>3 DEF q
  <2> QED BY <2>2, <2>4 DEF BindsOK, Recalls
<1>5. Stays(plain, p, s)
  BY <1>4, PredicateStays DEF WhereNull
<1> HIDE DEF p
<1>6. Stays(plain, k, s)
  <2>1. SameLine(p, p) /\ DOMAIN p = Fields /\ BindsOK(p, s) /\ p.dialect = plain.dialect
    BY <1>5, SelfLine DEF Stays
  <2>2. /\ DOMAIN k = Fields /\ k.pivots = p.pivots /\ k.dialect = p.dialect /\ k.terms = p.terms
        /\ k.params = p.params /\ k.tail = p.tail /\ k.tailPred = p.tailPred /\ k.having = p.having
        /\ k.text = p.text /\ k.built = p.built
    BY <2>1 DEF Fields
  <2> HIDE DEF k
  <2>3. SameLine(p, k)
    BY <2>1, <2>2, FieldsLine
  <2> QED BY <2>1, <2>2, <2>3, EditStays DEF Stays
<1> HIDE DEF k
<1>7. BindsOK(k, s) /\ k.dialect = x.dialect /\ ~Excluded(s, k.dialect)
  BY <1>2, <1>6 DEF Stays
<1>8. BindsOK(EnsureBuilt(k), s) /\ SameLine(k, EnsureBuilt(k))
  BY <1>7, BuiltSettled
<1> HIDE DEF g
<1>9. BindsOK(g, s) /\ g.dialect = x.dialect
  BY <1>2, <1>3, <1>4, <1>7, <1>8 DEF SameLine
<1>10. Matched(Built(g), x.dialect)
  <2>1. Settled(Built(g), g.dialect)
    BY <1>9, BuiltSettled
  <2> QED BY <1>9, <2>1, SettledMatches
<1> QED BY <1>9, <1>10 DEF Stays, Get, g

----------------------------------------------------------------------------
(* The calls of the SELECT builder, all together.                            *)

\* A clause behind the text leaves every value where its placeholder is.
LEMMA LateClausesStay ==
  ASSUME Chain(calls), BindsOK(b, calls), ~Excluded(calls', b.dialect),
         CallGroupBy \/ CallOrderBy \/ CallReorder \/ CallLimit \/ CallOffset \/ CallForPage \/ CallLock
  PROVE  Stays(b, b', calls') /\ sent' = <<>>
<1>1. ASSUME NEW name \in LateTrailing, May("select", name)
      PROVE  calls' = Append(calls, name) /\ Trails(b, calls', name) /\ BindsOK(b, calls')
  <2> DEFINE m == Append(calls, name)
  <2>1. calls' = m
    BY <1>1 DEF May
  <2> HIDE DEF m
  <2>2. ~Excluded(m, b.dialect)
    BY <2>1
  <2>3. Trails(b, m, name) /\ BindsOK(b, m)
    BY <2>2, ClausesTrail DEF m
  <2> QED BY <2>1, <2>3 DEF m
<1>2. LateTrailing = {"groupBy", "orderBy", "reorder", "limit", "offset", "forPage", "lock"}
  BY DEF LateTrailing, Trailing
<1>3. ASSUME NEW next, Stays(b, next, calls'), Shape(next)
      PROVE  Stays(b, b', calls') /\ sent' = <<>>
  BY <1>3 DEF Shape
<1> DEFINE s == calls'
<1>4. CASE CallGroupBy
  <2>1. May("select", "groupBy") /\ Shape(GroupBy(b))
    BY <1>4 DEF CallGroupBy
  <2>2. Trails(b, s, "groupBy") /\ BindsOK(b, s)
    BY <1>1, <1>2, <2>1
  <2>3. Stays(b, GroupBy(b), s)
    <3> HIDE DEF s
    <3> QED BY <2>2, ExtendStays DEF GroupBy
  <2> QED BY <1>3, <2>1, <2>3
<1>5. CASE CallOrderBy
  <2>1. May("select", "orderBy") /\ Shape(OrderBy(b))
    BY <1>5 DEF CallOrderBy
  <2>2. Trails(b, s, "orderBy") /\ BindsOK(b, s)
    BY <1>1, <1>2, <2>1
  <2>3. Stays(b, OrderBy(b), s)
    <3> HIDE DEF s
    <3> QED BY <2>2, ExtendStays DEF OrderBy, Orders
  <2> QED BY <1>3, <2>1, <2>3
<1>6. CASE CallReorder
  <2>1. May("select", "reorder") /\ Shape(ReorderBy(b))
    BY <1>6 DEF CallReorder
  <2>2. Trails(b, s, "reorder") /\ BindsOK(b, s)
    BY <1>1, <1>2, <2>1
  <2>3. Stays(b, ReorderBy(b), s)
    <3> HIDE DEF s
    <3> QED BY <2>2, ReorderStays
  <2> QED BY <1>3, <2>1, <2>3
<1>7. CASE CallLimit
  <2>1. May("select", "limit") /\ Shape(Limit(b))
    BY <1>7 DEF CallLimit
  <2>2. Trails(b, s, "limit") /\ BindsOK(b, s)
    BY <1>1, <1>2, <2>1
  <2>3. Stays(b, Limit(b), s)
    <3> HIDE DEF s
    <3> QED BY <2>2, SetClauseStays DEF Limit
  <2> QED BY <1>3, <2>1, <2>3
<1>8. CASE CallOffset
  <2>1. May("select", "offset") /\ Shape(Offset(b))
    BY <1>8 DEF CallOffset
  <2>2. Trails(b, s, "offset") /\ BindsOK(b, s)
    BY <1>1, <1>2, <2>1
  <2>3. Stays(b, Offset(b), s)
    <3> HIDE DEF s
    <3> QED BY <2>2, SetClauseStays DEF Offset
  <2> QED BY <1>3, <2>1, <2>3
<1>9. CASE CallForPage
  <2>1. May("select", "forPage") /\ Shape(ForPage(b))
    BY <1>9 DEF CallForPage
  <2>2. Trails(b, s, "forPage") /\ BindsOK(b, s)
    BY <1>1, <1>2, <2>1
  <2>3. Stays(b, ForPage(b), s)
    <3> HIDE DEF s
    <3> QED BY <2>2, PageStays
  <2> QED BY <1>3, <2>1, <2>3
<1>10. CASE CallLock
  <2>1. May("select", "lock") /\ Shape(LockForUpdate(b))
    BY <1>10 DEF CallLock
  <2>2. Trails(b, s, "lock") /\ BindsOK(b, s)
    BY <1>1, <1>2, <2>1
  <2>3. Stays(b, LockForUpdate(b), s)
    <3> HIDE DEF s
    <3> DEFINE t == Token("LOCK")
    <3>1. t.ph = <<>> /\ t.kw = "LOCK"
      BY DEF Token
    <3> HIDE DEF t
    <3>2. Stays(b, Dirty([b EXCEPT !.text = Append(b.text, t)]), s)
      BY <2>2, <3>1, ClauseAtTheEnd
    <3>3. LockForUpdate(b) = Dirty([b EXCEPT !.text = Append(b.text, t)])
      BY DEF LockForUpdate, t
    <3> QED BY <3>2, <3>3
  <2> QED BY <1>3, <2>1, <2>3
<1> QED BY <1>4, <1>5, <1>6, <1>7, <1>8, <1>9, <1>10

\* HAVING binds its values behind all the others.
LEMMA HavingsStay ==
  ASSUME Chain(calls), BindsOK(b, calls), ~Excluded(calls', b.dialect), CallHaving \/ CallHavingRaw
  PROVE  Stays(b, b', calls') /\ sent' = <<>>
<1>1. PICK name \in {"having", "havingRaw"}, k \in Nat :
        May("select", name) /\ (name = "havingRaw" => k = 0) /\ Shape(Having(b, k))
  BY DEF CallHaving, CallHavingRaw, HavingRaw
<1> DEFINE m == Append(calls, name)
<1>2. calls' = m /\ ~Excluded(m, b.dialect)
  BY <1>1 DEF May
<1>3. BindsOK(Having(b, k), Append(calls, name)) /\ Having(b, k).dialect = b.dialect
  BY <1>1, <1>2, HavingStays
<1> QED BY <1>1, <1>2, <1>3 DEF Shape, Stays

\* The other side of a set operator comes with its own values, ours stay.
LEMMA SetOpsStay ==
  ASSUME Chain(calls), BindsOK(b, calls), ~Excluded(calls', b.dialect), CallSetOp
  PROVE  Stays(b, b', calls') /\ sent' = <<>>
<1>1. May("select", "setOp")
  BY DEF CallSetOp
<1>2. calls' = Append(calls, "setOp") /\ ~Excluded(Append(calls, "setOp"), b.dialect)
  BY <1>1 DEF May
<1> DEFINE d == b.dialect
           One(second) == IF second = "nothing" THEN MakeSelect(d) ELSE Where(MakeSelect(d), 1, 1)
           Other(second) == IF second \in Conns THEN AddBooleanWhere(One(second), second, 1, 1) ELSE One(second)
<1>3. PICK kw \in {"UNION", "SETOP"}, second \in Conns \cup {"none", "nothing"} :
        b' = AppendSetOp(b, kw, Other(second)) /\ sent' = <<>>
  BY DEF CallSetOp
<1>4. Conns = {"AND", "OR"} /\ Conns = Conn
  BY DEF Conns, Conn
<1>5. \E k : Whole(Other(second), d, k)
  <2> HIDE DEF d
  <2>1. Whole(MakeSelect(d), d, 0)
    BY WholeBegins
  <2> DEFINE w == Where(MakeSelect(d), 1, 1)
  <2>2. Whole(w, d, 0 + 1)
    BY <1>4, <2>1, WholeGrows DEF Where
  <2> HIDE DEF w
  <2>3. second \in Conns => Whole(AddBooleanWhere(w, second, 1, 1), d, 0 + 1 + 1)
    BY <1>4, <2>2, WholeGrows DEF AddBooleanWhere
  <2>4. CASE second = "nothing"
    <3>1. Other(second) = MakeSelect(d)
      BY <1>4, <2>4
    <3> QED BY <2>1, <3>1
  <2>5. CASE second = "none"
    <3>1. Other(second) = w
      BY <1>4, <2>5 DEF w
    <3> QED BY <2>2, <3>1
  <2>6. CASE second \in Conns
    <3>1. Other(second) = AddBooleanWhere(w, second, 1, 1)
      BY <1>4, <2>6 DEF w
    <3> QED BY <2>3, <2>6, <3>1
  <2> QED BY <2>4, <2>5, <2>6
<1> DEFINE o == Other(second)
<1>6. PICK k : Whole(o, b.dialect, k)
  BY <1>5
<1>7. b' = AppendSetOp(b, kw, o)
  BY <1>3
<1> HIDE DEF o
<1>8. kw \in SetOperators
  BY DEF SetOperators
<1>9. BindsOK(AppendSetOp(b, kw, o), Append(calls, "setOp")) /\ AppendSetOp(b, kw, o).dialect = b.dialect
  BY <1>2, <1>6, <1>8, SetOpStays
<1> QED BY <1>2, <1>3, <1>7, <1>9 DEF Stays

SentMeets(q, d) == q # <<>> => Matched(q[1], d)

LEMMA ShapesStay ==
  ASSUME Chain(calls), BindsOK(b, calls), ~Excluded(calls', b.dialect), CallShape
  PROVE  Stays(b, b', calls') /\ sent' = <<>>
<1>1. ASSUME NEW name \in ShapeNames, May("select", name)
      PROVE  /\ calls' = Append(calls, name) /\ Chain(calls') /\ BindsOK(b, calls') /\ ~Excluded(calls', b.dialect)
             /\ name \in EditsMemo => Said(calls', EditsMemo)
  <2> DEFINE m == Append(calls, name)
  <2>1. calls' = m
    BY <1>1 DEF May
  <2> HIDE DEF m
  <2>2. ~Excluded(m, b.dialect)
    BY <2>1
  <2>3. Chain(m)
    BY <2>2, Included DEF m
  <2>4. name # "having"
    BY <1>1 DEF ShapeNames
  <2>5. BindsOK(b, m)
    BY <2>4, CallStays DEF m
  <2>6. name \in EditsMemo => Said(m, EditsMemo)
    BY SaidMore DEF m
  <2> QED BY <2>1, <2>2, <2>3, <2>5, <2>6 DEF m
<1>2. CallColumns \/ CallSelect \/ CallCTE \/ CallJoin \/ CallJoinSub \/ CallWith \/ CallWindow \/ CallWithCount \/ CallWithPivot
  BY DEF CallShape
<1>3. PICK name \in ShapeNames : May("select", name) /\ (CallWindow \/ CallWithCount \/ CallWithPivot => name \in EditsMemo)
  <2>1. CASE CallWindow \/ CallWithCount \/ CallWithPivot
    BY <2>1 DEF CallWindow, CallWithCount, CallWithPivot, EditsMemo, ShapeNames
  <2>2. CASE ~(CallWindow \/ CallWithCount \/ CallWithPivot)
    BY <2>2, SelectNames DEF CallsAre
  <2> QED BY <2>1, <2>2
<1> DEFINE s == calls'
<1>4. /\ Chain(s) /\ BindsOK(b, s) /\ ~Excluded(s, b.dialect)
      /\ CallWindow \/ CallWithCount \/ CallWithPivot => Said(s, EditsMemo)
  BY <1>1, <1>3
<1> HIDE DEF s
<1>5. CASE CallColumns \/ CallSelect
  <2>1. Stays(b, b', s) /\ sent' = <<>>
    BY <1>4, <1>5, ColumnsStay
  <2> QED BY <2>1 DEF s
<1>6. CASE CallCTE \/ CallJoin \/ CallJoinSub \/ CallWith
  <2>1. Stays(b, b', s) /\ sent' = <<>>
    BY <1>4, <1>6, SourcesStay
  <2> QED BY <2>1 DEF s
<1>7. CASE CallWindow \/ CallWithCount \/ CallWithPivot
  <2>1. Stays(b, b', s) /\ sent' = <<>>
    BY <1>4, <1>7, ListEditsStay
  <2> QED BY <2>1 DEF s
<1> QED BY <1>2, <1>5, <1>6, <1>7

LEMMA ConditionCallsStay ==
  ASSUME Chain(calls), BindsOK(b, calls), ~Excluded(calls', b.dialect), CallCondition
  PROVE  Stays(b, b', calls') /\ sent' = <<>>
<1>1. PICK name \in Conditions : May("select", name)
  BY SelectNames DEF CallsAre
<1> DEFINE s == Append(calls, name)
<1>2. calls' = s
  BY <1>1 DEF May
<1>3. ~Excluded(s, b.dialect)
  BY <1>2
<1>4. name # "having"
  BY DEF Conditions
<1>5. Chain(s) /\ BindsOK(b, s) /\ MayBind(b, s)
  <2>1. Chain(s)
    BY <1>3, Included
  <2>2. BindsOK(b, s)
    BY <1>4, CallStays
  <2>3. MayBind(b, s)
    BY <1>3, ConditionsMayBind
  <2> QED BY <2>1, <2>2, <2>3
<1> HIDE DEF s
<1>6. Stays(b, b', s) /\ sent' = <<>>
  BY <1>3, <1>5, ConditionsStay
<1> QED BY <1>2, <1>6

LEMMA TrashedStays ==
  ASSUME Chain(calls), BindsOK(b, calls), ~Excluded(calls', b.dialect), CallWithTrashed
  PROVE  Stays(b, b', calls') /\ sent' = <<>>
<1> DEFINE s == Append(calls, "withTrashed")
           y == [b EXCEPT !.trashed = "with"]
<1>1. calls' = s /\ b' = y /\ sent' = <<>>
  BY DEF CallWithTrashed, May, Shape, WithTrashed
<1>2. BindsOK(b, s)
  BY CallStays
<1> HIDE DEF s
<1>3. SameLine(b, b) /\ DOMAIN b = Fields
  BY <1>2, SelfLine
<1>4. /\ DOMAIN y = Fields /\ y.pivots = b.pivots /\ y.dialect = b.dialect /\ y.terms = b.terms
      /\ y.params = b.params /\ y.tail = b.tail /\ y.tailPred = b.tailPred /\ y.having = b.having
      /\ y.text = b.text /\ y.built = b.built
  BY <1>3 DEF Fields
<1> HIDE DEF y
<1>5. SameLine(b, y)
  BY <1>3, <1>4, FieldsLine
<1>6. BindsOK(y, s)
  BY <1>2, <1>4, <1>5, EditStays
<1> QED BY <1>1, <1>4, <1>6 DEF Stays

LEMMA GetCallStays ==
  ASSUME Chain(calls), BindsOK(b, calls), ~Excluded(calls', b.dialect), SendGet
  PROVE  Stays(b, b', calls') /\ SendsOne(b.dialect)
<1> DEFINE s == Append(calls, "get")
<1>1. calls' = s /\ b' = GetBuilder(b, soft) /\ sent' = <<Get(b, soft)>>
  BY DEF SendGet, May
<1>2. ~Excluded(s, b.dialect)
  BY <1>1
<1>3. Chain(s) /\ BindsOK(b, s)
  BY <1>2, CallStays, Included
<1> HIDE DEF s
<1>4. Stays(b, GetBuilder(b, soft), s) /\ Matched(Get(b, soft), b.dialect)
  BY <1>2, <1>3, GetStays
<1> QED BY <1>1, <1>4 DEF SendsOne

LEMMA SelectBinds ==
  ASSUME Chain(calls), BindsOK(b, calls), ~Excluded(calls', b.dialect), SelectNext
  PROVE  Stays(b, b', calls') /\ SentMeets(sent', b.dialect)
<1>1. SendsOne(b.dialect) => SentMeets(sent', b.dialect)
  <2> DEFINE d == b.dialect
  <2> HIDE DEF d
  <2>1. \A q : <<q>>[1] = q
    OBVIOUS
  <2>2. SendsOne(d) => SentMeets(sent', d)
    BY <2>1 DEF SendsOne, SentMeets
  <2> QED BY <2>2 DEF d
<1>2. sent' = <<>> => SentMeets(sent', b.dialect)
  BY DEF SentMeets
<1>3. ~CallOnlyTrashed
  <2> SUFFICES ASSUME CallOnlyTrashed PROVE FALSE
    OBVIOUS
  <2> DEFINE s == Append(calls, "onlyTrashed")
  <2>1. calls' = s
    BY DEF CallOnlyTrashed, May
  <2>2. ~Excluded(s, b.dialect)
    BY <2>1
  <2> QED BY <2>2, Included
<1>4. CASE CallCondition
  BY <1>2, <1>4, ConditionCallsStay
<1>5. CASE CallShape
  BY <1>2, <1>5, ShapesStay
<1>6. CASE CallTrailing
  BY <1>2, <1>6, LateClausesStay, HavingsStay DEF CallTrailing
<1>7. CASE SendSelect
  BY <1>1, <1>7, SendsFit
<1>8. CASE CallSetOp
  BY <1>2, <1>8, SetOpsStay
<1>9. CASE CallWithTrashed
  BY <1>2, <1>9, TrashedStays
<1>10. CASE SendGet
  BY <1>1, <1>10, GetCallStays
<1> QED BY <1>3, <1>4, <1>5, <1>6, <1>7, <1>8, <1>9, <1>10, SelectCalls

----------------------------------------------------------------------------
(* Texts whose values are given one after the other.                         *)

\* The placeholders ahead and those of a text are the values from the first to the
\* last, in order where they have no number.
Along(d, m, ahead, text) ==
  /\ m \in Nat /\ ahead \in Seq(PH) /\ Marked(text)
  /\ Marks(ahead) \cup MarksOf(text) = Bound(d, m)
  /\ d # "postgres" => Rising(ahead) /\ Rising(Placeholders(text)) /\ Lead(Marks(ahead), MarksOf(text))

LEMMA AlongMore ==
  ASSUME NEW d, NEW m, NEW ahead, NEW text, Along(d, m, ahead, text), NEW t, NEW k \in Nat,
         t.ph \in Seq(PH), Rising(t.ph), Marks(t.ph) = NextMarks(d, m, k)
  PROVE  Along(d, m + k, ahead, Append(text, t))
<1> DEFINE new == Append(text, t)
           A == Marks(ahead)
           M == NextMarks(d, m, k)
<1>1. m \in Nat /\ Marked(text) /\ A \cup MarksOf(text) = Bound(d, m)
  BY DEF Along
<1>2. Bound(d, m + k) = Bound(d, m) \cup M /\ Lead(Bound(d, m), M)
  BY <1>1, GivenMore
<1>3. PICK S : Holds(S, PH) /\ text \in Seq(S) /\ t \in S
  BY <1>1, MarkedWith
<1>4. /\ MarksOf(new) = MarksOf(text) \cup M /\ new \in Seq(S)
      /\ Rising(Placeholders(new)) <=> (Rising(Placeholders(text)) /\ Rising(t.ph) /\ Lead(MarksOf(text), M))
  BY <1>3, OneMore
<1> HIDE DEF new, M, A
<1>5. Lead(MarksOf(text), M) /\ Lead(A, M)
  BY <1>1, <1>2 DEF Lead
<1>6. Lead(A, MarksOf(text)) => Lead(A, MarksOf(new))
  BY <1>4, <1>5 DEF Lead
<1>7. Marked(new)
  BY <1>3, <1>4 DEF Marked
<1>8. A \cup MarksOf(new) = Bound(d, m + k)
  BY <1>1, <1>2, <1>4
<1>9. m + k \in Nat
  BY <1>1
<1> QED BY <1>4, <1>5, <1>6, <1>7, <1>8, <1>9 DEF Along, new, A

\* A token without values.
LEMMA AlongPlain ==
  ASSUME NEW d, NEW m, NEW ahead, NEW text, Along(d, m, ahead, text), NEW t, t.ph = <<>>
  PROVE  Along(d, m, ahead, Append(text, t))
<1>1. m \in Nat /\ m + 0 = m
  BY DEF Along
<1>2. t.ph \in Seq(PH) /\ Rising(t.ph) /\ Marks(t.ph) = NextMarks(d, m, 0)
  BY <1>1, GivenMore, Unmarked
<1>3. Along(d, m + 0, ahead, Append(text, t))
  BY <1>2, AlongMore
<1> QED BY <1>1, <1>3

\* A token with the k next values.
LEMMA AlongGiven ==
  ASSUME NEW d, NEW m, NEW ahead, NEW text, Along(d, m, ahead, text), NEW x, x.dialect = d, x.params = m, NEW k \in Nat,
         NEW t, t.ph = GetPlaceholders(x, k)
  PROVE  Along(d, m + k, ahead, Append(text, t))
<1>1. m \in Nat
  BY DEF Along
<1>2. t.ph \in Seq(PH) /\ Rising(t.ph) /\ Marks(t.ph) = NextMarks(d, m, k)
  BY <1>1, PlaceholdersGiven
<1> QED BY <1>2, AlongMore

\* What was ahead of a text and the text itself are ahead of a new one ...
LEMMA AlongPause ==
  ASSUME NEW d, NEW m, NEW ahead, NEW text, Along(d, m, ahead, text)
  PROVE  Along(d, m, ahead \o Placeholders(text), <<>>)
<1> DEFINE p == Placeholders(text)
<1>1. ahead \in Seq(PH) /\ p \in Seq(PH)
  BY PlaceholdersGrow DEF Along, Marked
<1>2. /\ Marks(ahead \o p) = Marks(ahead) \cup Marks(p)
      /\ Rising(ahead \o p) <=> (Rising(ahead) /\ Rising(p) /\ Lead(Marks(ahead), Marks(p)))
  BY <1>1, MarksJoin
<1>3. Marked(<<>>) /\ MarksOf(<<>>) = {} /\ Rising(Placeholders(<<>>)) /\ \A A : Lead(A, {})
  <2>1. Holds({}, PH) /\ <<>> \in Seq({})
    BY DEF Holds
  <2> QED BY <2>1, NoPlaceholders, Unmarked DEF Marked, MarksOf
<1>4. ahead \o p \in Seq(PH)
  BY <1>1
<1>5. MarksOf(text) = Marks(p)
  BY DEF MarksOf
<1> HIDE DEF p
<1>6. Along(d, m, ahead \o p, <<>>)
  BY <1>2, <1>3, <1>4, <1>5 DEF Along, p
<1> QED BY <1>6 DEF p

\* ... and the new one goes behind the text as one token.
LEMMA AlongTogether ==
  ASSUME NEW d, NEW m, NEW ahead \in Seq(PH), NEW text, Marked(text), NEW more, Along(d, m, ahead \o Placeholders(text), more),
         NEW t, t.ph = Placeholders(more)
  PROVE  Along(d, m, ahead, Append(text, t))
<1> DEFINE p == Placeholders(text)
           new == Append(text, t)
<1>1. p \in Seq(PH) /\ t.ph \in Seq(PH)
  BY PlaceholdersGrow DEF Along, Marked
<1>2. /\ Marks(ahead \o p) = Marks(ahead) \cup Marks(p)
      /\ Rising(ahead \o p) <=> (Rising(ahead) /\ Rising(p) /\ Lead(Marks(ahead), Marks(p)))
  BY <1>1, MarksJoin
<1>3. PICK S : Holds(S, PH) /\ text \in Seq(S) /\ t \in S
  BY <1>1, MarkedWith
<1>4. /\ MarksOf(new) = MarksOf(text) \cup Marks(t.ph) /\ new \in Seq(S)
      /\ Rising(Placeholders(new)) <=> (Rising(Placeholders(text)) /\ Rising(t.ph) /\ Lead(MarksOf(text), Marks(t.ph)))
  BY <1>3, OneMore
<1>5. MarksOf(text) = Marks(p) /\ MarksOf(more) = Marks(t.ph)
  BY DEF MarksOf
<1>6. /\ m \in Nat /\ Marks(ahead \o p) \cup Marks(t.ph) = Bound(d, m)
      /\ d # "postgres" => Rising(ahead \o p) /\ Rising(t.ph) /\ Lead(Marks(ahead \o p), Marks(t.ph))
  BY <1>5 DEF Along
<1>7. Marked(new)
  BY <1>3, <1>4 DEF Marked
<1>p. p = Placeholders(text)
  OBVIOUS
<1> HIDE DEF p, new
<1> DEFINE A == Marks(ahead)
           B == Marks(p)
           C == Marks(t.ph)
           AB == Marks(ahead \o p)
<1>8. AB = A \cup B
  BY <1>2
<1>9. Lead(AB, C) => Lead(A, C) /\ Lead(B, C)
  <2> HIDE DEF A, B, C, AB
  <2> QED BY <1>8 DEF Lead
<1>10. Lead(A, B) /\ Lead(A, C) => Lead(A, MarksOf(new))
  <2>1. MarksOf(new) = B \cup C
    BY <1>4, <1>5
  <2> HIDE DEF A, B, C, AB
  <2> QED BY <2>1 DEF Lead
<1>11. A \cup MarksOf(new) = Bound(d, m)
  BY <1>4, <1>5, <1>6, <1>8
<1>12. d # "postgres" => Rising(ahead) /\ Rising(Placeholders(new)) /\ Lead(A, MarksOf(new))
  <2> SUFFICES ASSUME d # "postgres" PROVE Rising(ahead) /\ Rising(Placeholders(new)) /\ Lead(A, MarksOf(new))
    OBVIOUS
  <2>1. Rising(ahead) /\ Rising(p) /\ Lead(A, B)
    BY <1>2, <1>6
  <2>2. Lead(A, C) /\ Lead(B, C)
    BY <1>6, <1>9
  <2>3. Rising(Placeholders(new))
    BY <1>4, <1>5, <1>6, <1>p, <2>1, <2>2
  <2> QED BY <1>10, <2>1, <2>2, <2>3
<1> QED BY <1>6, <1>7, <1>11, <1>12 DEF Along, new

\* The first call finds a builder without values.
LEMMA SelectStarts ==
  ASSUME NEW d
  PROVE  /\ BindsOK(MakeSelect(d), <<>>) /\ Chain(<<>>) /\ \A e : ~Excluded(<<>>, e)
         /\ \A x : x.tail = FALSE => MayBind(x, <<>>)
<1> DEFINE x == MakeSelect(d)
           v == View(<<>>)
<1>1. /\ DOMAIN x = Fields /\ x.text = <<>> /\ x.terms = <<>> /\ x.tail = FALSE /\ x.built = Unbuilt /\ x.pivots = {}
      /\ x.params = 0 /\ x.tailPred = FALSE /\ x.having = FALSE /\ x.dialect = d
  BY DEF MakeSelect, Fields
<1> HIDE DEF x
<1>2. IsFiniteSet(x.pivots)
  BY <1>1, FS_EmptySet
<1>3. DOMAIN <<>> = {}
  OBVIOUS
<1>4. \A names : ~Said(<<>>, names)
  BY <1>3 DEF Said
<1>5. \A first, then, last : ~After(<<>>, first, then) /\ ~Amid(<<>>, first, then, last)
  BY <1>3 DEF After, Amid
<1>6. \A e : ~Excluded(<<>>, e)
  BY <1>4, <1>5 DEF Excluded
<1>7. Marked(<<>>) /\ MarksOf(<<>>) = {} /\ Rising(Placeholders(<<>>)) /\ \A A : Lead(A, {}) /\ Lead({}, A)
  <2>1. Holds({}, PH) /\ <<>> \in Seq({})
    BY DEF Holds
  <2> QED BY <2>1, NoPlaceholders, Unmarked DEF Marked, MarksOf
<1>8. v = Nowhere
  BY ViewBegins
<1>9. v.key = BaseText /\ v.words = {} /\ v.rest = {} /\ \A k \in FragmentKeys : v.marks[k] = {}
  BY <1>8 DEF Nowhere
<1> HIDE DEF v
<1>10. BaseText \in FragmentKeys
  BY DEF FragmentKeys
<1>11. x.tail \in BOOLEAN /\ x.tailPred \in BOOLEAN /\ x.having \in BOOLEAN
  BY <1>1, Zenon
<1>12. Bound(x.dialect, x.params) = {}
  BY <1>1, GivenMore
<1>13. Tallied(x)
  <2>1. "WHERE" \notin View(x.text).words
    BY <1>1, <1>9 DEF v
  <2>2. x.params \in Nat
    BY <1>1
  <2> QED BY <1>1, <1>2, <1>7, <1>11, <1>12, <2>1, <2>2 DEF Tallied
<1>14. InLine(x, v, <<>>)
  <2>1. Sorted(v)
    BY <1>7, <1>9 DEF Sorted
  <2>2. x.tail # TRUE /\ x.having # TRUE
    BY <1>1
  <2>3. Rising(Placeholders(x.text)) /\ Rising(Placeholders(x.terms)) /\ Lead(MarksOf(x.terms), MarksOf(x.text))
    BY <1>1, <1>7
  <2> QED BY <1>4, <1>9, <1>10, <2>1, <2>2, <2>3 DEF InLine
<1>15. Droppable(v, <<>>)
  BY <1>9 DEF Droppable
<1>16. View(x.text) = v
  BY <1>1 DEF v
<1>17. BindsOK(x, <<>>)
  BY <1>1, <1>13, <1>14, <1>15, <1>16 DEF BindsOK, Lined, Recalls
<1>18. \A y : y.tail = FALSE => MayBind(y, <<>>)
  BY <1>4 DEF MayBind
<1>19. Chain(<<>>)
  <2>1. <<>> \in Seq({})
    OBVIOUS
  <2> QED BY <2>1 DEF Chain
<1> QED BY <1>6, <1>17, <1>18, <1>19 DEF x

----------------------------------------------------------------------------
(* selectFromSub: the values of the inner statement, then those of the calls. *)
SubLine(x) ==
  /\ DOMAIN x = SubFields /\ Along(x.dialect, x.params, x.base.ph, x.terms)
  /\ Marked(x.tail) /\ MarksOf(x.tail) = {}

LEMMA SubStarts ==
  ASSUME NEW d, NEW i \in Inner(d)
  PROVE  SubLine(SubBuilder(i)) /\ SubBuilder(i).dialect = d
<1> DEFINE x == MakeSelect(d)
           w == Where(x, 1, 1)
           y == SubBuilder(i)
           t == Reorder(CurrentSql(i, <<>>))
           q == Statement(i, t)
<1>1. BindsOK(x, <<>>) /\ x.dialect = d /\ MayBind(x, <<>>)
  <2>1. x.tail = FALSE /\ x.dialect = d
    BY DEF MakeSelect
  <2> QED BY <2>1, SelectStarts
<1>2. Stays(x, w, <<>>)
  <2> HIDE DEF x
  <2> QED BY <1>1, PredicateStays DEF Where
<1>3. i \in {x, w}
  BY DEF Inner
<1> HIDE DEF x, w
<1>4. BindsOK(i, <<>>) /\ i.dialect = d
  BY <1>1, <1>2, <1>3 DEF Stays
<1>5. Settled(q, d)
  BY <1>4, SelectStarts, CurrentSettled DEF BindsOK
<1>6. PICK m : FitsAt(q, m, {})
  BY <1>5 DEF Settled
<1>7. q.text = t /\ q.values = Numbered(i.params) /\ q.dialect = d
  BY <1>4, StatementIs
<1>8. i.params \in Nat
  BY <1>4 DEF BindsOK, Lined, Tallied
<1> HIDE DEF t, q
<1>9. m = i.params
  <2>1. m \in Nat /\ Numbered(m) = Numbered(i.params)
    BY <1>6, <1>7 DEF FitsAt
  <2>2. \A n \in Nat : Len(Numbered(n)) = n
    BY DEF Numbered
  <2> QED BY <1>8, <2>1, <2>2
<1> DEFINE base == [Token("FROM") EXCEPT !.ph = FlattenSeq([j \in 1 .. Len(t) |-> t[j].ph]), !.inner = {t[j].kw : j \in 1 .. Len(t)}]
<1>10. base.ph = Placeholders(t)
  BY DEF Token, Placeholders
<1>11. /\ DOMAIN y = SubFields /\ y.dialect = d /\ y.params = i.params /\ y.base = base /\ y.terms = <<>> /\ y.tail = <<>>
  BY <1>4 DEF SubBuilder, SubFields, t
<1> HIDE DEF base, y
<1>12. Marked(t) /\ Marks(Placeholders(t)) = Bound(d, m) /\ (d # "postgres" => Rising(Placeholders(t)))
  BY <1>6, <1>7 DEF FitsAt
<1>13. Placeholders(t) \in Seq(PH)
  BY <1>12, PlaceholdersGrow DEF Marked
<1>14. Marked(<<>>) /\ MarksOf(<<>>) = {} /\ Rising(Placeholders(<<>>)) /\ \A A : Lead(A, {})
  <2>1. Holds({}, PH) /\ <<>> \in Seq({})
    BY DEF Holds
  <2> QED BY <2>1, NoPlaceholders, Unmarked DEF Marked, MarksOf
<1>15. Along(d, i.params, Placeholders(t), <<>>)
  BY <1>8, <1>9, <1>12, <1>13, <1>14 DEF Along
<1>16. SubLine(y)
  BY <1>10, <1>11, <1>14, <1>15 DEF SubLine
<1> QED BY <1>11, <1>16 DEF y

LEMMA SubFits ==
  ASSUME NEW x, SubLine(x)
  PROVE  Matched(MakeSub(x), x.dialect)
<1> DEFINE q == MakeSub(x)
           body == RenderWhereTerms(x.terms)
           token == WhereToken("WHERE", body)
           mid == IF body = <<>> THEN <<>> ELSE <<token>>
           text == <<x.base>> \o mid \o x.tail
<1>1. q.dialect = x.dialect /\ q.text = text /\ q.values = Numbered(x.params)
  BY DEF MakeSub, Numbered
<1>2. /\ Along(x.dialect, x.params, x.base.ph, x.terms) /\ Marked(x.tail) /\ MarksOf(x.tail) = {}
  BY DEF SubLine
<1>3. BodyPlaceholders(body) = Placeholders(x.terms) /\ Placeholders(x.terms) \in Seq(PH)
  BY <1>2, BodyInOrder, PlaceholdersGrow DEF Along, Marked
<1>4. token.ph = Placeholders(x.terms)
  BY <1>3 DEF WhereToken, Token
<1>5. body = <<>> => Placeholders(x.terms) = <<>>
  <2>1. RenderWhereTerms(<<>>) = <<>>
    <3>1. <<>> \in Seq({})
      OBVIOUS
    <3> QED BY <3>1, RenderedType
  <2>2. Holds({}, {}) /\ <<>> \in Seq({})
    BY DEF Holds
  <2>3. BodyPlaceholders(RenderWhereTerms(<<>>)) = Placeholders(<<>>)
    BY <2>2, BodyInOrder
  <2> QED BY <1>3, <2>1, <2>3, NoPlaceholders
<1> HIDE DEF body, token, q
<1>6. x.base.ph \in Seq(PH)
  BY <1>2 DEF Along
<1>7. PICK R : Holds(R, PH) /\ x.tail \in Seq(R)
  BY <1>2 DEF Marked
<1> DEFINE S == R \cup {x.base, token}
<1>8. Holds(S, PH) /\ x.tail \in Seq(S) /\ x.base \in S /\ token \in S
  BY <1>3, <1>4, <1>6, <1>7 DEF Holds
<1> HIDE DEF S
<1>9. <<x.base>> \in Seq(S) /\ mid \in Seq(S)
  BY <1>8
<1>10. Placeholders(<<x.base>>) = x.base.ph /\ Placeholders(mid) = Placeholders(x.terms)
  BY <1>4, <1>5, OnePlaceholders, NoPlaceholders
<1> HIDE DEF mid
<1> DEFINE two == <<x.base>> \o mid
<1>11. /\ two \in Seq(S) /\ MarksOf(two) = Marks(x.base.ph) \cup MarksOf(x.terms)
       /\ Rising(Placeholders(two)) <=> (Rising(x.base.ph) /\ Rising(Placeholders(x.terms)) /\ Lead(Marks(x.base.ph), MarksOf(x.terms)))
  <2> DEFINE one == <<x.base>>
  <2>0. one \in Seq(S) /\ Placeholders(one) = x.base.ph
    BY <1>9, <1>10
  <2> HIDE DEF one
  <2>1. /\ one \o mid \in Seq(S) /\ MarksOf(one \o mid) = MarksOf(one) \cup MarksOf(mid)
        /\ Rising(Placeholders(one \o mid)) <=> (Rising(Placeholders(one)) /\ Rising(Placeholders(mid)) /\ Lead(MarksOf(one), MarksOf(mid)))
    BY <1>8, <1>9, <2>0, TextsJoin
  <2>2. MarksOf(one) = Marks(x.base.ph) /\ MarksOf(mid) = MarksOf(x.terms)
    BY <1>10, <2>0 DEF MarksOf
  <2> QED BY <1>10, <2>0, <2>1, <2>2 DEF one
<1> HIDE DEF two
<1>12. Rising(Placeholders(x.tail)) /\ Lead(MarksOf(two), {})
  BY <1>2, Unmarked DEF MarksOf
<1>13. /\ text \in Seq(S) /\ MarksOf(text) = MarksOf(two)
       /\ Rising(Placeholders(text)) <=> Rising(Placeholders(two))
  <2>1. /\ two \o x.tail \in Seq(S) /\ MarksOf(two \o x.tail) = MarksOf(two) \cup MarksOf(x.tail)
        /\ Rising(Placeholders(two \o x.tail)) <=> (Rising(Placeholders(two)) /\ Rising(Placeholders(x.tail)) /\ Lead(MarksOf(two), MarksOf(x.tail)))
    BY <1>8, <1>11, TextsJoin
  <2>2. text = two \o x.tail
    BY DEF two
  <2> QED BY <1>2, <1>12, <2>1, <2>2
<1> HIDE DEF text
<1>14. Marked(text)
  BY <1>8, <1>13 DEF Marked
<1>15. Marks(Placeholders(text)) = Bound(x.dialect, x.params) /\ (x.dialect # "postgres" => Rising(Placeholders(text)))
  BY <1>2, <1>11, <1>13 DEF Along, MarksOf
<1>16. FitsAt(q, x.params, {})
  <2>1. x.params \in Nat
    BY <1>2 DEF Along
  <2> QED BY <1>1, <1>14, <1>15, <2>1 DEF FitsAt
<1> QED BY <1>1, <1>16 DEF Matched, Fits, q

SubFollows(x, y) == SubLine(y) /\ y.dialect = x.dialect

LEMMA SubPushes ==
  ASSUME NEW x, SubLine(x), NEW k \in Nat, NEW t, t.ph = GetPlaceholders(x, k),
         NEW y, DOMAIN y = SubFields, y.terms = Append(x.terms, t), y.params = x.params + k, y.tail = x.tail, y.base = x.base,
         y.dialect = x.dialect
  PROVE  SubFollows(x, y)
<1>1. Along(x.dialect, x.params, x.base.ph, x.terms)
  BY DEF SubLine
<1>2. Along(x.dialect, x.params + k, x.base.ph, Append(x.terms, t))
  BY <1>1, AlongGiven
<1> QED BY <1>2 DEF SubLine, SubFollows

LEMMA SubWhereFollows ==
  ASSUME NEW x, SubLine(x), NEW conn, NEW n, NEW k \in Nat
  PROVE  SubFollows(x, SubWhere(x, conn, n, k))
<1> DEFINE t == Term(conn, "all", NextAtoms(x, n), GetPlaceholders(x, k))
           y == SubWhere(x, conn, n, k)
<1>1. t.ph = GetPlaceholders(x, k)
  BY DEF Term
<1>2. /\ DOMAIN y = SubFields /\ y.terms = Append(x.terms, t) /\ y.params = x.params + k /\ y.tail = x.tail /\ y.base = x.base
      /\ y.dialect = x.dialect
  BY DEF SubWhere, SubLine, SubFields
<1> HIDE DEF t, y
<1>3. SubFollows(x, y)
  BY <1>1, <1>2, SubPushes
<1> QED BY <1>3 DEF y

LEMMA SubWhereInFollows ==
  ASSUME NEW x, SubLine(x), NEW conn, NEW n \in Nat
  PROVE  SubFollows(x, SubWhereIn(x, conn, n))
<1> DEFINE t == Term(conn, "broken", NextAtoms(x, 1), <<>>)
           y == SubWhereIn(x, conn, n)
<1>1. CASE n > 0
  <2>1. y = SubWhere(x, conn, 1, n)
    BY <1>1 DEF SubWhereIn
  <2> QED BY <2>1, SubWhereFollows
<1>2. CASE ~(n > 0)
  <2>1. t.ph = <<>>
    BY DEF Term
  <2>2. /\ DOMAIN y = SubFields /\ y.terms = Append(x.terms, t) /\ y.params = x.params /\ y.tail = x.tail /\ y.base = x.base
        /\ y.dialect = x.dialect
    BY <1>2 DEF SubWhereIn, SubLine, SubFields
  <2> HIDE DEF t, y
  <2>3. Along(x.dialect, x.params, x.base.ph, Append(x.terms, t))
    BY <2>1, AlongPlain DEF SubLine
  <2>4. SubFollows(x, y)
    BY <2>2, <2>3 DEF SubLine, SubFollows
  <2> QED BY <2>4 DEF y
<1> QED BY <1>1, <1>2

LEMMA SubGroupFollows ==
  ASSUME NEW x, SubLine(x), NEW conn, NEW second
  PROVE  SubFollows(x, SubWithGroup(x, conn, second))
<1> DEFINE d == x.dialect
           mode == IF second = "OR" THEN "any" ELSE "all"
           none == [x EXCEPT !.terms = <<>>]
           one == SubWhere(none, "AND", 1, 1)
           g == SubWhere(one, second, 1, 1)
           t == Term(conn, mode, NextAtoms(x, 2), BodyPlaceholders(RenderWhereTerms(g.terms)))
           y == SubWithGroup(x, conn, second)
           p == x.base.ph \o Placeholders(x.terms)
<1>1. y = [g EXCEPT !.terms = Append(x.terms, t)] /\ t.ph = BodyPlaceholders(RenderWhereTerms(g.terms))
  BY DEF SubWithGroup, Term
<1>2. DOMAIN x = SubFields /\ Along(d, x.params, x.base.ph, x.terms)
  BY DEF SubLine
<1>3. x.params \in Nat /\ x.base.ph \in Seq(PH) /\ Marked(x.terms)
  BY <1>2 DEF Along
<1>4. Along(d, x.params, p, <<>>)
  BY <1>2, AlongPause
<1>5. DOMAIN none = SubFields /\ none.terms = <<>> /\ none.params = x.params /\ none.tail = x.tail /\ none.base = x.base /\ none.dialect = d
  BY <1>2 DEF SubFields
<1> DEFINE t1 == Term("AND", "all", NextAtoms(none, 1), GetPlaceholders(none, 1))
           t2 == Term(second, "all", NextAtoms(one, 1), GetPlaceholders(one, 1))
<1> HIDE DEF none
<1>6. /\ DOMAIN one = SubFields /\ one.terms = Append(none.terms, t1) /\ one.params = none.params + 1 /\ one.tail = none.tail
      /\ one.base = none.base /\ one.dialect = none.dialect
  BY <1>5 DEF SubWhere, SubFields
<1>7. t1.ph = GetPlaceholders(none, 1)
  BY DEF Term
<1> HIDE DEF one, t1
<1>8. Along(d, x.params + 1, p, one.terms)
  <2> HIDE DEF p, d
  <2> QED BY <1>4, <1>5, <1>6, <1>7, AlongGiven
<1>9. /\ DOMAIN g = SubFields /\ g.terms = Append(one.terms, t2) /\ g.params = one.params + 1 /\ g.tail = one.tail
      /\ g.base = one.base /\ g.dialect = one.dialect
  BY <1>6 DEF SubWhere, SubFields
<1>10. t2.ph = GetPlaceholders(one, 1)
  BY DEF Term
<1> HIDE DEF g, t2
<1>11. Along(d, x.params + 1 + 1, p, g.terms)
  <2> HIDE DEF p, d
  <2> QED BY <1>5, <1>6, <1>8, <1>9, <1>10, AlongGiven
<1>12. t.ph = Placeholders(g.terms)
  <2>1. Marked(g.terms)
    BY <1>11 DEF Along
  <2> QED BY <1>1, <2>1, BodyInOrder DEF Marked
<1> HIDE DEF t, y
<1>13. Along(d, g.params, x.base.ph, Append(x.terms, t))
  <2>1. g.params = x.params + 1 + 1
    BY <1>3, <1>5, <1>6, <1>9
  <2> HIDE DEF d
  <2> QED BY <1>3, <1>11, <1>12, <2>1, AlongTogether DEF p
<1>14. /\ DOMAIN y = SubFields /\ y.terms = Append(x.terms, t) /\ y.params = g.params /\ y.tail = x.tail
       /\ y.base = x.base /\ y.dialect = d
  BY <1>1, <1>5, <1>6, <1>9 DEF SubFields
<1>15. SubFollows(x, y)
  BY <1>13, <1>14 DEF SubLine, SubFollows
<1> QED BY <1>15 DEF y

LEMMA SubTailFollows ==
  ASSUME NEW x, SubLine(x), NEW t, t.ph = <<>>
  PROVE  SubFollows(x, [x EXCEPT !.tail = Append(x.tail, t)])
<1> DEFINE y == [x EXCEPT !.tail = Append(x.tail, t)]
<1>1. /\ DOMAIN y = SubFields /\ y.terms = x.terms /\ y.params = x.params /\ y.tail = Append(x.tail, t) /\ y.base = x.base
      /\ y.dialect = x.dialect
  BY DEF SubLine, SubFields
<1> HIDE DEF y
<1>2. Marked(x.tail) /\ MarksOf(x.tail) = {}
  BY DEF SubLine
<1>3. t.ph \in Seq(PH) /\ Marks(t.ph) = {}
  BY Unmarked
<1>4. PICK S : Holds(S, PH) /\ x.tail \in Seq(S) /\ t \in S
  BY <1>2, <1>3, MarkedWith
<1>5. MarksOf(y.tail) = {} /\ y.tail \in Seq(S)
  BY <1>1, <1>2, <1>3, <1>4, OneMore
<1>6. Marked(y.tail)
  BY <1>4, <1>5 DEF Marked
<1>7. SubFollows(x, y)
  BY <1>1, <1>5, <1>6 DEF SubLine, SubFollows
<1> QED BY <1>7 DEF y

LEMMA SubShapesFollow ==
  ASSUME NEW x, SubLine(x)
  PROVE  /\ SubFollows(x, x) /\ SubFollows(x, SubOrderBy(x)) /\ SubFollows(x, SubLimit(x)) /\ SubFollows(x, SubOffset(x))
         /\ SubFollows(x, SubDistinct(x))
<1>1. SubFollows(x, x)
  BY DEF SubFollows
<1>2. SubFollows(x, SubOrderBy(x))
  <2> DEFINE t == IF Mentions(x.tail, "ORDER_BY") THEN [Token("COMMA") EXCEPT !.of = "ORDER_BY"] ELSE Token("ORDER_BY")
  <2>1. t.ph = <<>>
    BY DEF Token
  <2>2. SubOrderBy(x) = [x EXCEPT !.tail = Append(x.tail, t)]
    BY DEF SubOrderBy, ExtendClause
  <2> HIDE DEF t
  <2> QED BY <2>1, <2>2, SubTailFollows
<1>3. ASSUME NEW kw PROVE SubFollows(x, [x EXCEPT !.tail = SetClause(x.tail, kw)])
  <2> DEFINE t == Token(kw)
             y == [x EXCEPT !.tail = x.tail]
  <2>1. t.ph = <<>>
    BY DEF Token
  <2>2. SetClause(x.tail, kw) = x.tail \/ SetClause(x.tail, kw) = Append(x.tail, t)
    BY DEF SetClause
  <2> HIDE DEF t
  <2>3. SubFollows(x, [x EXCEPT !.tail = Append(x.tail, t)])
    BY <2>1, SubTailFollows
  <2>4. /\ DOMAIN y = SubFields /\ y.terms = x.terms /\ y.params = x.params /\ y.tail = x.tail /\ y.base = x.base
        /\ y.dialect = x.dialect
    BY DEF SubLine, SubFields
  <2> HIDE DEF y
  <2>5. SubFollows(x, y)
    BY <2>4 DEF SubLine, SubFollows
  <2> QED BY <2>2, <2>3, <2>5 DEF y
<1>4. SubFollows(x, SubDistinct(x))
  <2> DEFINE y == SubDistinct(x)
  <2>1. /\ DOMAIN y = SubFields /\ y.terms = x.terms /\ y.params = x.params /\ y.tail = x.tail /\ y.base = x.base
        /\ y.dialect = x.dialect
    BY DEF SubDistinct, SubLine, SubFields
  <2> HIDE DEF y
  <2>2. SubFollows(x, y)
    BY <2>1 DEF SubLine, SubFollows
  <2> QED BY <2>2 DEF y
<1>5. SubFollows(x, SubLimit(x)) /\ SubFollows(x, SubOffset(x))
  BY <1>3 DEF SubLimit, SubOffset
<1> QED BY <1>1, <1>2, <1>4, <1>5

\* Whatever call brings it about, the next builder is what a call hands on.
LEMMA CallsBring ==
  /\ \A y, conn, mode, n : Filter(y, conn, mode, n) => b' = y /\ sent' = <<>>
  /\ \A y, conn, n, negated : AskMember(y, conn, n, negated) => b' = y /\ sent' = <<>>
  /\ \A y : Shape(y) => b' = y /\ sent' = <<>>
<1>1. \A y, conn, mode, n : Filter(y, conn, mode, n) => b' = y /\ sent' = <<>>
  BY DEF Filter
<1> QED BY <1>1 DEF AskMember, Shape

LEMMA SubBinds ==
  ASSUME SubLine(b), SubNext
  PROVE  SubFollows(b, b') /\ SentMeets(sent', b.dialect)
<1>0. sent' = <<>> => SentMeets(sent', b.dialect)
  BY DEF SentMeets
<1>1. \A n \in Sizes : n \in Nat
  BY DEF Sizes
<1>2. CASE CallSubWhere
  <2>1. PICK c \in Conns, n \in 1 .. 2 : Filter(SubWhere(b, c, n, n), c, "all", n)
    BY <1>2 DEF CallSubWhere
  <2>2. b' = SubWhere(b, c, n, n) /\ sent' = <<>>
    BY <2>1, CallsBring
  <2>3. SubFollows(b, SubWhere(b, c, n, n))
    BY SubWhereFollows
  <2> QED BY <1>0, <2>2, <2>3
<1>3. CASE CallSubWhereIn
  <2> DEFINE no == FALSE
  <2>0. PICK c \in Conns, n \in Sizes : AskMember(SubWhereIn(b, c, n), c, n, no)
    BY <1>3 DEF CallSubWhereIn
  <2> HIDE DEF no
  <2>1. b' = SubWhereIn(b, c, n) /\ sent' = <<>>
    BY <2>0, CallsBring
  <2>2. SubFollows(b, SubWhereIn(b, c, n))
    BY <1>1, SubWhereInFollows
  <2> QED BY <1>0, <2>1, <2>2
<1>4. CASE CallSubWhereUnread
  <2>1. b' = SubWhereUnread(b) /\ sent' = <<>>
    BY <1>4, CallsBring DEF CallSubWhereUnread
  <2> QED BY <1>0, <2>1, SubShapesFollow DEF SubWhereUnread
<1>5. CASE CallSubWhereGroup
  <2>1. PICK c, second : b' = SubWithGroup(b, c, second) /\ sent' = <<>>
    BY <1>5, CallsBring DEF CallSubWhereGroup
  <2>2. SubFollows(b, SubWithGroup(b, c, second))
    BY SubGroupFollows
  <2> QED BY <1>0, <2>1, <2>2
<1>6. CASE CallSubShape
  <2>1. sent' = <<>> /\ b' \in {SubOrderBy(b), SubLimit(b), SubOffset(b), SubDistinct(b)}
    BY <1>6, CallsBring DEF CallSubShape
  <2> QED BY <1>0, <2>1, SubShapesFollow
<1>7. CASE CallSubUnsupported
  <2>1. b' = b /\ sent' = <<>>
    BY <1>7, CallsBring DEF CallSubUnsupported
  <2> QED BY <1>0, <2>1, SubShapesFollow
<1>8. CASE SendSub
  <2> DEFINE q == MakeSub(b)
  <2>1. b' = b /\ sent' = <<q>>
    BY <1>8 DEF SendSub, Send
  <2>2. Matched(q, b.dialect)
    BY SubFits
  <2> HIDE DEF q
  <2>3. SentMeets(<<q>>, b.dialect)
    BY <2>2, OneSent DEF SentMeets
  <2> QED BY <2>1, <2>3, SubShapesFollow
<1> QED BY <1>2, <1>3, <1>4, <1>5, <1>6, <1>7, <1>8 DEF SubNext

----------------------------------------------------------------------------
(* Writes: a text that only grows at its end.                                *)

\* The placeholders of m values, each in its place.
Dealt(d, m) == [i \in 1 .. m |-> Mark(d, i)]

LEMMA DealtAre ==
  ASSUME NEW d, NEW m \in Nat
  PROVE  /\ Dealt(d, m) \in Seq(PH) /\ Len(Dealt(d, m)) = m
         /\ \A i \in 1 .. m : Dealt(d, m)[i] = Mark(d, i) /\ Dealt(d, m)[i].at = i /\ (d = "postgres" => Dealt(d, m)[i].n = i)
<1>1. \A i \in 1 .. m : Mark(d, i) \in PH /\ Mark(d, i).at = i /\ (d = "postgres" => Mark(d, i).n = i)
  BY DEF Mark, PH
<1>2. Dealt(d, m) \in [1 .. m -> PH]
  BY <1>1 DEF Dealt
<1>3. \A i \in 1 .. m : Dealt(d, m)[i] = Mark(d, i)
  BY DEF Dealt
<1>4. Dealt(d, m) \in Seq(PH) /\ Len(Dealt(d, m)) = m
  BY <1>2
<1> QED BY <1>1, <1>3, <1>4

LEMMA DealtMore ==
  ASSUME NEW d, NEW m \in Nat, NEW x, x.dialect = d, x.params = m, NEW k \in Nat
  PROVE  Dealt(d, m) \o GetPlaceholders(x, k) = Dealt(d, m + k)
<1> DEFINE s == Dealt(d, m)
           r == GetPlaceholders(x, k)
           w == Dealt(d, m + k)
<1>0. m + k \in Nat
  OBVIOUS
<1>1. s \in Seq(PH) /\ Len(s) = m /\ w \in Seq(PH) /\ Len(w) = m + k
  BY <1>0, DealtAre
<1>2. r \in Seq(PH) /\ Len(r) = k
  BY PlaceholdersGiven
<1>3. \A i \in 1 .. k : r[i] = Mark(d, m + i)
  BY DEF GetPlaceholders, Mark
<1>4. (\A i \in 1 .. m : s[i] = Mark(d, i)) /\ (\A i \in 1 .. m + k : w[i] = Mark(d, i))
  BY <1>0, DealtAre
<1> HIDE DEF s, r, w
<1>5. s \o r \in Seq(PH) /\ Len(s \o r) = Len(s) + Len(r)
  BY <1>1, <1>2, ConcatProperties
<1>6. \A i \in 1 .. m + k : (s \o r)[i] = w[i]
  <2> TAKE i \in 1 .. m + k
  <2>1. CASE i \in 1 .. m
    <3>1. (s \o r)[i] = s[i]
      BY <1>1, <1>2, <2>1, ConcatProperties
    <3> QED BY <1>4, <2>1, <3>1
  <2>2. CASE i \notin 1 .. m
    <3>1. i - m \in 1 .. k /\ m + (i - m) = i
      BY <2>2
    <3>2. (s \o r)[i] = r[i - m]
      BY <1>1, <1>2, <2>2, <3>1, ConcatProperties
    <3> QED BY <1>3, <1>4, <3>1, <3>2
  <2> QED BY <2>1, <2>2
<1>7. s \o r = w
  BY <1>1, <1>2, <1>5, <1>6, SeqEqual
<1> QED BY <1>7 DEF s, r, w

\* Each value of a text lies at its number.
Dealing(d, m, text) == m \in Nat /\ Marked(text) /\ Placeholders(text) = Dealt(d, m)

LEMMA DealingBegins ==
  ASSUME NEW d
  PROVE  Dealing(d, 0, <<>>)
<1>1. Marked(<<>>)
  <2>1. Holds({}, PH) /\ <<>> \in Seq({})
    BY DEF Holds
  <2> QED BY <2>1 DEF Marked
<1>2. Dealt(d, 0) = <<>>
  <2>1. Dealt(d, 0) \in Seq(PH) /\ Len(Dealt(d, 0)) = 0
    BY DealtAre
  <2> QED BY <2>1, SeqShape
<1> QED BY <1>1, <1>2, NoPlaceholders DEF Dealing

LEMMA DealingMore ==
  ASSUME NEW d, NEW m, NEW text, Dealing(d, m, text), NEW x, x.dialect = d, x.params = m, NEW k \in Nat,
         NEW t, t.ph = GetPlaceholders(x, k)
  PROVE  Dealing(d, m + k, Append(text, t))
<1>1. m \in Nat /\ Marked(text) /\ Placeholders(text) = Dealt(d, m)
  BY DEF Dealing
<1>2. t.ph \in Seq(PH)
  BY <1>1, PlaceholdersGiven
<1>3. PICK S : Holds(S, PH) /\ text \in Seq(S) /\ t \in S
  BY <1>1, <1>2, MarkedWith
<1>4. Placeholders(Append(text, t)) = Placeholders(text) \o t.ph /\ Append(text, t) \in Seq(S)
  BY <1>3, PlaceholdersGrow, AppendProperties
<1>5. Placeholders(Append(text, t)) = Dealt(d, m + k)
  <2>1. Dealt(d, m) \o GetPlaceholders(x, k) = Dealt(d, m + k)
    BY <1>1, DealtMore
  <2> QED BY <1>1, <1>4, <2>1
<1>6. Marked(Append(text, t)) /\ m + k \in Nat
  BY <1>1, <1>3, <1>4 DEF Marked
<1> QED BY <1>5, <1>6 DEF Dealing

LEMMA DealingPlain ==
  ASSUME NEW d, NEW m, NEW text, Dealing(d, m, text), NEW t, t.ph = <<>>
  PROVE  Dealing(d, m, Append(text, t))
<1> DEFINE x == [dialect |-> d, params |-> m]
<1>1. m \in Nat /\ m + 0 = m
  BY DEF Dealing
<1>2. x.dialect = d /\ x.params = m
  OBVIOUS
<1> HIDE DEF x
<1>3. GetPlaceholders(x, 0) \in Seq(PH) /\ Len(GetPlaceholders(x, 0)) = 0
  BY <1>1, <1>2, PlaceholdersGiven
<1>4. t.ph = GetPlaceholders(x, 0)
  BY <1>3, SeqShape
<1>5. Dealing(d, m + 0, Append(text, t))
  BY <1>2, <1>4, DealingMore
<1> QED BY <1>1, <1>5

LEMMA DealingBinds ==
  ASSUME NEW q, NEW m, Dealing(q.dialect, m, q.text), q.values = Numbered(m)
  PROVE  BindingsOK(q)
<1> DEFINE d == q.dialect
           ph == Placeholders(q.text)
<1>1. m \in Nat /\ ph = Dealt(d, m)
  BY DEF Dealing
<1>2. Len(q.values) = m /\ \A i \in 1 .. m : q.values[i] = i
  BY <1>1 DEF Numbered
<1>3. Len(ph) = m /\ DOMAIN ph = 1 .. m /\ \A i \in 1 .. m : ph[i].at = i /\ (d = "postgres" => ph[i].n = i)
  BY <1>1, DealtAre
<1> HIDE DEF ph
<1>4. CASE d = "postgres"
  <2>1. {ph[i].n : i \in DOMAIN ph} = 1 .. m
    BY <1>3, <1>4
  <2>2. \A i \in DOMAIN ph : q.values[ph[i].n] = ph[i].at
    BY <1>2, <1>3, <1>4
  <2> QED BY <1>2, <1>4, <2>1, <2>2 DEF BindingsOK, ph
<1>5. CASE d # "postgres"
  BY <1>2, <1>3, <1>5 DEF BindingsOK, ph
<1> QED BY <1>4, <1>5

\* What is sent has its values where its placeholders are, or is none of the
\* statements the property is about.
Binds(q, d) == q.dialect = d /\ (~Foreign(q) => BindingsOK(q))
SentBinds(q, d) == q # <<>> => Binds(q[1], d)

LEMMA MatchedBinds ==
  /\ \A q, d : Matched(q, d) => Binds(q, d)
  /\ \A q, d : SentMeets(q, d) => SentBinds(q, d)
<1>1. ASSUME NEW q, NEW d, Matched(q, d) PROVE Binds(q, d)
  BY <1>1, FitsIs DEF Matched, Binds
<1> QED BY <1>1 DEF SentMeets, SentBinds

WriteLine(x) == DOMAIN x = WriteFields /\ Stated(x) /\ Dealing(x.dialect, x.params, x.text)
WriteFollows(x, y) == WriteLine(y) /\ y.dialect = x.dialect
BuiltNow(x) == x.built = Len(x.text)

LEMMA WriteStarts ==
  ASSUME NEW k, NEW d
  PROVE  LET x == WriteBuilder(k, d) IN WriteLine(x) /\ x.dialect = d /\ x.rows = <<>> /\ x.text = <<>>
<1> DEFINE x == WriteBuilder(k, d)
<1>1. DOMAIN x = WriteFields /\ x.dialect = d /\ x.text = <<>> /\ x.params = 0 /\ x.built = NoQuery /\ x.rows = <<>>
  BY DEF WriteBuilder, WriteFields
<1> HIDE DEF x
<1>2. WriteLine(x)
  BY <1>1, DealingBegins DEF WriteLine, Stated
<1> QED BY <1>1, <1>2 DEF x

LEMMA WrittenBinds ==
  ASSUME NEW x, WriteLine(x)
  PROVE  /\ Binds(Written(x, x.text), x.dialect) /\ Binds(Written(x, Append(x.text, Token("RETURNING"))), x.dialect)
         /\ BuiltNow(x) => SubSeq(x.text, 1, x.built) = x.text
<1>1. Dealing(x.dialect, x.params, x.text)
  BY DEF WriteLine
<1>2. ASSUME NEW text, Dealing(x.dialect, x.params, text) PROVE Binds(Written(x, text), x.dialect)
  <2> DEFINE q == Written(x, text)
  <2>1. q.dialect = x.dialect /\ q.text = text /\ q.values = Numbered(x.params)
    BY DEF Written, Numbered
  <2> HIDE DEF q
  <2>2. BindingsOK(q)
    BY <1>2, <2>1, DealingBinds
  <2> QED BY <2>1, <2>2 DEF Binds, q
<1> DEFINE t == Token("RETURNING")
<1>3. t.ph = <<>>
  BY DEF Token
<1> HIDE DEF t
<1>4. Dealing(x.dialect, x.params, Append(x.text, t))
  BY <1>1, <1>3, DealingPlain
<1>5. BuiltNow(x) => SubSeq(x.text, 1, x.built) = x.text
  <2>1. PICK S : x.text \in Seq(S)
    BY <1>1 DEF Dealing, Marked
  <2> QED BY <2>1, Beginnings DEF BuiltNow
<1>6. Binds(Written(x, x.text), x.dialect)
  BY <1>1, <1>2
<1>7. Binds(Written(x, Append(x.text, t)), x.dialect)
  BY <1>2, <1>4
<1> QED BY <1>5, <1>6, <1>7 DEF t

\* A predicate, or the values of a SET, behind the text.
LEMMA WrittenOn ==
  ASSUME NEW x, WriteLine(x), NEW k \in Nat, NEW t, t.ph = GetPlaceholders(x, k),
         NEW y, DOMAIN y = WriteFields, y.text = Append(x.text, t), y.params = x.params + k, y.dialect = x.dialect, Stated(y)
  PROVE  WriteFollows(x, y)
<1>1. Dealing(x.dialect, x.params, x.text)
  BY DEF WriteLine
<1>2. Dealing(x.dialect, x.params + k, Append(x.text, t))
  BY <1>1, DealingMore
<1> QED BY <1>2 DEF WriteFollows, WriteLine

LEMMA PredicateFollows ==
  ASSUME NEW x, WriteLine(x), NEW mode, NEW n, NEW k \in Nat
  PROVE  LET y == AppendPredicate(x, mode, n, k)
             z == Rebuilt(y)
             f == [y EXCEPT !.built = NoQuery]
         IN  WriteFollows(x, z) /\ BuiltNow(z) /\ WriteFollows(x, f)
<1> DEFINE y == AppendPredicate(x, mode, n, k)
           z == Rebuilt(y)
           f == [y EXCEPT !.built = NoQuery]
           term == Term("AND", mode, NextAtoms(x, n), GetPlaceholders(x, k))
           one == <<term>>
           t == WhereToken(IF x.pred THEN "AND" ELSE "WHERE", RenderWhereTerms(one))
<1>0. x.params \in Nat /\ DOMAIN x = WriteFields
  BY DEF WriteLine, Dealing
<1>1. y = [x EXCEPT !.text = Append(@, t), !.pred = TRUE, !.params = @ + k, !.atoms = @ + n]
  BY DEF AppendPredicate
<1>2. t.ph = GetPlaceholders(x, k)
  <2>1. term.ph = GetPlaceholders(x, k) /\ GetPlaceholders(x, k) \in Seq(PH)
    BY <1>0, PlaceholdersGiven DEF Term
  <2>2. t.ph = BodyPlaceholders(RenderWhereTerms(one))
    BY DEF WhereToken, Token
  <2> HIDE DEF term, t
  <2>3. Holds({term}, PH) /\ one \in Seq({term})
    BY <2>1 DEF Holds
  <2>4. Placeholders(one) = term.ph
    BY OnePlaceholders
  <2> HIDE DEF one
  <2>5. BodyPlaceholders(RenderWhereTerms(one)) = Placeholders(one)
    BY <2>3, BodyInOrder
  <2> QED BY <2>1, <2>2, <2>4, <2>5
<1> HIDE DEF t
<1>3. DOMAIN y = WriteFields /\ y.text = Append(x.text, t) /\ y.params = x.params + k /\ y.dialect = x.dialect
  BY <1>0, <1>1 DEF WriteFields
<1> HIDE DEF y
<1>4. /\ DOMAIN z = WriteFields /\ z.text = y.text /\ z.params = y.params /\ z.dialect = y.dialect /\ z.built = Len(y.text)
      /\ DOMAIN f = WriteFields /\ f.text = y.text /\ f.params = y.params /\ f.dialect = y.dialect /\ f.built = NoQuery
  BY <1>3 DEF Rebuilt, WriteFields
<1> HIDE DEF z, f
<1>5. Stated(z) /\ Stated(f) /\ BuiltNow(z)
  BY <1>4 DEF Stated, BuiltNow
<1>6. WriteFollows(x, z)
  BY <1>2, <1>3, <1>4, <1>5, WrittenOn
<1>7. WriteFollows(x, f)
  BY <1>2, <1>3, <1>4, <1>5, WrittenOn
<1> QED BY <1>5, <1>6, <1>7 DEF z, f, y

LEMMA SetFollows ==
  ASSUME NEW x, WriteLine(x), NEW k \in Nat, NEW words
  PROVE  WriteFollows(x, Set(x, k, words)) /\ BuiltNow(Set(x, k, words))
<1> DEFINE t == [Token("SET") EXCEPT !.ph = GetPlaceholders(x, k), !.inner = words]
           z == [x EXCEPT !.text = Append(@, t), !.params = @ + k]
           y == Set(x, k, words)
<1>1. y = Rebuilt(z)
  BY DEF Set
<1>2. t.ph = GetPlaceholders(x, k)
  BY DEF Token
<1> HIDE DEF t, y
<1>3. DOMAIN z = WriteFields /\ z.text = Append(x.text, t) /\ z.params = x.params + k /\ z.dialect = x.dialect
  BY DEF WriteLine, WriteFields
<1> HIDE DEF z
<1>4. DOMAIN y = WriteFields /\ y.text = Append(x.text, t) /\ y.params = x.params + k /\ y.dialect = x.dialect /\ y.built = Len(y.text)
  BY <1>1, <1>3 DEF Rebuilt, WriteFields
<1>5. Stated(y) /\ BuiltNow(y)
  BY <1>4 DEF Stated, BuiltNow
<1>6. WriteFollows(x, y)
  BY <1>2, <1>4, <1>5, WrittenOn
<1> QED BY <1>5, <1>6 DEF y

LEMMA ValuesFollow ==
  ASSUME NEW x, WriteLine(x), NEW rows \in {<<>>} \cup (Rows \X Rows)
  PROVE  LET y == Values(x, rows) IN WriteFollows(x, y) /\ (y.rows # <<>> => BuiltNow(y))
<1> DEFINE y == Values(x, rows)
<1>0. DOMAIN x = WriteFields
  BY DEF WriteLine
<1>1. CASE rows = <<>>
  <2>1. DOMAIN y = WriteFields /\ y.dialect = x.dialect /\ y.text = <<>> /\ y.params = 0 /\ y.built = NoQuery /\ y.rows = <<>>
    BY <1>0, <1>1 DEF Values, WriteFields
  <2> HIDE DEF y
  <2>2. WriteFollows(x, y)
    BY <2>1, DealingBegins DEF WriteFollows, WriteLine, Stated
  <2> QED BY <2>1, <2>2 DEF y
<1>2. CASE rows # <<>>
  <2> DEFINE k == Len(rows) * Cardinality(rows[1])
             none == [x EXCEPT !.params = 0]
             t == [Token("VALUES") EXCEPT !.inner = rows[1], !.ph = GetPlaceholders(none, k)]
             z == [x EXCEPT !.rows = rows, !.text = <<t>>, !.params = k]
  <2>1. y = Rebuilt(z)
    BY <1>2 DEF Values
  <2>2. k \in Nat
    <3>1. rows \in Rows \X Rows
      BY <1>2
    <3>2. Len(rows) = 2 /\ rows[1] \in SUBSET {"a", "b"}
      BY <3>1 DEF Rows, Columns
    <3> DEFINE one == {} \cup {"a"}
               two == one \cup {"b"}
    <3>6. IsFiniteSet({})
      BY FS_EmptySet
    <3>7. IsFiniteSet(one)
      BY <3>6, FS_AddElement
    <3> HIDE DEF one
    <3>8. IsFiniteSet(two)
      BY <3>7, FS_AddElement
    <3>3. IsFiniteSet({"a", "b"})
      <4>1. two = {"a", "b"}
        BY DEF one
      <4> QED BY <3>8, <4>1
    <3>4. Cardinality(rows[1]) \in Nat
      BY <3>2, <3>3, FS_Subset, FS_CardinalityType
    <3> QED BY <3>2, <3>4
  <2>3. t.ph = GetPlaceholders(none, k)
    BY DEF Token
  <2>4. none.params = 0 /\ none.dialect = x.dialect
    BY <1>0 DEF WriteFields
  <2> HIDE DEF t, k, none, y
  <2>5. DOMAIN z = WriteFields /\ z.text = <<t>> /\ z.rows = rows /\ z.params = k /\ z.dialect = x.dialect
    BY <1>0 DEF WriteFields
  <2> HIDE DEF z
  <2>6. DOMAIN y = WriteFields /\ y.text = <<t>> /\ y.params = k /\ y.dialect = x.dialect /\ y.built = Len(y.text)
    BY <2>1, <2>5 DEF Rebuilt, WriteFields
  <2>7. Dealing(x.dialect, 0 + k, Append(<<>>, t))
    BY <2>2, <2>3, <2>4, DealingBegins, DealingMore
  <2>8. 0 + k = k /\ Append(<<>>, t) = <<t>>
    BY <2>2
  <2>9. WriteFollows(x, y)
    BY <2>6, <2>7, <2>8 DEF WriteFollows, WriteLine, Stated
  <2> QED BY <2>6, <2>9 DEF BuiltNow, y
<1> QED BY <1>1, <1>2

----------------------------------------------------------------------------
(* The calls of the write builders.                                          *)

\* What follows the first WHERE has the last placeholders, and takes as many of the last values.
LEMMA FoundBinds ==
  ASSUME NEW x, WriteLine(x), x.dialect = "sqlite"
  PROVE  Binds(RunMysqlFound(x), x.dialect)
<1> DEFINE text == x.text
           m == x.params
           n == Len(text)
           from == FirstTopLevel(text, {"WHERE"})
           before == SubSeq(text, 1, from - 1)
           where == SubSeq(text, from, n)
           ph == Placeholders(where)
           k == Len(ph)
           inSet == \E i \in DOMAIN x.text : "WHERE" \in x.text[i].inner
           base == Written(x, where)
           q == RunMysqlFound(x)
<1>1. m \in Nat /\ Marked(text) /\ Placeholders(text) = Dealt(x.dialect, m)
  BY DEF WriteLine, Dealing
<1>2. PICK S : Holds(S, PH) /\ text \in Seq(S)
  BY <1>1 DEF Marked
<1>3. from \in 1 .. n + 1
  BY <1>2, FirstIs
<1>4. before \in Seq(S) /\ where \in Seq(S) /\ before \o where = text
  <2>1. <<>> \in Seq(S)
    OBVIOUS
  <2>2. InsertedRight(S, text, from, <<>>)
    <3> HIDE DEF text, from
    <3> QED BY <1>2, <1>3, <2>1, InsertedIs
  <2> QED BY <2>2 DEF InsertedRight
<1>5. k = Len(FlattenSeq([i \in 1 .. Len(where) |-> where[i].ph]))
  BY DEF Placeholders
<1>6. /\ base.dialect = x.dialect /\ base.text = where /\ base.values = Numbered(m)
      /\ DOMAIN base = {"dialect", "text", "values", "head"}
  BY DEF Written, Numbered
<1>7. q = [base EXCEPT !.values = SubSeq(@, Len(@) - k + 1, Len(@)), !.head.broken = inSet]
  BY <1>5 DEF RunMysqlFound
<1> HIDE DEF text, from, before, where, base, inSet
<1>8. Numbered(m) \in Seq(Nat) /\ Len(Numbered(m)) = m /\ \A i \in 1 .. m : Numbered(m)[i] = i
  BY <1>1 DEF Numbered
<1>9. q.dialect = x.dialect /\ q.text = where /\ q.values = SubSeq(Numbered(m), m - k + 1, m)
  BY <1>6, <1>7, <1>8
<1> HIDE DEF q
<1>10. /\ Placeholders(before) \in Seq(PH) /\ ph \in Seq(PH)
       /\ Dealt(x.dialect, m) = Placeholders(before) \o ph
  BY <1>1, <1>2, <1>4, PlaceholdersJoin, PlaceholdersGrow
<1> DEFINE o == Placeholders(before)
           c == Len(o)
           all == Dealt(x.dialect, m)
<1>11. /\ all \in Seq(PH) /\ Len(all) = m /\ \A i \in 1 .. m : all[i].at = i
  BY <1>1, DealtAre
<1> HIDE DEF all, o, ph
<1>12. c \in Nat /\ k \in Nat /\ m = c + k /\ \A i \in 1 .. k : all[c + i] = ph[i]
  <2>1. o \in Seq(PH) /\ ph \in Seq(PH) /\ all = o \o ph
    BY <1>10 DEF all, o, ph
  <2> QED BY <1>11, <2>1
<1> HIDE DEF c, k
<1>13. \A i \in 1 .. k : ph[i].at = c + i
  <2>1. \A i \in 1 .. k : c + i \in 1 .. m
    BY <1>12
  <2> QED BY <1>11, <1>12, <2>1
<1>14. m - k + 1 = c + 1 /\ m = c + k
  BY <1>12
<1> DEFINE v == SubSeq(Numbered(m), c + 1, m)
<1>15. Len(v) = k /\ \A i \in 1 .. k : v[i] = c + i
  BY <1>8, <1>12
<1>16. Len(ph) = k
  BY DEF k
<1>17. q.values = v
  BY <1>9, <1>14
<1> HIDE DEF v
<1>18. BindingsOK(q)
  <2>1. Placeholders(q.text) = ph
    BY <1>9 DEF ph
  <2>2. q.dialect # "postgres"
    BY <1>9
  <2> QED BY <1>13, <1>15, <1>16, <1>17, <2>1, <2>2 DEF BindingsOK
<1> QED BY <1>9, <1>18 DEF Binds, q

\* What each kind of write builder keeps.
InsertLine(x) == WriteLine(x) /\ (x.rows # <<>> => BuiltNow(x))
UpdateLine(x) == WriteLine(x) /\ (x.text # <<>> => BuiltNow(x))

LEMMA OneStatement == \A q, d : Binds(q, d) => SentBinds(<<q>>, d)
BY OneSent DEF SentBinds

LEMMA InsertBinds ==
  ASSUME InsertLine(b), CallValues \/ SendInsert
  PROVE  InsertLine(b') /\ b'.dialect = b.dialect /\ SentBinds(sent', b.dialect)
<1>0. WriteLine(b)
  BY DEF InsertLine
<1>1. CASE CallValues
  <2>1. PICK rows \in {<<>>} \cup (Rows \X Rows) : Shape(Values(b, rows))
    BY <1>1 DEF CallValues
  <2> DEFINE y == Values(b, rows)
  <2>2. WriteFollows(b, y) /\ (y.rows # <<>> => BuiltNow(y))
    BY <1>0, ValuesFollow
  <2>3. b' = y /\ sent' = <<>>
    BY <2>1, CallsBring
  <2> HIDE DEF y
  <2> QED BY <2>2, <2>3 DEF WriteFollows, InsertLine, SentBinds
<1>2. CASE SendInsert
  <2>1. b.rows # <<>> /\ (Send(b, InsertExecute(b)) \/ Send(b, InsertReturning(b)))
    BY <1>2 DEF SendInsert
  <2>2. SubSeq(b.text, 1, b.built) = b.text
    BY <1>0, <2>1, WrittenBinds DEF InsertLine
  <2>3. Binds(InsertExecute(b), b.dialect) /\ Binds(InsertReturning(b), b.dialect)
    BY <1>0, <2>2, WrittenBinds DEF InsertExecute, InsertReturning
  <2>4. SentBinds(<<InsertExecute(b)>>, b.dialect) /\ SentBinds(<<InsertReturning(b)>>, b.dialect)
    BY <2>3, OneStatement
  <2> QED BY <2>1, <2>4 DEF Send
<1> QED BY <1>1, <1>2

LEMMA UpdateBinds ==
  ASSUME UpdateLine(b), CallSet \/ CallUpdateWhere \/ SendUpdate \/ SendUpdateFound
  PROVE  UpdateLine(b') /\ b'.dialect = b.dialect /\ SentBinds(sent', b.dialect)
<1>0. WriteLine(b)
  BY DEF UpdateLine
<1>1. ASSUME NEW y, WriteFollows(b, y), BuiltNow(y), b' = y, sent' = <<>>
      PROVE  UpdateLine(b') /\ b'.dialect = b.dialect /\ SentBinds(sent', b.dialect)
  BY <1>1 DEF WriteFollows, UpdateLine, SentBinds
<1>2. CASE CallSet
  <2>1. PICK k \in 1 .. 2, words \in {{}, {"WHERE"}} : Shape(Set(b, k, words))
    BY <1>2 DEF CallSet
  <2>2. k \in Nat
    OBVIOUS
  <2>3. WriteFollows(b, Set(b, k, words)) /\ BuiltNow(Set(b, k, words))
    BY <1>0, <2>2, SetFollows
  <2>4. b' = Set(b, k, words) /\ sent' = <<>>
    BY <2>1, CallsBring
  <2> QED BY <1>1, <2>3, <2>4
<1>3. CASE CallUpdateWhere
  <2> DEFINE no == FALSE
  <2>1. \/ \E n \in 1 .. 2 : Filter(UpdateWhere(b, n, n), "AND", "all", n)
        \/ \E n \in Sizes : AskMember(UpdateWhereIn(b, n), "AND", n, no)
        \/ Filter(UpdateWhereNull(b), "AND", "all", 1)
    BY <1>3 DEF CallUpdateWhere
  <2> HIDE DEF no
  <2>2. \A mode, n : \A k \in Nat : LET z == Rebuilt(AppendPredicate(b, mode, n, k)) IN WriteFollows(b, z) /\ BuiltNow(z)
    BY <1>0, PredicateFollows
  <2>3. ASSUME NEW n \in 1 .. 2, Filter(UpdateWhere(b, n, n), "AND", "all", n)
        PROVE  UpdateLine(b') /\ b'.dialect = b.dialect /\ SentBinds(sent', b.dialect)
    <3>1. n \in Nat
      OBVIOUS
    <3>2. WriteFollows(b, UpdateWhere(b, n, n)) /\ BuiltNow(UpdateWhere(b, n, n))
      BY <2>2, <3>1 DEF UpdateWhere
    <3>3. b' = UpdateWhere(b, n, n) /\ sent' = <<>>
      BY <2>3, CallsBring
    <3> QED BY <1>1, <3>2, <3>3
  <2>4. ASSUME NEW n \in Sizes, AskMember(UpdateWhereIn(b, n), "AND", n, no)
        PROVE  UpdateLine(b') /\ b'.dialect = b.dialect /\ SentBinds(sent', b.dialect)
    <3>1. n \in Nat
      BY DEF Sizes
    <3>2. WriteFollows(b, UpdateWhereIn(b, n)) /\ BuiltNow(UpdateWhereIn(b, n))
      BY <2>2, <3>1 DEF UpdateWhereIn
    <3>3. b' = UpdateWhereIn(b, n) /\ sent' = <<>>
      BY <2>4, CallsBring
    <3> QED BY <1>1, <3>2, <3>3
  <2>5. ASSUME Filter(UpdateWhereNull(b), "AND", "all", 1)
        PROVE  UpdateLine(b') /\ b'.dialect = b.dialect /\ SentBinds(sent', b.dialect)
    <3>2. WriteFollows(b, UpdateWhereNull(b)) /\ BuiltNow(UpdateWhereNull(b))
      BY <2>2 DEF UpdateWhereNull
    <3>3. b' = UpdateWhereNull(b) /\ sent' = <<>>
      BY <2>5, CallsBring
    <3> QED BY <1>1, <3>2, <3>3
  <2> QED BY <2>1, <2>3, <2>4, <2>5
<1>4. CASE SendUpdate
  <2>1. b.text # <<>> /\ (Send(b, UpdateExecute(b)) \/ Send(b, UpdateReturning(b)))
    BY <1>4 DEF SendUpdate
  <2>2. SubSeq(b.text, 1, b.built) = b.text
    BY <1>0, <2>1, WrittenBinds DEF UpdateLine
  <2>3. Binds(UpdateExecute(b), b.dialect) /\ Binds(UpdateReturning(b), b.dialect)
    BY <1>0, <2>2, WrittenBinds DEF UpdateExecute, UpdateReturning
  <2>4. SentBinds(<<UpdateExecute(b)>>, b.dialect) /\ SentBinds(<<UpdateReturning(b)>>, b.dialect)
    BY <2>3, OneStatement
  <2> QED BY <2>1, <2>4 DEF Send
<1>5. CASE SendUpdateFound
  <2>1. b.dialect = "sqlite" /\ Send(b, RunMysqlFound(b))
    BY <1>5 DEF SendUpdateFound
  <2>2. SentBinds(<<RunMysqlFound(b)>>, b.dialect)
    BY <1>0, <2>1, FoundBinds, OneStatement
  <2> QED BY <2>1, <2>2 DEF Send
<1> QED BY <1>2, <1>3, <1>4, <1>5

LEMMA DeleteBinds ==
  ASSUME WriteLine(b), CallDeleteWhere \/ SendDelete
  PROVE  WriteLine(b') /\ b'.dialect = b.dialect /\ SentBinds(sent', b.dialect)
<1>1. ASSUME NEW y, WriteFollows(b, y), b' = y, sent' = <<>>
      PROVE  WriteLine(b') /\ b'.dialect = b.dialect /\ SentBinds(sent', b.dialect)
  BY <1>1 DEF WriteFollows, SentBinds
<1>2. CASE CallDeleteWhere
  <2> DEFINE no == FALSE
  <2>1. \/ \E n \in 1 .. 2 : Filter(DeleteWhere(b, n, n), "AND", "all", n)
        \/ \E n \in Sizes : AskMember(DeleteWhereIn(b, n), "AND", n, no)
        \/ Filter(DeleteWhereNull(b), "AND", "all", 1)
    BY <1>2 DEF CallDeleteWhere
  <2> HIDE DEF no
  <2>2. \A mode, n : \A k \in Nat : WriteFollows(b, [AppendPredicate(b, mode, n, k) EXCEPT !.built = NoQuery])
    BY PredicateFollows
  <2>3. ASSUME NEW n \in 1 .. 2, Filter(DeleteWhere(b, n, n), "AND", "all", n)
        PROVE  WriteLine(b') /\ b'.dialect = b.dialect /\ SentBinds(sent', b.dialect)
    <3>1. n \in Nat
      OBVIOUS
    <3>2. WriteFollows(b, DeleteWhere(b, n, n))
      BY <2>2, <3>1 DEF DeleteWhere
    <3>3. b' = DeleteWhere(b, n, n) /\ sent' = <<>>
      BY <2>3, CallsBring
    <3> QED BY <1>1, <3>2, <3>3
  <2>4. ASSUME NEW n \in Sizes, AskMember(DeleteWhereIn(b, n), "AND", n, no)
        PROVE  WriteLine(b') /\ b'.dialect = b.dialect /\ SentBinds(sent', b.dialect)
    <3>1. n \in Nat
      BY DEF Sizes
    <3>2. WriteFollows(b, DeleteWhereIn(b, n))
      BY <2>2, <3>1 DEF DeleteWhereIn
    <3>3. b' = DeleteWhereIn(b, n) /\ sent' = <<>>
      BY <2>4, CallsBring
    <3> QED BY <1>1, <3>2, <3>3
  <2>5. ASSUME Filter(DeleteWhereNull(b), "AND", "all", 1)
        PROVE  WriteLine(b') /\ b'.dialect = b.dialect /\ SentBinds(sent', b.dialect)
    <3>2. WriteFollows(b, DeleteWhereNull(b))
      BY <2>2 DEF DeleteWhereNull
    <3>3. b' = DeleteWhereNull(b) /\ sent' = <<>>
      BY <2>5, CallsBring
    <3> QED BY <1>1, <3>2, <3>3
  <2> QED BY <2>1, <2>3, <2>4, <2>5
<1>3. CASE SendDelete
  <2> DEFINE d == EnsureDelBuilt(b)
  <2>1. WriteLine(d) /\ BuiltNow(d) /\ d.dialect = b.dialect
    <3>1. CASE b.built = NoQuery
      <4>1. d = Rebuilt(b)
        BY <3>1 DEF EnsureDelBuilt
      <4> HIDE DEF d
      <4>2. DOMAIN d = WriteFields /\ d.text = b.text /\ d.params = b.params /\ d.dialect = b.dialect /\ d.built = Len(d.text)
        BY <4>1 DEF Rebuilt, WriteLine, WriteFields
      <4> QED BY <4>2 DEF WriteLine, Stated, BuiltNow
    <3>2. CASE b.built # NoQuery
      BY <3>2 DEF EnsureDelBuilt, WriteLine, Stated, BuiltNow
    <3> QED BY <3>1, <3>2
  <2>2. DeleteExecute(b) = Written(d, SubSeq(d.text, 1, d.built))
    BY DEF DeleteExecute
  <2>3. Send(d, DeleteExecute(b)) \/ Send(b, DeleteReturning(b))
    BY <1>3 DEF SendDelete
  <2> HIDE DEF d
  <2>4. Binds(DeleteExecute(b), b.dialect)
    BY <2>1, <2>2, WrittenBinds
  <2>5. Binds(DeleteReturning(b), b.dialect)
    BY WrittenBinds DEF DeleteReturning
  <2>6. SentBinds(<<DeleteExecute(b)>>, b.dialect) /\ SentBinds(<<DeleteReturning(b)>>, b.dialect)
    BY <2>4, <2>5, OneStatement
  <2> QED BY <2>1, <2>3, <2>6 DEF Send
<1> QED BY <1>2, <1>3

----------------------------------------------------------------------------
(* Whatever is called, the dialect is the builder's, and that of what it remembers*)
(* and sends: so a chain is left out for the dialect it was begun with.      *)

Voiced(q, d) == DOMAIN q = StatementFields /\ q.dialect = d
Speaks(x, d) ==
  /\ DOMAIN x = Fields /\ x.dialect = d /\ IsFiniteSet(x.pivots)
  /\ x.built # Unbuilt => Voiced(x.built[1], d)
SentVoiced(q, d) == q # <<>> => Voiced(q[1], d)

LEMMA DirtySpeaks ==
  ASSUME NEW d, NEW x, DOMAIN x = Fields, x.dialect = d, IsFiniteSet(x.pivots)
  PROVE  Speaks(Dirty(x), d)
<1> DEFINE y == [x EXCEPT !.built = Unbuilt]
<1>1. DOMAIN y = Fields /\ y.dialect = d /\ IsFiniteSet(y.pivots) /\ y.built = Unbuilt
  BY DEF Fields
<1> HIDE DEF y
<1>2. Speaks(y, d)
  BY <1>1 DEF Speaks
<1> QED BY <1>2 DEF y, Dirty

LEMMA StatementsVoiced ==
  ASSUME NEW d, NEW x, x.dialect = d
  PROVE  /\ \A text : Voiced(Statement(x, text), d) /\ Voiced(ToSQL(x), d)
         /\ Voiced(CursorPaginate(x), d) /\ Voiced(Count(x), d) /\ Voiced(Aggregate(x), d)
<1>1. \A text : Voiced(Statement(x, text), d)
  BY DEF Statement, Voiced, StatementFields
<1>2. Voiced(ToSQL(x), d)
  BY <1>1 DEF ToSQL
<1>4. \A q, h : Voiced(q, d) => Voiced([q EXCEPT !.head = h], d)
  BY DEF Voiced, StatementFields
<1>5. Voiced(CursorPaginate(x), d)
  <2> DEFINE base == Statement(x, <<>>)
             text == Reorder(CurrentSql(x, <<OwnTerm(base)>>)) \o <<Token("ORDER_BY"), Token("LIMIT")>>
             v == base.values \o <<OwnValue>>
  <2>1. CursorPaginate(x) = [base EXCEPT !.text = text, !.values = v]
    BY DEF CursorPaginate
  <2>2. Voiced(base, d)
    BY <1>1
  <2> HIDE DEF base, text, v
  <2> QED BY <2>1, <2>2 DEF Voiced, StatementFields
<1>6. Voiced(Aggregate(x), d) /\ Voiced(Count(x), d)
  <2> DEFINE q == Statement(x, CurrentSql(x, <<>>))
             h == ReplaceList(q.head, {"agg"}, FALSE)
             c == ReplaceList(q.head, {"count"}, FALSE)
  <2>1. Aggregate(x) = [q EXCEPT !.head = h] /\ (Count(x) = q \/ Count(x) = [q EXCEPT !.head = c])
    BY DEF Aggregate, Count
  <2>2. Voiced(q, d)
    BY <1>1
  <2> HIDE DEF q, h, c
  <2> QED BY <1>4, <2>1, <2>2
<1> QED BY <1>1, <1>2, <1>5, <1>6

LEMMA EnsureSpeaks ==
  ASSUME NEW d, NEW x, Speaks(x, d)
  PROVE  /\ Speaks(EnsureBuilt(x), d) /\ Voiced(Built(x), d)
         /\ EnsureBuilt(x).built # Unbuilt /\ EnsureBuilt(x).built[1] = Built(x)
<1> DEFINE q == Statement(x, Reorder(CurrentSql(x, <<>>)))
           y == [x EXCEPT !.built = <<q>>]
           z == EnsureBuilt(x)
<1>1. z = IF x.built = Unbuilt THEN y ELSE x
  BY DEF EnsureBuilt
<1>2. Voiced(q, d)
  BY StatementsVoiced DEF Speaks
<1> HIDE DEF q
<1>3. DOMAIN y = Fields /\ y.dialect = d /\ y.pivots = x.pivots /\ y.built = <<q>>
  BY DEF Speaks, Fields
<1> HIDE DEF y, z
<1>4. <<q>>[1] = q /\ <<q>> # Unbuilt
  BY DEF Unbuilt
<1>5. Speaks(y, d) /\ y.built # Unbuilt
  BY <1>2, <1>3, <1>4 DEF Speaks
<1>6. Speaks(z, d) /\ z.built # Unbuilt
  BY <1>1, <1>5
<1>7. Built(x) = z.built[1]
  BY DEF Built, z
<1>8. Voiced(z.built[1], d)
  BY <1>6 DEF Speaks
<1> QED BY <1>6, <1>7, <1>8 DEF z

LEMMA ComposeVoiced ==
  ASSUME NEW d, NEW q, Voiced(q, d), NEW more, NEW values
  PROVE  Voiced(Compose(q, more, values), d)
BY DEF Compose, Voiced, StatementFields

LEMMA PushSpeaks ==
  ASSUME NEW d, NEW x, Speaks(x, d), NEW t, NEW k
  PROVE  Speaks(PushWhere(x, t, k), d)
<1> DEFINE y == [x EXCEPT !.terms = Append(@, t), !.params = @ + k, !.atoms = @ + Cardinality(t.atoms)]
<1>1. DOMAIN y = Fields /\ y.dialect = d /\ y.pivots = x.pivots
  BY DEF Speaks, Fields
<1> HIDE DEF y
<1>2. Speaks(Dirty(y), d)
  BY <1>1, DirtySpeaks DEF Speaks
<1> QED BY <1>2 DEF PushWhere, y

LEMMA JoinsSpeak ==
  ASSUME NEW d, NEW x, Speaks(x, d), NEW joins
  PROVE  Speaks(AddJoins(x, joins), d)
<1> DEFINE y == [x EXCEPT !.text = InsertJoin(@, joins), !.joined = @ \cup {joins[i].tbl : i \in DOMAIN joins}]
<1>1. DOMAIN y = Fields /\ y.dialect = d /\ y.pivots = x.pivots
  BY DEF Speaks, Fields
<1> HIDE DEF y
<1>2. Speaks(Dirty(y), d)
  BY <1>1, DirtySpeaks DEF Speaks
<1> QED BY <1>2 DEF AddJoins, y

LEMMA ColumnSpeaks ==
  ASSUME NEW d, NEW x, Speaks(x, d), NEW col, NEW sub
  PROVE  Speaks(AddToSelectClause(x, col, sub), d)
<1> DEFINE h == WithColumn(x.head, col, sub)
           w == [x EXCEPT !.head = h]
           edited == EnsureBuilt(w)
           query == edited.built[1]
           g == WithColumn(query.head, col, sub)
           r == [query EXCEPT !.head = g, !.values = <<>>]
           y == [edited EXCEPT !.built = <<r>>]
<1>1. AddToSelectClause(x, col, sub) = edited \/ AddToSelectClause(x, col, sub) = y
  BY DEF AddToSelectClause
<1> HIDE DEF h, g
<1>2. DOMAIN w = Fields /\ w.dialect = d /\ w.pivots = x.pivots /\ w.built = x.built
  BY DEF Speaks, Fields
<1> HIDE DEF w
<1>3. Speaks(w, d)
  BY <1>2 DEF Speaks
<1>4. Speaks(edited, d) /\ Voiced(query, d)
  BY <1>3, EnsureSpeaks
<1> HIDE DEF query, edited
<1>5. Voiced(r, d)
  BY <1>4 DEF Voiced, StatementFields
<1> HIDE DEF r
<1>6. DOMAIN y = Fields /\ y.dialect = d /\ y.pivots = edited.pivots /\ y.built = <<r>>
  BY <1>4 DEF Speaks, Fields
<1> HIDE DEF y
<1>7. <<r>>[1] = r
  OBVIOUS
<1>8. Speaks(y, d)
  BY <1>4, <1>5, <1>6, <1>7 DEF Speaks
<1> QED BY <1>1, <1>4, <1>8

LEMMA PivotsSpeak ==
  ASSUME NEW d, NEW x, Speaks(x, d)
  PROVE  Speaks(ApplyPivotColumns(x), d)
<1> DEFINE names == SetToSeq(x.pivots)
           N == Len(names)
<1>1. IsFiniteSet(x.pivots)
  BY DEF Speaks
<1>2. PICK g : ColumnTrace(g, x)
  BY <1>1, PivotColumnsAreTraced
<1>3. /\ g[0] = x /\ \A n \in 1 .. N : g[n] = AddToSelectClause(g[n - 1], PivotTable(names[n]), FALSE)
      /\ ApplyPivotColumns(x) = g[N]
  BY <1>2 DEF ColumnTrace
<1>4. N \in Nat
  BY <1>1, NamesAre
<1> HIDE DEF N, names
<1> DEFINE S == {n \in 0 .. N : Speaks(g[n], d)}
<1>5. 0 \in S
  BY <1>3, <1>4
<1>6. ASSUME NEW n \in 0 .. N - 1, n \in S PROVE n + 1 \in S
  <2>1. n + 1 \in 1 .. N /\ n + 1 \in 0 .. N /\ n + 1 - 1 = n
    BY <1>4
  <2> DEFINE next == n + 1
             col == PivotTable(names[next])
  <2>2. g[n + 1] = AddToSelectClause(g[n], col, FALSE)
    <3>1. next \in 1 .. N /\ next - 1 = n /\ g[next] = g[n + 1]
      BY <2>1
    <3> HIDE DEF next
    <3>2. g[next] = AddToSelectClause(g[next - 1], PivotTable(names[next]), FALSE)
      BY <1>3, <3>1, Zenon
    <3> QED BY <3>1, <3>2
  <2> HIDE DEF col, next
  <2>3. Speaks(g[n], d)
    BY <1>6
  <2>4. Speaks(AddToSelectClause(g[n], col, FALSE), d)
    BY <2>3, ColumnSpeaks
  <2> QED BY <2>1, <2>2, <2>4
<1>7. N \in S
  <2> HIDE DEF S
  <2>1. 0 .. N \subseteq S
    BY <1>4, <1>5, <1>6, CountingUp
  <2>2. N \in 0 .. N
    BY <1>4
  <2> QED BY <2>1, <2>2
<1> QED BY <1>3, <1>7

LEMMA ForgetSpeaks ==
  ASSUME NEW d, NEW x, Speaks(x, d)
  PROVE  Speaks(Dirty(x), d)
BY DirtySpeaks DEF Speaks

LEMMA WithSpeaks ==
  ASSUME NEW d, NEW x, Speaks(x, d), NEW path, Len(path) \in {1, 2}
  PROVE  Speaks(With(x, <<path>>).b, d)
<1>1. PICK y : Hops(y, x) /\ With(x, <<path>>).b \in {y, Dirty(ApplyPivotColumns(y))}
  BY WithIs
<1>2. Speaks(y, d)
  <2>1. \A z : Speaks(z, d) => \A t : OneHop(t, z) => Speaks(t, d)
    BY JoinsSpeak DEF OneHop
  <2> QED BY <1>1, <2>1 DEF Hops
<1>3. Speaks(Dirty(ApplyPivotColumns(y)), d)
  BY <1>2, PivotsSpeak, ForgetSpeaks
<1> QED BY <1>1, <1>2, <1>3

\* Every call on a SELECT builder, by what it makes of the builder and what it sends.
LEMMA ConditionsSpeak ==
  ASSUME NEW d, Speaks(b, d), CallCondition
  PROVE  Speaks(b', d) /\ SentVoiced(sent', d)
<1> USE DEF Filter, Shape, AskMember
<1> DEFINE Spoke == Speaks(b', d) /\ sent' = <<>>
<1>1. \A z, c, mode, n, k : Speaks(z, d) => Speaks(Predicate(z, c, mode, n, k), d)
  BY PushSpeaks DEF Predicate
<1>2. ASSUME NEW n PROVE Speaks(EnsurePivotJoined(b, n), d)
  <2> DEFINE e == EnsureBuilt(b)
             y == [e EXCEPT !.text = Append(@, JoinToken(PivotTable(n), Root)), !.joined = @ \cup {PivotTable(n)}]
  <2>1. Speaks(e, d)
    BY EnsureSpeaks
  <2>2. EnsurePivotJoined(b, n) = b \/ EnsurePivotJoined(b, n) = y
    BY DEF EnsurePivotJoined
  <2> HIDE DEF e
  <2>3. DOMAIN y = Fields /\ y.dialect = d /\ y.pivots = e.pivots /\ y.built = e.built
    BY <2>1 DEF Speaks, Fields
  <2> HIDE DEF y
  <2>4. Speaks(y, d)
    BY <2>1, <2>3 DEF Speaks
  <2> QED BY <2>2, <2>4
<1>4. CASE CallWhere \/ CallBooleanWhere \/ CallWhereNull
  <2>1. Spoke
    BY <1>1, <1>4 DEF CallWhere, CallBooleanWhere, CallWhereNull, Where, AddBooleanWhere, WhereNull, WhereRaw
  <2> QED BY <2>1 DEF SentVoiced
<1>5. CASE CallWhereValue
  <2>1. Spoke
    BY <1>1, <1>5 DEF CallWhereValue, WhereBetween, WhereLike, WhereNotBetween, WhereDate, WhereJsonPath, WhereJsonContains
  <2> QED BY <2>1 DEF SentVoiced
<1>6. CASE CallWhereColumns
  <2>1. Spoke
    BY <1>1, <1>6 DEF CallWhereColumns, WhereAny, WhereAll, WhereNone
  <2> QED BY <2>1 DEF SentVoiced
<1>7. CASE CallWhereIn \/ CallDynamicWhere
  <2>1. Spoke
    BY <1>1, <1>7 DEF CallWhereIn, WhereIn, CallDynamicWhere, DynamicWhere
  <2> QED BY <2>1 DEF SentVoiced
<1>8. CASE CallWhereHas
  <2>1. Spoke
    BY <1>1, <1>8 DEF CallWhereHas, WhereHas, WhereDoesntHave
  <2> QED BY <2>1 DEF SentVoiced
<1>9. CASE CallWhereSubquery \/ CallWhereGroup
  <2>1. Spoke
    BY <1>9, PushSpeaks DEF CallWhereSubquery, WhereSubquery, CallWhereGroup, AddWhereGroup
  <2> QED BY <2>1 DEF SentVoiced
<1>10. CASE CallWherePivot
  <2>1. Spoke
    BY <1>1, <1>2, <1>10 DEF CallWherePivot, WherePivot, WherePivotNull, WherePivotIn, WherePivotNotIn, WhereIn, WhereNull
  <2> QED BY <2>1 DEF SentVoiced
<1> QED BY <1>4, <1>5, <1>6, <1>7, <1>8, <1>9, <1>10 DEF CallCondition

LEMMA ShapesSpeak ==
  ASSUME NEW d, Speaks(b, d), CallShape
  PROVE  Speaks(b', d) /\ SentVoiced(sent', d)
<1>1. ASSUME NEW y, Speaks(y, d), Shape(y) PROVE Speaks(b', d) /\ SentVoiced(sent', d)
  BY <1>1, CallsBring DEF SentVoiced
<1>2. CASE CallColumns \/ CallSelect
  <2>1. PICK h : Shape(Dirty([b EXCEPT !.head = h]))
    BY <1>2, ListsAre
  <2> DEFINE y == [b EXCEPT !.head = h]
  <2>2. DOMAIN y = Fields /\ y.dialect = d /\ y.pivots = b.pivots
    BY DEF Speaks, Fields
  <2>3. Shape(Dirty(y))
    BY <2>1
  <2> HIDE DEF y
  <2> QED BY <1>1, <2>2, <2>3, DirtySpeaks DEF Speaks
<1>3. CASE CallWindow
  BY <1>1, <1>3, ColumnSpeaks DEF CallWindow, AddWindowFunction
<1>4. CASE CallWithCount
  BY <1>1, <1>4, ColumnSpeaks DEF CallWithCount, WithCount, ApplyRelationAggregate
<1>5. CASE CallWithPivot
  <2>1. PICK n : Shape(WithPivot(b, n))
    BY <1>5 DEF CallWithPivot
  <2> DEFINE y == [b EXCEPT !.pivots = @ \cup {n}]
  <2>2. DOMAIN y = Fields /\ y.dialect = d /\ y.pivots = b.pivots \cup {n} /\ y.built = b.built
    BY DEF Speaks, Fields
  <2>3. WithPivot(b, n) = ApplyPivotColumns(y)
    BY DEF WithPivot
  <2> HIDE DEF y
  <2>4. Speaks(y, d)
    BY <2>2, FS_AddElement DEF Speaks
  <2> QED BY <1>1, <2>1, <2>3, <2>4, PivotsSpeak
<1>6. CASE CallCTE
  <2>1. PICK k, words : Shape(WithCTE(b, words, k))
    BY <1>6 DEF CallCTE
  <2> DEFINE cte == [Token("CTE") EXCEPT !.inner = words, !.ph = LostPlaceholders(b, k)]
             y == [b EXCEPT !.text = <<cte>> \o @, !.head.cte = TRUE, !.head.inner = TRUE]
  <2>2. DOMAIN y = Fields /\ y.dialect = d /\ y.pivots = b.pivots /\ WithCTE(b, words, k) = Dirty(y)
    BY DEF Speaks, Fields, WithCTE
  <2> HIDE DEF y
  <2> QED BY <1>1, <2>1, <2>2, DirtySpeaks DEF Speaks
<1>7. CASE CallJoin \/ CallJoinSub
  BY <1>1, <1>7, JoinsSpeak DEF CallJoin, CallJoinSub, Join, JoinSub
<1>8. CASE CallWith
  <2>1. PICK path \in Paths : Shape(With(b, <<path>>).b)
    BY <1>8 DEF CallWith
  <2>2. Len(path) \in {1, 2}
    BY DEF Paths
  <2> QED BY <1>1, <2>1, <2>2, WithSpeaks
<1> QED BY <1>2, <1>3, <1>4, <1>5, <1>6, <1>7, <1>8 DEF CallShape

LEMMA TrailingSpeaks ==
  ASSUME NEW d, Speaks(b, d), CallTrailing \/ CallSetOp \/ CallWithTrashed \/ CallOnlyTrashed
  PROVE  Speaks(b', d) /\ SentVoiced(sent', d)
<1>1. ASSUME NEW y, Speaks(y, d), b' = y, sent' = <<>> PROVE Speaks(b', d) /\ SentVoiced(sent', d)
  BY <1>1 DEF SentVoiced
<1>2. ASSUME NEW y, DOMAIN y = Fields, y.dialect = d, y.pivots = b.pivots PROVE Speaks(Dirty(y), d)
  BY <1>2, DirtySpeaks DEF Speaks
<1>3. CASE CallGroupBy \/ CallOrderBy \/ CallReorder \/ CallLimit \/ CallOffset \/ CallForPage \/ CallLock
  <2> DEFINE Text(t) == [b EXCEPT !.text = t]
  <2>1. \A t : DOMAIN Text(t) = Fields /\ Text(t).dialect = d /\ Text(t).pivots = b.pivots
    BY DEF Speaks, Fields
  <2>2. \E t : Shape(Dirty(Text(t)))
    BY <1>3 DEF CallGroupBy, CallOrderBy, CallReorder, CallLimit, CallOffset, CallForPage, CallLock,
           GroupBy, OrderBy, ReorderBy, Limit, Offset, ForPage, LockForUpdate
  <2> HIDE DEF Text
  <2> QED BY <1>1, <1>2, <2>1, <2>2, CallsBring
<1>4. CASE CallHaving \/ CallHavingRaw
  <2>1. PICK k : Shape(Having(b, k))
    BY <1>4 DEF CallHaving, CallHavingRaw, HavingRaw
  <2> DEFINE token == [Token(IF b.having THEN "AND" ELSE "HAVING") EXCEPT !.of = "HAVING", !.ph = GetPlaceholders(b, k)]
             y == [b EXCEPT !.text = Append(@, token), !.having = TRUE, !.params = @ + k]
  <2>2. DOMAIN y = Fields /\ y.dialect = d /\ y.pivots = b.pivots /\ Having(b, k) = Dirty(y)
    BY DEF Speaks, Fields, Having
  <2> HIDE DEF y
  <2> QED BY <1>1, <1>2, <2>1, <2>2, CallsBring
<1>5. CASE CallSetOp
  <2>1. PICK kw, other : b' = AppendSetOp(b, kw, other) /\ sent' = <<>>
    BY <1>5 DEF CallSetOp
  <2> DEFINE Y(text, pred, n, m) == [b EXCEPT !.text = text, !.terms = <<>>, !.tail = TRUE, !.tailPred = pred,
                                              !.params = n, !.atoms = m]
  <2>2. \A text, pred, n, m : LET y == Y(text, pred, n, m) IN DOMAIN y = Fields /\ y.dialect = d /\ y.pivots = b.pivots
    BY DEF Speaks, Fields
  <2>3. \E text, pred, n, m : AppendSetOp(b, kw, other) = Dirty(Y(text, pred, n, m))
    BY DEF AppendSetOp
  <2> HIDE DEF Y
  <2> QED BY <1>1, <1>2, <2>1, <2>2, <2>3
<1>6. CASE CallWithTrashed
  <2> DEFINE y == [b EXCEPT !.trashed = "with"]
  <2>1. DOMAIN y = Fields /\ y.dialect = d /\ y.pivots = b.pivots /\ y.built = b.built
    BY DEF Speaks, Fields
  <2>2. Shape(y)
    BY <1>6 DEF CallWithTrashed, WithTrashed
  <2> HIDE DEF y
  <2>3. Speaks(y, d)
    BY <2>1 DEF Speaks
  <2> QED BY <1>1, <2>2, <2>3, CallsBring
<1>7. CASE CallOnlyTrashed
  <2> DEFINE term == Term("AND", "all", NextAtoms(b, 1), <<>>)
             marked == [b EXCEPT !.text = SpliceTrashed(@, term), !.trashed = "only", !.deletedAt = TRUE, !.atoms = @ + 1]
             r == [Statement(marked, <<>>) EXCEPT !.values = <<>>, !.head.broken = TRUE]
             y == [marked EXCEPT !.built = <<r>>]
  <2>1. OnlyTrashed(b) = y
    BY DEF OnlyTrashed
  <2>2. DOMAIN marked = Fields /\ marked.dialect = d /\ marked.pivots = b.pivots
    BY DEF Speaks, Fields
  <2> HIDE DEF marked
  <2>3. Voiced(r, d)
    BY <2>2 DEF Statement, Voiced, StatementFields
  <2> HIDE DEF r
  <2>4. DOMAIN y = Fields /\ y.dialect = d /\ y.pivots = b.pivots /\ y.built = <<r>>
    BY <2>2 DEF Fields
  <2> HIDE DEF y
  <2>5. <<r>>[1] = r
    OBVIOUS
  <2>6. Speaks(y, d)
    BY <2>3, <2>4, <2>5 DEF Speaks
  <2>7. Filter(y, "AND", "all", 1)
    BY <1>7, <2>1 DEF CallOnlyTrashed
  <2> QED BY <1>1, <2>6, <2>7, CallsBring
<1> QED BY <1>3, <1>4, <1>5, <1>6, <1>7 DEF CallTrailing

LEMMA SendsSpeak ==
  ASSUME NEW d, Speaks(b, d), SendSelect \/ SendGet
  PROVE  Speaks(b', d) /\ SentVoiced(sent', d)
<1>1. ASSUME NEW y, Speaks(y, d), NEW q, Voiced(q, d), b' = y, sent' = <<q>>
      PROVE  Speaks(b', d) /\ SentVoiced(sent', d)
  BY <1>1, OneSent DEF SentVoiced
<1>2. Speaks(EnsureBuilt(b), d) /\ Voiced(Built(b), d)
  BY EnsureSpeaks
<1>3. b.dialect = d
  BY DEF Speaks
<1>4. Voiced(ToSQL(b), d) /\ Voiced(CursorPaginate(b), d) /\ Voiced(Count(b), d) /\ Voiced(Aggregate(b), d)
  BY <1>3, StatementsVoiced
<1>5. CASE SendMemo
  BY <1>1, <1>2, <1>5 DEF SendMemo, Send, Execute, Exists
<1>6. CASE SendOneRow
  BY <1>1, <1>2, <1>6, ComposeVoiced DEF SendOneRow, Send, First, Value
<1>7. CASE SendPage
  <2>1. \/ b' = EnsureBuilt(b) /\ (sent' = <<Paginate(b)>> \/ sent' = <<SimplePaginate(b)>>)
        \/ b' = b /\ (sent' = <<PaginateTx(b)>> \/ sent' = <<CursorPaginate(b)>>)
    BY <1>7 DEF SendPage, Send
  <2>2. Voiced(Paginate(b), d) /\ Voiced(SimplePaginate(b), d) /\ Voiced(PaginateTx(b), d)
    BY <1>2, <1>4, ComposeVoiced DEF Paginate, SimplePaginate, PaginateTx
  <2> QED BY <1>1, <1>2, <1>4, <2>1, <2>2
<1>8. CASE SendKey
  <2>1. b' = EnsureBuilt(b) /\ (sent' = <<Find(b)>> \/ sent' = <<Lazy(b)>>)
    BY <1>8 DEF SendKey, Send
  <2>2. Voiced(Find(b), d) /\ Voiced(Lazy(b), d)
    BY <1>2, ComposeVoiced DEF Find, Lazy
  <2> QED BY <1>1, <1>2, <2>1, <2>2
<1>9. CASE SendAggregate \/ SendText
  BY <1>1, <1>4, <1>9 DEF SendAggregate, SendText, Send
<1>10. CASE SendGet
  <2> DEFINE q == Statement(b, CurrentSql(b, <<>>))
             plain == [b EXCEPT !.built = <<q>>]
             w == WhereNull(plain, "AND")
             marked == [w EXCEPT !.deletedAt = TRUE]
             y == GetBuilder(b, soft)
  <2>1. y = plain \/ y = EnsureBuilt(marked)
    BY DEF GetBuilder
  <2>2. Voiced(q, d) /\ <<q>>[1] = q
    BY <1>3, StatementsVoiced
  <2> HIDE DEF q, y
  <2>3. DOMAIN plain = Fields /\ plain.dialect = d /\ plain.pivots = b.pivots /\ plain.built = <<q>>
    BY DEF Speaks, Fields
  <2> HIDE DEF plain
  <2>4. Speaks(plain, d)
    BY <2>2, <2>3 DEF Speaks
  <2>5. Speaks(w, d)
    BY <2>4, PushSpeaks DEF WhereNull, Predicate
  <2> HIDE DEF w
  <2>6. DOMAIN marked = Fields /\ marked.dialect = d /\ marked.pivots = w.pivots /\ marked.built = w.built
    BY <2>5 DEF Speaks, Fields
  <2> HIDE DEF marked
  <2>7. Speaks(marked, d)
    BY <2>5, <2>6 DEF Speaks
  <2>8. Speaks(y, d)
    BY <2>1, <2>4, <2>7, EnsureSpeaks
  <2>9. Voiced(Built(y), d)
    BY <2>8, EnsureSpeaks
  <2>10. b' = y /\ sent' = <<Built(y)>>
    BY <1>10 DEF SendGet, Get, y
  <2> QED BY <1>1, <2>8, <2>9, <2>10
<1> QED BY <1>5, <1>6, <1>7, <1>8, <1>9, <1>10 DEF SendSelect

LEMMA SelectSpeaks ==
  ASSUME NEW d, Speaks(b, d), SelectNext
  PROVE  Speaks(b', d) /\ SentVoiced(sent', d)
BY SelectCalls, ConditionsSpeak, ShapesSpeak, TrailingSpeaks, SendsSpeak

LEMMA SpeakingBegins ==
  ASSUME NEW d
  PROVE  Speaks(MakeSelect(d), d)
<1> DEFINE x == MakeSelect(d)
<1>1. DOMAIN x = Fields /\ x.dialect = d /\ x.pivots = {} /\ x.built = Unbuilt
  BY DEF MakeSelect, Fields
<1> HIDE DEF x
<1> QED BY <1>1, FS_EmptySet DEF Speaks, x

----------------------------------------------------------------------------
(* The invariant, and the property.                                          *)

\* The invariant, by kind of builder.
SelectLine ==
  /\ Speaks(b, b.dialect) /\ SentVoiced(sent, b.dialect)
  /\ ~Excluded(calls, b.dialect) => BindsOK(b, calls) /\ SentBinds(sent, b.dialect)
BindInv ==
  /\ Chain(calls) /\ kind \in Kinds
  /\ kind = "select" => SelectLine
  /\ kind # "select" => SentBinds(sent, b.dialect)
  /\ kind = "sub" => SubLine(b)
  /\ kind = "insert" => InsertLine(b)
  /\ kind = "update" => UpdateLine(b)
  /\ kind = "delete" => WriteLine(b)

LEMMA BindInit ==
  ASSUME Init
  PROVE  BindInv
<1>1. Chain(calls) /\ kind \in Kinds /\ calls = <<>> /\ sent = <<>>
  <2>1. <<>> \in Seq({})
    OBVIOUS
  <2> QED BY <2>1 DEF Init, Chain
<1>2. PICK d \in Dialects :
        \/ kind = "select" /\ b = MakeSelect(d)
        \/ kind = "sub" /\ \E i \in Inner(d) : b = SubBuilder(i)
        \/ kind \notin {"select", "sub"} /\ b = WriteBuilder(kind, d)
  BY DEF Init
<1>3. \A e : SentBinds(sent, e) /\ SentVoiced(sent, e)
  BY <1>1 DEF SentBinds, SentVoiced
<1>4. CASE kind = "select"
  <2>1. b = MakeSelect(d)
    BY <1>2, <1>4
  <2>2. Speaks(b, d)
    BY <2>1, SpeakingBegins
  <2>3. b.dialect = d
    BY <2>2 DEF Speaks
  <2>4. BindsOK(b, calls)
    BY <1>1, <2>1, SelectStarts
  <2>5. SelectLine
    BY <1>3, <2>2, <2>3, <2>4 DEF SelectLine
  <2> QED BY <1>1, <1>4, <2>5 DEF BindInv
<1>5. CASE kind = "sub"
  <2>1. PICK i \in Inner(d) : b = SubBuilder(i)
    BY <1>2, <1>5
  <2>2. SubLine(b)
    BY <2>1, SubStarts
  <2> QED BY <1>1, <1>3, <1>5, <2>2 DEF BindInv
<1>6. CASE kind \notin {"select", "sub"}
  <2>1. b = WriteBuilder(kind, d)
    BY <1>2, <1>6
  <2>2. WriteLine(b) /\ b.rows = <<>> /\ b.text = <<>>
    BY <2>1, WriteStarts
  <2>3. InsertLine(b) /\ UpdateLine(b)
    BY <2>2 DEF InsertLine, UpdateLine
  <2> QED BY <1>1, <1>3, <1>6, <2>2, <2>3 DEF BindInv
<1> QED BY <1>4, <1>5, <1>6

LEMMA SelectLineNext ==
  ASSUME Chain(calls), SelectLine, SelectNext, NEW name, calls' = Append(calls, name)
  PROVE  SelectLine'
<1> DEFINE d == b.dialect
           y == b'
           q == sent'
           m == calls'
<1>1. Speaks(y, d) /\ SentVoiced(q, d)
  BY SelectSpeaks DEF SelectLine
<1>2. y.dialect = d
  BY <1>1 DEF Speaks
<1>3. ASSUME ~Excluded(m, d) PROVE BindsOK(y, m) /\ SentBinds(q, d)
  <2>1. ~Excluded(calls, d)
    BY <1>3, Included
  <2>2. BindsOK(b, calls)
    BY <2>1 DEF SelectLine
  <2>3. Stays(b, y, m) /\ SentMeets(q, d)
    BY <1>3, <2>2, SelectBinds
  <2> QED BY <2>3, MatchedBinds DEF Stays
<1> HIDE DEF d, y, q, m
<1>4. Speaks(y, y.dialect) /\ SentVoiced(q, y.dialect) /\ (~Excluded(m, y.dialect) => BindsOK(y, m) /\ SentBinds(q, y.dialect))
  BY <1>1, <1>2, <1>3
<1> QED BY <1>4 DEF SelectLine, y, q, m

LEMMA BindNext ==
  ASSUME BindInv, [Next]_vars
  PROVE  BindInv'
<1>1. CASE UNCHANGED vars
  BY <1>1 DEF vars, BindInv, SelectLine
<1>2. CASE Next /\ ~UNCHANGED vars
  <2>1. PICK name : calls' = Append(calls, name)
    BY <1>2, OneKind
  <2>2. Chain(calls) /\ Chain(Append(calls, name))
    BY SaidMore DEF BindInv
  <2>3. kind' = kind /\ kind \in Kinds
    BY <1>2, OneKind DEF BindInv
  <2>4. CASE kind = "select" /\ SelectNext
    <3>1. SelectLine'
      BY <2>1, <2>2, <2>4, SelectLineNext DEF BindInv
    <3> QED BY <2>1, <2>2, <2>3, <2>4, <3>1 DEF BindInv
  <2>5. CASE kind = "sub" /\ SubNext
    <3>1. SubLine(b)
      BY <2>5 DEF BindInv
    <3> DEFINE y == b'
               q == sent'
    <3>2. SubFollows(b, y) /\ SentMeets(q, b.dialect)
      BY <2>5, <3>1, SubBinds
    <3> HIDE DEF y, q
    <3>3. SubLine(y) /\ SentBinds(q, y.dialect)
      BY <3>2, MatchedBinds DEF SubFollows
    <3> QED BY <2>1, <2>2, <2>3, <2>5, <3>3 DEF BindInv, y, q
  <2>6. CASE kind = "insert" /\ (CallValues \/ SendInsert)
    <3>1. InsertLine(b') /\ b'.dialect = b.dialect /\ SentBinds(sent', b.dialect)
      BY <2>6, InsertBinds DEF BindInv
    <3> QED BY <2>1, <2>2, <2>3, <2>6, <3>1 DEF BindInv
  <2>7. CASE kind = "update" /\ (CallSet \/ CallUpdateWhere \/ SendUpdate \/ SendUpdateFound)
    <3>1. UpdateLine(b') /\ b'.dialect = b.dialect /\ SentBinds(sent', b.dialect)
      BY <2>7, UpdateBinds DEF BindInv
    <3> QED BY <2>1, <2>2, <2>3, <2>7, <3>1 DEF BindInv
  <2>8. CASE kind = "delete" /\ (CallDeleteWhere \/ SendDelete)
    <3>1. WriteLine(b') /\ b'.dialect = b.dialect /\ SentBinds(sent', b.dialect)
      BY <2>8, DeleteBinds DEF BindInv
    <3> QED BY <2>1, <2>2, <2>3, <2>8, <3>1 DEF BindInv
  <2> QED BY <1>2, <2>4, <2>5, <2>6, <2>7, <2>8, OneKind
<1> QED BY <1>1, <1>2

LEMMA BindIs ==
  ASSUME BindInv
  PROVE  BindingsMeetTheirValues
<1> DEFINE query == sent[1]
           d == query.dialect
<1> SUFFICES ASSUME sent # <<>>, ~Foreign(query), ~Excluded(calls, d) PROVE BindingsOK(query)
  <2>1. LateTrailing = Trailing \ {"having", "havingRaw"} /\ Orders = {"orderBy", "reorder"}
    BY DEF LateTrailing, Orders, Trailing
  <2> QED BY <2>1 DEF BindingsMeetTheirValues, Excluded, Said, After, Amid, Did, Before, Between
<1>1. CASE kind = "select"
  <2>1. SelectLine
    BY <1>1 DEF BindInv
  <2>2. d = b.dialect
    BY <2>1 DEF SelectLine, SentVoiced, Voiced
  <2>3. SentBinds(sent, b.dialect)
    BY <2>1, <2>2 DEF SelectLine
  <2> QED BY <2>3 DEF SentBinds, Binds
<1>2. CASE kind # "select"
  BY <1>2 DEF BindInv, SentBinds, Binds
<1> QED BY <1>1, <1>2

\* The values a statement is sent with are those its placeholders were written for: in order
\* of the text where a placeholder is ?, by number where it is $n, for every builder and chains
\* of calls of any length but those the property names.
THEOREM StatementsBindTheirValues == Spec => []BindingsMeetTheirValues
<1>1. BindInv /\ [Next]_vars => BindInv'
  BY BindNext
<1>2. Init => BindInv
  BY BindInit
<1>3. BindInv => BindingsMeetTheirValues
  BY BindIs
<1> QED BY <1>1, <1>2, <1>3, PTL DEF Spec
============================================================================
