---------------------------- MODULE SharedLemmas ----------------------------
(***************************************************************************)
(* Lemmas that several of the proofs use: induction, sequences, and the      *)
(* WHERE that renderWhereTerms prints.  The library states induction for an   *)
(* operator P(_), which the provers cannot instantiate; here it is about the  *)
(* set of the numbers for which something holds, and follows from the least   *)
(* element every set of numbers has.                                          *)
(***************************************************************************)
EXTENDS Integers, WellFoundedInduction, SequenceTheorems, SqlText, TLAPS

\* A set of numbers that is not empty has a least element.
LEMMA LeastNumber ==
  ASSUME NEW T, T \subseteq Nat, T # {}
  PROVE  \E m \in T : \A n \in T : m <= n
<1> DEFINE R == OpToRel(<, Nat)
<1>1. IsWellFoundedOn(R, Nat)
  BY NatLessThanWellFounded
<1>2. \A x, y \in Nat : <<y, x>> \in R <=> y < x
  BY DEF OpToRel
<1> HIDE DEF R
<1>3. PICK x \in T : \A y \in T : ~ (<<y, x>> \in R)
  BY <1>1, WFMin
<1>4. \A y \in T : ~ (y < x)
  BY <1>2, <1>3
<1>5. \A y \in T : x <= y
  BY <1>4
<1> QED BY <1>5

\* A set that holds 0 and with a number below n the next one holds all up to n.
LEMMA CountingUp ==
  ASSUME NEW n \in Nat, NEW S, 0 \in S, \A i \in 0 .. n - 1 : i \in S => i + 1 \in S
  PROVE  0 .. n \subseteq S
<1> DEFINE T == {i \in 0 .. n : i \notin S}
<1>1. SUFFICES ASSUME T # {} PROVE FALSE
  OBVIOUS
<1>2. T \subseteq Nat
  OBVIOUS
<1>3. PICK m \in T : \A i \in T : m <= i
  BY <1>1, <1>2, LeastNumber
<1>4. m # 0 /\ m \in 0 .. n
  OBVIOUS
<1>5. m - 1 \in 0 .. n - 1 /\ m - 1 \notin T /\ m - 1 \in 0 .. n
  BY <1>3, <1>4
<1>6. m - 1 \in S
  BY <1>5
<1>7. m - 1 + 1 \in S /\ m - 1 + 1 = m
  BY <1>4, <1>5, <1>6
<1> QED BY <1>7

\* What is computed step by step has a trace: its first value and, of each step,
\* the value it makes of the one before.
Stepwise(n, V, v0, step) == n \in Nat /\ v0 \in V /\ step \in [1 .. n -> [V -> V]]
TraceOf(t, n, V, v0, step) == t \in [0 .. n -> V] /\ t[0] = v0 /\ \A i \in 1 .. n : t[i] = step[i][t[i - 1]]

LEMMA StepByStep ==
  ASSUME NEW n, NEW V, NEW v0, NEW step, Stepwise(n, V, v0, step)
  PROVE  \E t : TraceOf(t, n, V, v0, step)
<1> DEFINE Trace(k, t) == t \in [0 .. k -> V] /\ t[0] = v0 /\ \A i \in 1 .. k : t[i] = step[i][t[i - 1]]
           S == {k \in 0 .. n : \E t : Trace(k, t)}
<1> USE DEF Stepwise
<1>1. 0 \in S
  <2>1. Trace(0, [i \in 0 .. 0 |-> v0])
    OBVIOUS
  <2> HIDE DEF Trace
  <2>2. 0 \in 0 .. n /\ \E t : Trace(0, t)
    BY <2>1
  <2> QED BY <2>2
<1>2. ASSUME NEW k \in 0 .. n - 1, k \in S PROVE k + 1 \in S
  <2>1. PICK t : Trace(k, t)
    BY <1>2
  <2> DEFINE u == [i \in 0 .. k + 1 |-> IF i = k + 1 THEN step[k + 1][t[k]] ELSE t[i]]
  <2>2. step[k + 1][t[k]] \in V
    BY <2>1
  <2>3. u \in [0 .. k + 1 -> V] /\ u[0] = v0
    <3>1. t \in [0 .. k -> V] /\ t[0] = v0
      BY <2>1
    <3>2. \A i \in 0 .. k + 1 : i # k + 1 => i \in 0 .. k
      OBVIOUS
    <3>3. k + 1 # 0 /\ 0 \in 0 .. k + 1
      OBVIOUS
    <3> QED BY <2>2, <3>1, <3>2, <3>3
  <2>4. ASSUME NEW i \in 1 .. k + 1 PROVE u[i] = step[i][u[i - 1]]
    <3>1. u[i - 1] = t[i - 1] /\ i - 1 \in 0 .. k
      OBVIOUS
    <3>2. CASE i = k + 1
      <4>1. u[i] = step[k + 1][t[k]]
        BY <3>2
      <4>2. u[i - 1] = t[k]
        BY <3>1, <3>2
      <4> HIDE DEF u
      <4> QED BY <3>2, <4>1, <4>2
    <3>3. CASE i # k + 1
      <4>1. i \in 1 .. k
        BY <3>3
      <4> QED BY <2>1, <3>1, <3>3, <4>1
    <3> QED BY <3>2, <3>3
  <2>5. Trace(k + 1, u)
    BY <2>3, <2>4
  <2> HIDE DEF Trace, u
  <2>6. k + 1 \in 0 .. n /\ \E w : Trace(k + 1, w)
    BY <2>5
  <2> QED BY <2>6
<1> HIDE DEF S
<1>3. 0 .. n \subseteq S
  BY <1>1, <1>2, CountingUp
<1> QED BY <1>3 DEF S, TraceOf

----------------------------------------------------------------------------
(* The text of a chain and what it means: first the sequences it is made of.   *)
LEMMA SeqShape ==
  ASSUME NEW S, NEW s \in Seq(S)
  PROVE  /\ Len(s) \in Nat /\ DOMAIN s = 1 .. Len(s) /\ s \in [1 .. Len(s) -> S]
         /\ (s = <<>> <=> Len(s) = 0) /\ \A i \in 1 .. Len(s) : s[i] \in S
<1>1. s = <<>> <=> Len(s) = 0
  BY EmptySeq
<1> QED BY <1>1

LEMMA SeqFrom ==
  ASSUME NEW S, NEW n \in Nat, NEW w \in [1 .. n -> S]
  PROVE  w \in Seq(S) /\ Len(w) = n
OBVIOUS

(* renderWhereTerms: the runs of a chain, one call at a time.                *)
RunTrace(g, terms) ==
  /\ g[0] = <<>> /\ \A n \in 1 .. Len(terms) : g[n] = WithTerm(g[n - 1], terms[n])
  /\ OrRuns(terms) = g[Len(terms)]
\* No run is empty.
Filled(runs) == \A r \in DOMAIN runs : runs[r] # <<>>
RunLists(T) == {runs \in Seq(Seq(T)) : Filled(runs)}

LEMMA WithTermType ==
  ASSUME NEW T, NEW runs \in RunLists(T), NEW t \in T
  PROVE  WithTerm(runs, t) \in RunLists(T)
<1> DEFINE n == Len(runs)
<1>1. runs \in Seq(Seq(T)) /\ n \in Nat /\ DOMAIN runs = 1 .. n /\ Filled(runs)
  BY DEF RunLists
<1>2. CASE t.conn = "OR" /\ runs # <<>>
  <2> DEFINE w == [runs EXCEPT ![n] = Append(runs[n], t)]
  <2>1. n \in 1 .. n /\ runs[n] \in Seq(T)
    BY <1>1, <1>2
  <2>2. Append(runs[n], t) \in Seq(T) /\ Append(runs[n], t) # <<>>
    <3>1. Append(runs[n], t) \in Seq(T) /\ Len(Append(runs[n], t)) = Len(runs[n]) + 1 /\ Len(runs[n]) \in Nat
      BY <2>1, AppendProperties
    <3>2. Len(<<>>) = 0
      OBVIOUS
    <3> QED BY <3>1, <3>2
  <2>3. DOMAIN w = 1 .. n /\ w[n] = Append(runs[n], t) /\ \A r \in 1 .. n : r # n => w[r] = runs[r]
    BY <1>1, <2>1
  <2>4. w \in Seq(Seq(T))
    <3>1. w \in [1 .. n -> Seq(T)]
      BY <1>1, <2>1, <2>2
    <3> HIDE DEF w
    <3> DEFINE S == Seq(T)
    <3>2. w \in [1 .. n -> S] /\ n \in Nat
      BY <1>1, <3>1
    <3> HIDE DEF S, n
    <3>3. w \in Seq(S)
      BY <3>2, SeqFrom
    <3> QED BY <3>3 DEF S
  <2>5. WithTerm(runs, t) = w
    BY <1>2 DEF WithTerm
  <2> HIDE DEF w
  <2> QED BY <1>1, <2>2, <2>3, <2>4, <2>5 DEF Filled, RunLists
<1>3. CASE ~(t.conn = "OR" /\ runs # <<>>)
  <2> DEFINE w == Append(runs, <<t>>)
  <2>1. <<t>> \in Seq(T) /\ <<t>> # <<>>
    OBVIOUS
  <2>2. w \in Seq(Seq(T)) /\ DOMAIN w = 1 .. n + 1 /\ w[n + 1] = <<t>> /\ \A r \in 1 .. n : w[r] = runs[r]
    BY <1>1, <2>1
  <2>3. WithTerm(runs, t) = w
    BY <1>3 DEF WithTerm
  <2>4. \A r \in 1 .. n + 1 : r = n + 1 \/ r \in 1 .. n
    BY <1>1
  <2> HIDE DEF w
  <2> QED BY <1>1, <2>1, <2>2, <2>3, <2>4 DEF Filled, RunLists
<1> QED BY <1>2, <1>3

LEMMA RunsAreTraced ==
  ASSUME NEW T, NEW terms \in Seq(T)
  PROVE  \E g : RunTrace(g, terms) /\ \A n \in 0 .. Len(terms) : g[n] \in RunLists(T)
<1> DEFINE N == Len(terms)
           V == RunLists(T)
           step == [n \in 1 .. N |-> [r \in V |-> WithTerm(r, terms[n])]]
           Grows(g) == [n \in 0 .. N |-> IF n = 0 THEN <<>> ELSE WithTerm(g[n - 1], terms[n])]
<1>1. N \in Nat /\ \A n \in 1 .. N : terms[n] \in T
  OBVIOUS
<1>2. <<>> \in V
  BY DEF RunLists, Filled
<1>3. step \in [1 .. N -> [V -> V]] /\ \A n \in 1 .. N, r \in V : step[n][r] = WithTerm(r, terms[n])
  <2>1. \A n \in 1 .. N, r \in V : WithTerm(r, terms[n]) \in V
    BY <1>1, WithTermType
  <2> HIDE DEF V
  <2> QED BY <2>1
<1> DEFINE s0 == <<>>
<1> HIDE DEF step, V
<1>4. \E t : TraceOf(t, N, V, s0, step)
  <2>1. Stepwise(N, V, s0, step)
    BY <1>1, <1>2, <1>3 DEF Stepwise
  <2> HIDE DEF N, s0
  <2> QED BY <2>1, StepByStep
<1>5. PICK t \in [0 .. N -> V] : t[0] = <<>> /\ \A n \in 1 .. N : t[n] = step[n][t[n - 1]]
  BY <1>4 DEF TraceOf
<1>6. \A n \in 1 .. N : n - 1 \in 0 .. N /\ t[n - 1] \in V
  <2>1. N \in Nat
    BY <1>1
  <2> HIDE DEF N
  <2>2. \A n \in 1 .. N : n - 1 \in 0 .. N
    BY <2>1
  <2> QED BY <1>5, <2>2
<1>7. \A n \in 1 .. N : t[n] = WithTerm(t[n - 1], terms[n])
  BY <1>3, <1>5, <1>6
<1>8. t = Grows(t)
  <2>1. \A n \in 0 .. N : n = 0 \/ n \in 1 .. N
    BY <1>1
  <2>2. \A n \in 0 .. N : t[n] = IF n = 0 THEN <<>> ELSE WithTerm(t[n - 1], terms[n])
    BY <1>5, <1>7, <2>1
  <2> QED BY <1>5, <2>2
<1> DEFINE runs == CHOOSE g : g = Grows(g)
<1>9. runs = Grows(runs)
  BY <1>8
<1>10. OrRuns(terms) = runs[N]
  BY DEF OrRuns
<1> HIDE DEF runs
<1>11. runs[0] = <<>> /\ \A n \in 1 .. N : runs[n] = WithTerm(runs[n - 1], terms[n])
  <2>1. 0 \in 0 .. N /\ \A n \in 1 .. N : n \in 0 .. N /\ n # 0
    BY <1>1
  <2>2. \A n \in 0 .. N : runs[n] = IF n = 0 THEN <<>> ELSE WithTerm(runs[n - 1], terms[n])
    BY ONLY <1>9
  <2> QED BY <2>1, <2>2
<1>12. 0 .. N \subseteq {n \in 0 .. N : runs[n] \in V}
  <2> DEFINE S == {n \in 0 .. N : runs[n] \in V}
  <2>1. 0 \in S
    BY <1>1, <1>2, <1>11
  <2>2. ASSUME NEW n \in 0 .. N - 1, n \in S PROVE n + 1 \in S
    <3>1. n + 1 \in 1 .. N /\ n + 1 - 1 = n /\ n + 1 \in 0 .. N
      BY <1>1
    <3>2. runs[n + 1] = WithTerm(runs[n], terms[n + 1]) /\ runs[n] \in V /\ terms[n + 1] \in T
      BY <1>1, <1>11, <2>2, <3>1
    <3> QED BY <3>1, <3>2, WithTermType DEF V
  <2> HIDE DEF S, N
  <2>3. N \in Nat
    BY <1>1
  <2>4. 0 .. N \subseteq S
    BY <2>1, <2>2, <2>3, CountingUp
  <2> QED BY <2>4 DEF S
<1>13. RunTrace(runs, terms)
  BY <1>10, <1>11 DEF RunTrace
<1> QED BY <1>12, <1>13 DEF V

\* The runs of a chain that is one term longer.
LEMMA OrRunsGrow ==
  ASSUME NEW T, NEW terms \in Seq(T), NEW t \in T
  PROVE  OrRuns(Append(terms, t)) = WithTerm(OrRuns(terms), t) /\ OrRuns(terms) \in RunLists(T)
<1> DEFINE N == Len(terms)
           more == Append(terms, t)
<1>1. N \in Nat /\ more \in Seq(T) /\ Len(more) = N + 1 /\ more[N + 1] = t /\ \A n \in 1 .. N : more[n] = terms[n]
  OBVIOUS
<1>2. PICK g : RunTrace(g, terms) /\ \A n \in 0 .. N : g[n] \in RunLists(T)
  BY RunsAreTraced
<1> HIDE DEF more
<1>3. PICK h : RunTrace(h, more)
  BY <1>1, RunsAreTraced
<1>4. /\ g[0] = <<>> /\ (\A n \in 1 .. N : g[n] = WithTerm(g[n - 1], terms[n])) /\ OrRuns(terms) = g[N]
      /\ h[0] = <<>> /\ (\A n \in 1 .. N + 1 : h[n] = WithTerm(h[n - 1], more[n])) /\ OrRuns(more) = h[N + 1]
  BY <1>1, <1>2, <1>3 DEF RunTrace
<1> HIDE DEF N
<1>5. 0 .. N \subseteq {n \in 0 .. N : g[n] = h[n]}
  <2> DEFINE S == {n \in 0 .. N : g[n] = h[n]}
  <2>1. 0 \in S
    BY <1>1, <1>4
  <2>2. ASSUME NEW n \in 0 .. N - 1, n \in S PROVE n + 1 \in S
    <3>1. n + 1 \in 1 .. N /\ n + 1 \in 1 .. N + 1 /\ (n + 1) - 1 = n /\ n + 1 \in 0 .. N
      BY <1>1
    <3>2. g[n + 1] = WithTerm(g[n], terms[n + 1]) /\ h[n + 1] = WithTerm(h[n], more[n + 1])
      BY <1>4, <3>1
    <3> QED BY <1>1, <2>2, <3>1, <3>2
  <2> HIDE DEF S
  <2>3. 0 .. N \subseteq S
    BY <1>1, <2>1, <2>2, CountingUp
  <2> QED BY <2>3 DEF S
<1>6. N \in 0 .. N /\ N + 1 \in 1 .. N + 1 /\ (N + 1) - 1 = N
  BY <1>1
<1>7. h[N + 1] = WithTerm(h[N], more[N + 1]) /\ h[N] = g[N]
  BY <1>4, <1>5, <1>6
<1> QED BY <1>1, <1>2, <1>4, <1>6, <1>7 DEF more, N

LEMMA OrRunsBegin == OrRuns(<<>>) = <<>>
<1>1. PICK g : RunTrace(g, <<>>)
  <2>1. <<>> \in Seq({})
    OBVIOUS
  <2> QED BY <2>1, RunsAreTraced
<1> QED BY <1>1 DEF RunTrace

----------------------------------------------------------------------------
(* What a chain says where true holds, one call at a time: what it says before its last   *)
(* run, and what that run says.                                               *)
RunHolds(ts, true) == \E n \in DOMAIN ts : TermHolds(ts[n], true)
RunsHold(runs, true) == \A r \in DOMAIN runs : RunHolds(runs[r], true)
EarlierHold(runs, true) == \A r \in DOMAIN runs : r < Len(runs) => RunHolds(runs[r], true)
LastHolds(runs, true) == runs # <<>> /\ RunHolds(runs[Len(runs)], true)

LEMMA RunsHoldIs ==
  ASSUME NEW T, NEW runs \in RunLists(T), NEW true
  PROVE  RunsHold(runs, true) <=> (runs = <<>> \/ (EarlierHold(runs, true) /\ LastHolds(runs, true)))
<1> DEFINE n == Len(runs)
           S == Seq(T)
<1>0. runs \in Seq(S)
  BY DEF RunLists
<1> HIDE DEF S
<1>1. n \in Nat /\ DOMAIN runs = 1 .. n /\ (runs = <<>> <=> n = 0)
  BY <1>0, SeqShape
<1>4. EarlierHold(runs, true) <=> \A r \in 1 .. n : r < n => RunHolds(runs[r], true)
  BY <1>1 DEF EarlierHold
<1>5. LastHolds(runs, true) <=> n # 0 /\ RunHolds(runs[n], true)
  BY <1>1 DEF LastHolds
<1> HIDE DEF n
<1>2. (\A r \in 1 .. n : r < n \/ r = n) /\ (n # 0 => n \in 1 .. n)
  BY <1>1
<1>3. RunsHold(runs, true) <=> \A r \in 1 .. n : RunHolds(runs[r], true)
  BY <1>1 DEF RunsHold
<1> QED BY <1>1, <1>2, <1>3, <1>4, <1>5

LEMMA WithTermHolds ==
  ASSUME NEW T, NEW runs \in RunLists(T), NEW t \in T, NEW true
  PROVE  LET more == WithTerm(runs, t)
         IN  /\ more # <<>>
             /\ (t.conn = "OR" /\ runs # <<>>) =>
                  /\ EarlierHold(more, true) <=> EarlierHold(runs, true)
                  /\ LastHolds(more, true) <=> (LastHolds(runs, true) \/ TermHolds(t, true))
             /\ ~(t.conn = "OR" /\ runs # <<>>) =>
                  /\ EarlierHold(more, true) <=> RunsHold(runs, true)
                  /\ LastHolds(more, true) <=> TermHolds(t, true)
<1> DEFINE n == Len(runs)
<1>1. runs \in Seq(Seq(T)) /\ n \in Nat /\ DOMAIN runs = 1 .. n
  BY DEF RunLists
<1>2. CASE t.conn = "OR" /\ runs # <<>>
  <2> DEFINE last == Append(runs[n], t)
             k == Len(runs[n])
             S == Seq(T)
             w == [runs EXCEPT ![n] = last]
  <2>1. n \in 1 .. n /\ runs[n] \in Seq(T) /\ runs \in [1 .. n -> S]
    BY <1>1, <1>2
  <2>2. k \in Nat /\ DOMAIN runs[n] = 1 .. k /\ DOMAIN last = 1 .. k + 1 /\ last[k + 1] = t
        /\ \A i \in 1 .. k : last[i] = runs[n][i]
    BY <2>1, AppendProperties
  <2>5. WithTerm(runs, t) = w
    BY <1>2 DEF WithTerm
  <2>10. EarlierHold(runs, true) <=> \A r \in 1 .. n : r < n => RunHolds(runs[r], true)
    BY <1>1 DEF EarlierHold
  <2>11. LastHolds(runs, true) <=> RunHolds(runs[n], true)
    BY <1>1, <1>2 DEF LastHolds
  <2>12. last \in S
    BY <2>1, AppendProperties DEF last, S
  <2>13. n \in Nat
    BY <1>1
  <2> HIDE DEF n, S, last
  <2>3. DOMAIN w = 1 .. n /\ w[n] = last /\ (\A r \in 1 .. n : r # n => w[r] = runs[r]) /\ w \in [1 .. n -> S]
    BY <2>1, <2>12
  <2> HIDE DEF w
  <2>14. Len(w) = n /\ w # <<>>
    <3>1. w \in Seq(S) /\ Len(w) = n
      BY <2>3, <2>13, SeqFrom
    <3>2. n # 0
      BY <2>1, <2>13
    <3> QED BY <3>1, <3>2, SeqShape
  <2>4. RunHolds(last, true) <=> (RunHolds(runs[n], true) \/ TermHolds(t, true))
    <3>1. \A i \in 1 .. k + 1 : i \in 1 .. k \/ i = k + 1
      BY <2>2
    <3>2. k + 1 \in 1 .. k + 1 /\ \A i \in 1 .. k : i \in 1 .. k + 1
      BY <2>2
    <3> HIDE DEF last, k
    <3> QED BY <2>2, <3>1, <3>2 DEF RunHolds
  <2>7. EarlierHold(w, true) <=> EarlierHold(runs, true)
    <3>1. \A r \in 1 .. n : r < n => r # n
      BY <2>13
    <3>2. EarlierHold(w, true) <=> \A r \in 1 .. n : r < n => RunHolds(w[r], true)
      BY <2>3, <2>14 DEF EarlierHold
    <3> QED BY <2>3, <2>10, <3>1, <3>2
  <2>8. LastHolds(w, true) <=> (LastHolds(runs, true) \/ TermHolds(t, true))
    BY <2>3, <2>4, <2>11, <2>14 DEF LastHolds
  <2> QED BY <1>2, <2>5, <2>7, <2>8, <2>14
<1>3. CASE ~(t.conn = "OR" /\ runs # <<>>)
  <2> DEFINE w == Append(runs, <<t>>)
  <2>1. <<t>> \in Seq(T)
    OBVIOUS
  <2>2. /\ DOMAIN w = 1 .. n + 1 /\ w[n + 1] = <<t>> /\ Len(w) = n + 1
        /\ \A r \in 1 .. n : w[r] = runs[r]
    BY <1>1, <2>1, AppendProperties
  <2>3. WithTerm(runs, t) = w
    BY <1>3 DEF WithTerm
  <2>4. RunHolds(<<t>>, true) <=> TermHolds(t, true)
    <3>1. DOMAIN <<t>> = {1} /\ <<t>>[1] = t
      OBVIOUS
    <3> QED BY <3>1 DEF RunHolds
  <2> HIDE DEF w
  <2>5. w # <<>>
    BY <1>1, <2>2
  <2>6. \A r : (r \in 1 .. n + 1 /\ r < n + 1) <=> r \in 1 .. n
    BY <1>1
  <2>7. EarlierHold(w, true) <=> RunsHold(runs, true)
    BY <1>1, <2>2, <2>6 DEF EarlierHold, RunsHold
  <2>8. LastHolds(w, true) <=> TermHolds(t, true)
    BY <2>2, <2>4, <2>5 DEF LastHolds
  <2> QED BY <1>3, <2>3, <2>5, <2>7, <2>8
<1> QED BY <1>2, <1>3

\* The same of what was asked: a run begins at the first call and at every and.
Begins(a, i) == i = 1 \/ a[i].conn = "AND"
HoldsFrom(a, i, true) == \E j \in i .. Len(a) : TermHolds(a[j], true) /\ \A k \in i + 1 .. j : a[k].conn = "OR"
AskedHolds(a, true) == \A i \in DOMAIN a : Begins(a, i) => HoldsFrom(a, i, true)
\* No run begins after i.
Unfinished(a, i) == \A k \in i + 1 .. Len(a) : a[k].conn = "OR"
AskedEarlier(a, true) == \A i \in DOMAIN a : (Begins(a, i) /\ ~Unfinished(a, i)) => HoldsFrom(a, i, true)
AskedLast(a, true) == \E j \in DOMAIN a : TermHolds(a[j], true) /\ Unfinished(a, j)
Conn == {"AND", "OR"}
Calls(T) == \A t \in T : t.conn \in Conn

LEMMA ChainIs == ASSUME NEW a, NEW true PROVE ChainHolds(a, true) <=> AskedHolds(a, true)
BY DEF ChainHolds, AskedHolds, Begins, HoldsFrom

LEMMA AskedIs ==
  ASSUME NEW T, Calls(T), NEW a \in Seq(T), NEW true
  PROVE  AskedHolds(a, true) <=> (a = <<>> \/ (AskedEarlier(a, true) /\ AskedLast(a, true)))
<1> DEFINE n == Len(a)
<1>1. n \in Nat /\ DOMAIN a = 1 .. n /\ (a = <<>> <=> n = 0) /\ \A i \in 1 .. n : a[i].conn \in Conn
  BY SeqShape DEF Calls
<1>2. CASE n = 0
  BY <1>1, <1>2 DEF AskedHolds
<1>3. CASE n # 0
  <2>1. n \in 1 .. n
    BY <1>1, <1>3
  <2> DEFINE U == {m \in 1 .. n : Unfinished(a, m)}
  <2>2. n \in U /\ U \subseteq Nat
    BY <1>1, <2>1 DEF Unfinished
  <2>3. PICK m \in U : \A x \in U : m <= x
    <3> HIDE DEF U
    <3> QED BY <2>2, LeastNumber
  <2>4. m \in 1 .. n /\ Unfinished(a, m)
    BY <2>3
  <2>5. Begins(a, m)
    <3>1. CASE m = 1
      BY <3>1 DEF Begins
    <3>2. CASE m # 1
      <4>1. m - 1 \in 1 .. n /\ m - 1 \notin U
        <5>1. m - 1 \in 1 .. n /\ ~ (m <= m - 1)
          BY <1>1, <2>4, <3>2
        <5> QED BY <2>3, <5>1
      <4>2. PICK k \in m .. n : a[k].conn # "OR"
        BY <4>1, <2>4, <1>1 DEF Unfinished
      <4>3. k \in 1 .. n /\ (k = m \/ k \in m + 1 .. n)
        BY <1>1, <2>4
      <4>4. k = m
        BY <2>4, <4>2, <4>3 DEF Unfinished
      <4> QED BY <1>1, <4>2, <4>3, <4>4 DEF Begins, Conn
    <3> QED BY <3>1, <3>2
  <2>6. ASSUME AskedHolds(a, true) PROVE AskedEarlier(a, true) /\ AskedLast(a, true)
    <3>1. AskedEarlier(a, true)
      BY <2>6 DEF AskedHolds, AskedEarlier
    <3>2. HoldsFrom(a, m, true)
      BY <1>1, <2>4, <2>5, <2>6 DEF AskedHolds
    <3>3. PICK j \in m .. n : TermHolds(a[j], true)
      BY <3>2 DEF HoldsFrom
    <3>4. j \in 1 .. n /\ \A k \in j + 1 .. n : k \in m + 1 .. n
      BY <1>1, <2>4, <3>3
    <3>5. Unfinished(a, j)
      BY <2>4, <3>4 DEF Unfinished
    <3> QED BY <1>1, <3>1, <3>3, <3>4, <3>5 DEF AskedLast
  <2>7. ASSUME AskedEarlier(a, true), AskedLast(a, true) PROVE AskedHolds(a, true)
    <3> SUFFICES ASSUME NEW i \in 1 .. n, Begins(a, i), Unfinished(a, i) PROVE HoldsFrom(a, i, true)
      BY <1>1, <2>7 DEF AskedHolds, AskedEarlier
    <3>1. PICK j \in 1 .. n : TermHolds(a[j], true) /\ Unfinished(a, j)
      BY <1>1, <2>7 DEF AskedLast
    <3>2. i <= j
      <4>1. SUFFICES ASSUME i > j PROVE FALSE
        BY <1>1
      <4>2. i \in j + 1 .. n /\ i # 1
        BY <1>1, <4>1
      <4> QED BY <3>1, <4>2 DEF Begins, Unfinished
    <3>3. j \in i .. n /\ \A k \in i + 1 .. j : k \in i + 1 .. n
      BY <1>1, <3>2
    <3> QED BY <3>1, <3>3 DEF HoldsFrom, Unfinished
  <2> QED BY <1>1, <1>3, <2>6, <2>7
<1> QED BY <1>2, <1>3

LEMMA AskedGrows ==
  ASSUME NEW T, Calls(T), NEW a \in Seq(T), NEW t \in T, NEW true
  PROVE  LET more == Append(a, t)
         IN  /\ (t.conn = "OR" /\ a # <<>>) =>
                  /\ AskedEarlier(more, true) <=> AskedEarlier(a, true)
                  /\ AskedLast(more, true) <=> (AskedLast(a, true) \/ TermHolds(t, true))
             /\ ~(t.conn = "OR" /\ a # <<>>) =>
                  /\ AskedEarlier(more, true) <=> AskedHolds(a, true)
                  /\ AskedLast(more, true) <=> TermHolds(t, true)
<1> DEFINE n == Len(a)
           b == Append(a, t)
<1>1. n \in Nat /\ DOMAIN a = 1 .. n /\ (a = <<>> <=> n = 0)
  BY SeqShape
<1>2. DOMAIN b = 1 .. n + 1 /\ Len(b) = n + 1 /\ b[n + 1] = t /\ \A i \in 1 .. n : b[i] = a[i]
  <2>1. b \in Seq(T) /\ Len(b) = n + 1 /\ b[n + 1] = t /\ \A i \in 1 .. n : b[i] = a[i]
    BY AppendProperties
  <2> HIDE DEF b, n
  <2> QED BY <2>1, SeqShape
<1> HIDE DEF b
<1>3. n + 1 \in 1 .. n + 1 /\ Unfinished(b, n + 1) /\ \A i \in 1 .. n + 1 : i \in 1 .. n \/ i = n + 1
  <2>1. Unfinished(b, n + 1)
    BY <1>1, <1>2 DEF Unfinished
  <2> HIDE DEF n
  <2> QED BY <1>1, <2>1
<1>4. \A i \in 1 .. n : i \in 1 .. n + 1 /\ (Begins(b, i) <=> Begins(a, i))
  <2>1. \A i \in 1 .. n : Begins(b, i) <=> Begins(a, i)
    BY <1>2 DEF Begins
  <2> HIDE DEF n
  <2> QED BY <1>1, <2>1
\* What a run of a says does not look past its end.
<1>5. ASSUME NEW i \in 1 .. n
      PROVE  /\ Unfinished(b, i) <=> (Unfinished(a, i) /\ t.conn = "OR")
             /\ HoldsFrom(b, i, true) <=> (HoldsFrom(a, i, true) \/ (Unfinished(b, i) /\ TermHolds(t, true)))
  <2>1. \A k : k \in i + 1 .. n + 1 <=> (k \in i + 1 .. n \/ k = n + 1)
    <3> HIDE DEF n
    <3> QED BY <1>1
  <2>2. \A k \in i + 1 .. n : k \in 1 .. n
    <3> HIDE DEF n
    <3> QED BY <1>1
  <2>3. Unfinished(b, i) <=> \A k \in i + 1 .. n + 1 : b[k].conn = "OR"
    BY <1>2 DEF Unfinished
  <2>4. Unfinished(b, i) <=> (Unfinished(a, i) /\ t.conn = "OR")
    BY <1>2, <2>1, <2>2, <2>3 DEF Unfinished
  <2>5. \A j : j \in i .. n + 1 <=> (j \in i .. n \/ j = n + 1)
    <3> HIDE DEF n
    <3> QED BY <1>1
  <2>6. \A j \in i .. n : j \in 1 .. n /\ \A k \in i + 1 .. j : k \in 1 .. n
    <3> HIDE DEF n
    <3> QED BY <1>1
  <2>7. HoldsFrom(b, i, true) <=> \E j \in i .. n + 1 : TermHolds(b[j], true) /\ \A k \in i + 1 .. j : b[k].conn = "OR"
    BY <1>2 DEF HoldsFrom
  <2>8. (\E j \in i .. n : TermHolds(b[j], true) /\ \A k \in i + 1 .. j : b[k].conn = "OR") <=> HoldsFrom(a, i, true)
    BY <1>2, <2>6 DEF HoldsFrom
  <2> QED BY <1>2, <2>3, <2>4, <2>5, <2>7, <2>8
<1>6. AskedLast(b, true) <=> ((\E j \in 1 .. n : TermHolds(a[j], true) /\ Unfinished(b, j)) \/ TermHolds(t, true))
  <2>1. AskedLast(b, true) <=> \E j \in 1 .. n + 1 : TermHolds(b[j], true) /\ Unfinished(b, j)
    BY <1>2 DEF AskedLast
  <2> HIDE DEF n
  <2> QED BY <1>2, <1>3, <1>4, <2>1
<1>7. CASE t.conn = "OR" /\ a # <<>>
  <2>1. n # 0 /\ n + 1 # 1
    BY <1>1, <1>7
  <2>2. ~Begins(b, n + 1)
    BY <1>2, <1>7, <2>1 DEF Begins
  <2>3. AskedLast(b, true) <=> (AskedLast(a, true) \/ TermHolds(t, true))
    <3>1. \A j \in 1 .. n : Unfinished(b, j) <=> Unfinished(a, j)
      BY <1>5, <1>7
    <3>2. AskedLast(a, true) <=> \E j \in 1 .. n : TermHolds(a[j], true) /\ Unfinished(a, j)
      BY <1>1 DEF AskedLast
    <3> QED BY <1>6, <3>1, <3>2
  <2>4. AskedEarlier(b, true) <=> AskedEarlier(a, true)
    <3>1. AskedEarlier(b, true) <=> \A i \in 1 .. n + 1 : (Begins(b, i) /\ ~Unfinished(b, i)) => HoldsFrom(b, i, true)
      BY <1>2 DEF AskedEarlier
    <3>2. AskedEarlier(a, true) <=> \A i \in 1 .. n : (Begins(a, i) /\ ~Unfinished(a, i)) => HoldsFrom(a, i, true)
      BY <1>1 DEF AskedEarlier
    <3>3. \A i \in 1 .. n : /\ Unfinished(b, i) <=> Unfinished(a, i)
                            /\ ~Unfinished(b, i) => (HoldsFrom(b, i, true) <=> HoldsFrom(a, i, true))
      BY <1>5, <1>7
    <3> QED BY <1>3, <1>4, <2>2, <3>1, <3>2, <3>3
  <2> QED BY <1>7, <2>3, <2>4 DEF b
<1>8. CASE ~(t.conn = "OR" /\ a # <<>>)
  <2>1. \A i \in 1 .. n : ~Unfinished(b, i)
    <3> SUFFICES ASSUME NEW i \in 1 .. n PROVE t.conn # "OR"
      BY <1>5
    <3>1. n # 0
      BY <1>1
    <3> QED BY <1>1, <1>8, <3>1
  <2>2. AskedLast(b, true) <=> TermHolds(t, true)
    BY <1>6, <2>1
  <2>3. AskedEarlier(b, true) <=> AskedHolds(a, true)
    <3>1. AskedEarlier(b, true) <=> \A i \in 1 .. n + 1 : (Begins(b, i) /\ ~Unfinished(b, i)) => HoldsFrom(b, i, true)
      BY <1>2 DEF AskedEarlier
    <3>2. AskedHolds(a, true) <=> \A i \in 1 .. n : Begins(a, i) => HoldsFrom(a, i, true)
      BY <1>1 DEF AskedHolds
    <3>3. \A i \in 1 .. n : HoldsFrom(b, i, true) <=> HoldsFrom(a, i, true)
      BY <1>5, <2>1
    <3> QED BY <1>3, <1>4, <2>1, <3>1, <3>2, <3>3
  <2> QED BY <1>8, <2>2, <2>3 DEF b
<1> QED BY <1>7, <1>8

LEMMA RunsOfNone ==
  ASSUME NEW T, NEW w \in Seq(T)
  PROVE  OrRuns(w) \in RunLists(T) /\ (OrRuns(w) = <<>> <=> w = <<>>)
<1>1. OrRuns(w) \in RunLists(T)
  <2>1. PICK g : RunTrace(g, w) /\ \A n \in 0 .. Len(w) : g[n] \in RunLists(T)
    BY RunsAreTraced
  <2>2. Len(w) \in 0 .. Len(w)
    BY SeqShape
  <2> QED BY <2>1, <2>2 DEF RunTrace
<1>2. CASE w = <<>>
  BY <1>1, <1>2, OrRunsBegin
<1>3. CASE w # <<>>
  <2>1. PICK g : RunTrace(g, w) /\ \A n \in 0 .. Len(w) : g[n] \in RunLists(T)
    BY RunsAreTraced
  <2> DEFINE n == Len(w)
  <2>2. n \in 1 .. n /\ n - 1 \in 0 .. n /\ w[n] \in T
    BY <1>3
  <2>3. OrRuns(w) = WithTerm(g[n - 1], w[n]) /\ g[n - 1] \in RunLists(T)
    BY <2>1, <2>2 DEF RunTrace
  <2>4. WithTerm(g[n - 1], w[n]) # <<>>
    BY <2>2, <2>3, WithTermHolds
  <2> QED BY <1>3, <1>1, <2>3, <2>4
<1> QED BY <1>2, <1>3

----------------------------------------------------------------------------
(* What renderWhereTerms prints reads as the runs do.                          *)
LEMMA FlattenOne == ASSUME NEW s, Len(s) = 1 PROVE FlattenSeq(s) = s[1]
<1> DEFINE Grows(g) == [i \in 1 .. 1 |-> IF i = 1 THEN s[i] ELSE g[i - 1] \o s[i]]
           flat == CHOOSE g : g = Grows(g)
<1>1. \E g : g = Grows(g)
  <2> DEFINE g == [i \in 1 .. 1 |-> s[1]]
  <2>1. \A i \in 1 .. 1 : i = 1
    OBVIOUS
  <2>2. g = Grows(g)
    BY <2>1
  <2> QED BY <2>2
<1>2. flat = Grows(flat)
  BY <1>1
<1>3. FlattenSeq(s) = flat[1]
  <2>1. 1 # 0
    OBVIOUS
  <2> QED BY <2>1 DEF FlattenSeq
<1> HIDE DEF flat
<1>4. flat[1] = s[1]
  <2>1. 1 \in 1 .. 1
    OBVIOUS
  <2> QED BY ONLY <1>2, <2>1
<1> QED BY <1>3, <1>4

LEMMA OneLonger ==
  ASSUME NEW E, NEW e \in Seq(E), NEW i \in 1 .. Len(e), i # 1
  PROVE  [k \in 1 .. i - 1 |-> e[k]] \o <<e[i]>> = [k \in 1 .. i |-> e[k]]
<1> DEFINE a == [k \in 1 .. i - 1 |-> e[k]]
           b == [k \in 1 .. i |-> e[k]]
<1>1. i \in Nat /\ i - 1 \in Nat /\ \A k \in 1 .. i : e[k] \in E
  OBVIOUS
<1>2. a \in [1 .. i - 1 -> E] /\ b \in [1 .. i -> E] /\ e[i] \in E
  <2>1. i \in 1 .. i /\ \A k \in 1 .. i - 1 : k \in 1 .. i
    BY <1>1
  <2> QED BY <1>1, <2>1
<1>3. a \in Seq(E) /\ Len(a) = i - 1 /\ b \in Seq(E) /\ Len(b) = i
  BY <1>1, <1>2, SeqFrom
<1>4. a \o <<e[i]>> = Append(a, e[i])
  BY <1>2, <1>3, AppendIsConcat
<1> DEFINE c == Append(a, e[i])
<1>5. c \in Seq(E) /\ Len(c) = i - 1 + 1 /\ (\A k \in 1 .. i - 1 : c[k] = a[k]) /\ c[i - 1 + 1] = e[i]
  BY <1>2, <1>3, AppendProperties
<1>6. (\A k \in 1 .. i - 1 : a[k] = e[k]) /\ \A k \in 1 .. i : b[k] = e[k]
  OBVIOUS
<1> HIDE DEF a, b, c
<1>7. i - 1 + 1 = i /\ \A k \in 1 .. i : k \in 1 .. i - 1 \/ k = i
  BY <1>1
<1>8. \A k \in 1 .. i : c[k] = b[k]
  BY <1>5, <1>6, <1>7
<1>9. c = b
  BY <1>3, <1>5, <1>7, <1>8, SeqEqual
<1> QED BY <1>4, <1>9 DEF a, b, c

LEMMA FlattenSingles ==
  ASSUME NEW E, NEW e \in Seq(E), e # <<>>
  PROVE  FlattenSeq([i \in 1 .. Len(e) |-> <<e[i]>>]) = e
<1> DEFINE n == Len(e)
           s == [i \in 1 .. n |-> <<e[i]>>]
           Begin(i) == [k \in 1 .. i |-> e[k]]
           Grows(g) == [i \in 1 .. n |-> IF i = 1 THEN s[i] ELSE g[i - 1] \o s[i]]
           flat == CHOOSE g : g = Grows(g)
<1>1. n \in Nat /\ n # 0 /\ Len(s) = n /\ n \in 1 .. n
  <2>1. n \in Nat /\ n # 0
    BY SeqShape
  <2>2. s \in [1 .. n -> Seq(E)]
    <3>1. \A i \in 1 .. n : e[i] \in E
      OBVIOUS
    <3>2. \A x \in E : <<x>> \in Seq(E)
      OBVIOUS
    <3> HIDE DEF n
    <3> QED BY <3>1, <3>2
  <2> HIDE DEF n, s
  <2> QED BY <2>1, <2>2, SeqFrom
<1>2. \A i \in 1 .. n : i # 1 => Begin(i - 1) \o <<e[i]>> = Begin(i)
  BY OneLonger
<1>3. Begin(1) = <<e[1]>>
  OBVIOUS
<1> HIDE DEF n, Begin
<1>4. \E g : g = Grows(g)
  <2> DEFINE g == [i \in 1 .. n |-> Begin(i)]
  <2>1. \A i \in 1 .. n : i # 1 => i - 1 \in 1 .. n
    BY <1>1
  <2>2. \A i \in 1 .. n : g[i] = IF i = 1 THEN s[i] ELSE g[i - 1] \o s[i]
    BY <1>2, <1>3, <2>1
  <2>3. g = Grows(g)
    BY <2>2
  <2> QED BY <2>3
<1>5. flat = Grows(flat)
  BY <1>4
<1>6. FlattenSeq(s) = flat[n]
  BY <1>1 DEF FlattenSeq
<1> HIDE DEF flat
<1>7. \A i \in 1 .. n : flat[i] = IF i = 1 THEN <<e[1]>> ELSE flat[i - 1] \o <<e[i]>>
  <2>1. \A i \in 1 .. n : s[i] = <<e[i]>>
    OBVIOUS
  <2>2. \A i \in 1 .. n : flat[i] = IF i = 1 THEN s[i] ELSE flat[i - 1] \o s[i]
    BY ONLY <1>5
  <2> HIDE DEF s
  <2> QED BY <2>1, <2>2
<1>8. \A i \in 0 .. n : i \in {j \in 0 .. n : j = 0 \/ flat[j] = Begin(j)}
  <2> DEFINE S == {j \in 0 .. n : j = 0 \/ flat[j] = Begin(j)}
  <2>1. 0 \in S
    BY <1>1
  <2>2. ASSUME NEW j \in 0 .. n - 1, j \in S PROVE j + 1 \in S
    <3>1. j + 1 \in 1 .. n /\ j + 1 \in 0 .. n /\ (j + 1) - 1 = j
      BY <1>1
    <3>2. CASE j = 0
      <4>1. j + 1 = 1 /\ 1 \in 1 .. n
        BY <3>1, <3>2
      <4>2. flat[1] = Begin(1)
        BY <1>3, <1>7, <4>1
      <4> QED BY <3>1, <4>1, <4>2
    <3>3. CASE j # 0
      <4>1. j + 1 # 1
        BY <3>1, <3>3
      <4>2. flat[j + 1] = flat[j] \o <<e[j + 1]>>
        BY <1>7, <3>1, <4>1
      <4>3. flat[j] = Begin(j)
        BY <2>2, <3>3
      <4>4. Begin(j) \o <<e[j + 1]>> = Begin(j + 1)
        BY <1>2, <3>1, <4>1
      <4> QED BY <3>1, <4>2, <4>3, <4>4
    <3> QED BY <3>2, <3>3
  <2> HIDE DEF S
  <2>3. 0 .. n \subseteq S
    BY <1>1, <2>1, <2>2, CountingUp
  <2> QED BY <2>3 DEF S
<1>9. flat[n] = Begin(n)
  <2>1. n \in 0 .. n
    BY <1>1
  <2> QED BY <1>1, <1>8, <2>1
<1>10. Begin(n) = e
  BY DEF Begin, n
<1> QED BY <1>6, <1>9, <1>10 DEF n

\* How SQL reads pieces that are all joined by AND, or all but the first by OR.
PieceHolds(p, true) == \E n \in DOMAIN p.any : TermHolds(p.any[n], true)
BodyOf(pieces, true) ==
  \E i \in DOMAIN pieces :
    /\ i = 1 \/ pieces[i].conn = "OR"
    /\ \A j \in i .. Len(pieces) : (\A k \in i + 1 .. j : pieces[k].conn = "AND") => PieceHolds(pieces[j], true)
LEMMA BodyIs == ASSUME NEW pieces, NEW true PROVE BodyHolds(pieces, true) <=> BodyOf(pieces, true)
BY DEF BodyHolds, BodyOf, PieceHolds

LEMMA AllOfThem ==
  ASSUME NEW n \in Nat, n # 0, NEW pieces, DOMAIN pieces = 1 .. n, Len(pieces) = n, NEW true,
         \A i \in 1 .. n : pieces[i].conn = "AND"
  PROVE  BodyHolds(pieces, true) <=> \A i \in 1 .. n : PieceHolds(pieces[i], true)
<1>1. 1 \in 1 .. n /\ \A j \in 1 .. n : \A k \in 1 + 1 .. j : k \in 1 .. n
  OBVIOUS
<1>2. \A i \in 1 .. n : (i = 1 \/ pieces[i].conn = "OR") <=> i = 1
  OBVIOUS
<1>3. BodyOf(pieces, true) <=>
        \A j \in 1 .. n : (\A k \in 1 + 1 .. j : pieces[k].conn = "AND") => PieceHolds(pieces[j], true)
  BY <1>1, <1>2 DEF BodyOf
<1> QED BY <1>1, <1>3, BodyIs

LEMMA AnyOfThem ==
  ASSUME NEW n \in Nat, NEW pieces, DOMAIN pieces = 1 .. n, Len(pieces) = n, NEW true,
         \A i \in 1 .. n : i # 1 => pieces[i].conn = "OR"
  PROVE  BodyHolds(pieces, true) <=> \E i \in 1 .. n : PieceHolds(pieces[i], true)
<1>1. ASSUME NEW i \in 1 .. n
      PROVE  (\A j \in i .. n : (\A k \in i + 1 .. j : pieces[k].conn = "AND") => PieceHolds(pieces[j], true))
               <=> PieceHolds(pieces[i], true)
  <2>1. i \in i .. n /\ \A k : k \notin i + 1 .. i
    OBVIOUS
  <2>2. ASSUME NEW j \in i .. n, j # i PROVE ~ \A k \in i + 1 .. j : pieces[k].conn = "AND"
    <3>1. i + 1 \in i + 1 .. j /\ i + 1 \in 1 .. n /\ i + 1 # 1
      BY <2>2
    <3>2. pieces[i + 1].conn = "OR"
      BY <3>1
    <3> QED BY <3>1, <3>2
  <2> QED BY <2>1, <2>2
<1>2. BodyOf(pieces, true) <=> \E i \in 1 .. n : PieceHolds(pieces[i], true)
  <2>1. \A i \in 1 .. n : i = 1 \/ pieces[i].conn = "OR"
    OBVIOUS
  <2>2. BodyOf(pieces, true) <=>
          \E i \in 1 .. n : \A j \in i .. n : (\A k \in i + 1 .. j : pieces[k].conn = "AND") => PieceHolds(pieces[j], true)
    BY <2>1 DEF BodyOf
  <2> QED BY <1>1, <2>2
<1> QED BY <1>2, BodyIs

PieceOf(ts, runs) ==
  IF Len(ts) > 1 /\ Len(runs) > 1
  THEN <<[conn |-> "AND", any |-> ts]>>
  ELSE [i \in 1 .. Len(ts) |-> [conn |-> IF i = 1 THEN "AND" ELSE "OR", any |-> <<ts[i]>>]]

LEMMA RenderedIs ==
  ASSUME NEW w
  PROVE  RenderWhereTerms(w) = FlattenSeq([i \in 1 .. Len(OrRuns(w)) |-> PieceOf(OrRuns(w)[i], OrRuns(w))])
BY DEF RenderWhereTerms, PieceOf

\* One run is printed bare, term by term.
BareRun(ts) == [i \in 1 .. Len(ts) |-> [conn |-> IF i = 1 THEN "AND" ELSE "OR", any |-> <<ts[i]>>]]
LEMMA OneRunIs ==
  ASSUME NEW T, NEW w \in Seq(T), Len(OrRuns(w)) = 1
  PROVE  /\ OrRuns(w)[1] \in Seq(T) /\ DOMAIN OrRuns(w) = {1}
         /\ RenderWhereTerms(w) = BareRun(OrRuns(w)[1])
<1> DEFINE runs == OrRuns(w)
           pieces == RenderWhereTerms(w)
           list == [i \in 1 .. 1 |-> PieceOf(runs[i], runs)]
           ts == runs[1]
           m == Len(ts)
<1>1. runs \in RunLists(T)
  BY RunsOfNone
<1>2. DOMAIN runs = {1} /\ ts \in Seq(T)
  <2> DEFINE S == Seq(T)
  <2>1. runs \in Seq(S) /\ Len(runs) = 1
    BY <1>1 DEF RunLists
  <2> HIDE DEF S, runs
  <2>2. DOMAIN runs = 1 .. 1 /\ \A i \in 1 .. 1 : runs[i] \in S
    BY <2>1, SeqShape
  <2>3. 1 .. 1 = {1}
    OBVIOUS
  <2> QED BY <2>2, <2>3 DEF S
<1>3. Len(list) = 1 /\ list[1] = PieceOf(ts, runs)
  <2>1. list \in [1 .. 1 -> {PieceOf(ts, runs)}]
    <3>1. \A i \in 1 .. 1 : i = 1
      OBVIOUS
    <3> QED BY <3>1
  <2> HIDE DEF list
  <2>2. Len(list) = 1
    BY <2>1, SeqFrom
  <2>3. 1 \in 1 .. 1
    OBVIOUS
  <2> QED BY <2>1, <2>2, <2>3
<1>4. pieces = PieceOf(ts, runs)
  <2>1. pieces = FlattenSeq(list)
    BY RenderedIs
  <2> HIDE DEF pieces, list
  <2> QED BY <1>3, <2>1, FlattenOne
<1>5. m \in Nat /\ DOMAIN ts = 1 .. m
  BY <1>2, SeqShape
<1>6. pieces = [i \in 1 .. m |-> [conn |-> IF i = 1 THEN "AND" ELSE "OR", any |-> <<ts[i]>>]]
  <2>1. ~(Len(runs) > 1)
    OBVIOUS
  <2> QED BY <1>4, <2>1 DEF PieceOf
<1> QED BY <1>2, <1>6 DEF BareRun

LEMMA OneRunMeans ==
  ASSUME NEW T, NEW w \in Seq(T), Len(OrRuns(w)) = 1, NEW true
  PROVE  BodyHolds(RenderWhereTerms(w), true) <=> RunsHold(OrRuns(w), true)
<1> DEFINE runs == OrRuns(w)
           pieces == RenderWhereTerms(w)
           ts == runs[1]
           m == Len(ts)
<1>2. DOMAIN runs = {1} /\ ts \in Seq(T)
  BY OneRunIs
<1>5. m \in Nat /\ DOMAIN ts = 1 .. m
  BY <1>2, SeqShape
<1>6. pieces = [i \in 1 .. m |-> [conn |-> IF i = 1 THEN "AND" ELSE "OR", any |-> <<ts[i]>>]]
  BY OneRunIs DEF BareRun
<1> HIDE DEF pieces, ts, runs
<1>7. DOMAIN pieces = 1 .. m /\ Len(pieces) = m
  <2> DEFINE P(i) == [conn |-> IF i = 1 THEN "AND" ELSE "OR", any |-> <<ts[i]>>]
             Ps == {P(i) : i \in 1 .. m}
  <2>1. pieces \in [1 .. m -> Ps]
    BY <1>6
  <2> HIDE DEF Ps, m
  <2> QED BY <1>5, <2>1, SeqFrom
<1>8. \A i \in 1 .. m : i # 1 => pieces[i].conn = "OR"
  BY <1>6
<1>9. \A i \in 1 .. m : PieceHolds(pieces[i], true) <=> TermHolds(ts[i], true)
  <2> TAKE i \in 1 .. m
  <2>1. pieces[i].any = <<ts[i]>>
    BY <1>6
  <2>2. DOMAIN <<ts[i]>> = {1} /\ <<ts[i]>>[1] = ts[i]
    OBVIOUS
  <2> QED BY <2>1, <2>2 DEF PieceHolds
<1>10. BodyHolds(pieces, true) <=> \E i \in 1 .. m : PieceHolds(pieces[i], true)
  <2> HIDE DEF m
  <2> QED BY <1>5, <1>7, <1>8, AnyOfThem
<1>11. RunHolds(ts, true) <=> \E i \in 1 .. m : TermHolds(ts[i], true)
  BY <1>5 DEF RunHolds
<1>12. RunsHold(runs, true) <=> RunHolds(ts, true)
  BY <1>2 DEF RunsHold, ts
<1> QED BY <1>9, <1>10, <1>11, <1>12 DEF pieces, runs

\* Several runs are a piece each.
LEMMA PieceOfSeveral ==
  ASSUME NEW T, NEW ts \in Seq(T), ts # <<>>, NEW runs, Len(runs) > 1
  PROVE  PieceOf(ts, runs) = <<[conn |-> "AND", any |-> ts]>>
<1>1. CASE Len(ts) > 1
  BY <1>1 DEF PieceOf
<1>2. CASE ~(Len(ts) > 1)
  <2>0. Len(ts) \in Nat /\ Len(ts) # 0
    BY SeqShape
  <2>1. Len(ts) = 1
    <3> DEFINE k == Len(ts)
    <3>1. k \in Nat /\ k # 0 /\ ~(k > 1)
      BY <1>2, <2>0
    <3> HIDE DEF k
    <3>2. k = 1
      BY <3>1
    <3> QED BY <3>2 DEF k
  <2>2. <<ts[1]>> = ts
    BY <2>1
  <2> DEFINE p(i) == [conn |-> IF i = 1 THEN "AND" ELSE "OR", any |-> <<ts[i]>>]
  <2>3. PieceOf(ts, runs) = [i \in 1 .. 1 |-> p(i)]
    BY <1>2, <2>1 DEF PieceOf
  <2>4. p(1) = [conn |-> "AND", any |-> ts]
    BY <2>2
  <2>5. [i \in 1 .. 1 |-> p(i)] = <<p(1)>>
    OBVIOUS
  <2> QED BY <2>3, <2>4, <2>5
<1> QED BY <1>1, <1>2

Bracketed(runs) == [i \in 1 .. Len(runs) |-> [conn |-> "AND", any |-> runs[i]]]
LEMMA SeveralRunsIs ==
  ASSUME NEW T, NEW w \in Seq(T), Len(OrRuns(w)) > 1
  PROVE  RenderWhereTerms(w) = Bracketed(OrRuns(w))
<1> DEFINE runs == OrRuns(w)
           pieces == RenderWhereTerms(w)
           n == Len(runs)
           Piece(i) == [conn |-> "AND", any |-> runs[i]]
           e == [i \in 1 .. n |-> Piece(i)]
           E == {Piece(i) : i \in 1 .. n}
           list == [i \in 1 .. n |-> PieceOf(runs[i], runs)]
           singles == [i \in 1 .. n |-> <<e[i]>>]
<1>1. runs \in RunLists(T)
  BY RunsOfNone
<1>2. n \in Nat /\ DOMAIN runs = 1 .. n /\ n > 1 /\ \A i \in 1 .. n : runs[i] \in Seq(T) /\ runs[i] # <<>>
  BY <1>1 DEF RunLists, Filled
<1>3. pieces = FlattenSeq(list)
  BY RenderedIs
<1> HIDE DEF runs, pieces
<1>4. \A i \in 1 .. n : PieceOf(runs[i], runs) = <<Piece(i)>>
  BY <1>2, PieceOfSeveral
<1>5. list = singles
  BY <1>4
<1>6. e \in [1 .. n -> E]
  OBVIOUS
<1> HIDE DEF E, list
<1>7. e \in Seq(E) /\ Len(e) = n
  <2> HIDE DEF n, e
  <2> QED BY <1>2, <1>6, SeqFrom
<1>8. e # <<>>
  <2> HIDE DEF n, e
  <2> QED BY <1>2, <1>7, SeqShape
<1>9. pieces = e
  <2> HIDE DEF n, e
  <2>1. FlattenSeq([i \in 1 .. Len(e) |-> <<e[i]>>]) = e
    BY <1>7, <1>8, FlattenSingles
  <2>2. FlattenSeq(singles) = e
    BY <1>7, <2>1
  <2> QED BY <1>3, <1>5, <2>2
<1> QED BY <1>9 DEF Bracketed, runs, pieces

LEMMA SeveralRunsMean ==
  ASSUME NEW T, NEW w \in Seq(T), Len(OrRuns(w)) > 1, NEW true
  PROVE  BodyHolds(RenderWhereTerms(w), true) <=> RunsHold(OrRuns(w), true)
<1> DEFINE runs == OrRuns(w)
           pieces == RenderWhereTerms(w)
           n == Len(runs)
           e == [i \in 1 .. n |-> [conn |-> "AND", any |-> runs[i]]]
           E == {[conn |-> "AND", any |-> runs[i]] : i \in 1 .. n}
<1>1. runs \in RunLists(T)
  BY RunsOfNone
<1>2. n \in Nat /\ DOMAIN runs = 1 .. n /\ n > 1
  BY <1>1 DEF RunLists
<1>9. pieces = e
  BY SeveralRunsIs DEF Bracketed
<1> HIDE DEF runs, pieces
<1>6. e \in [1 .. n -> E]
  OBVIOUS
<1> HIDE DEF E
<1>7. e \in Seq(E) /\ Len(e) = n
  <2> HIDE DEF n, e
  <2> QED BY <1>2, <1>6, SeqFrom
<1>10. \A i \in 1 .. n : e[i].conn = "AND" /\ e[i].any = runs[i]
  OBVIOUS
<1>11. DOMAIN e = 1 .. n
  OBVIOUS
<1> HIDE DEF e
<1>12. BodyHolds(e, true) <=> \A i \in 1 .. n : PieceHolds(e[i], true)
  <2> HIDE DEF n
  <2>1. n # 0
    BY <1>2
  <2> QED BY <1>2, <1>7, <1>10, <1>11, <2>1, AllOfThem
<1>13. \A i \in 1 .. n : PieceHolds(e[i], true) <=> RunHolds(runs[i], true)
  BY <1>10 DEF PieceHolds, RunHolds
<1>14. RunsHold(runs, true) <=> \A i \in 1 .. n : RunHolds(runs[i], true)
  BY <1>2 DEF RunsHold
<1> QED BY <1>9, <1>12, <1>13, <1>14 DEF pieces, runs

LEMMA RenderedMeans ==
  ASSUME NEW T, NEW w \in Seq(T), w # <<>>, NEW true
  PROVE  BodyHolds(RenderWhereTerms(w), true) <=> RunsHold(OrRuns(w), true)
<1>1. OrRuns(w) \in RunLists(T) /\ OrRuns(w) # <<>>
  BY RunsOfNone
<1> DEFINE runs == OrRuns(w)
           S == Seq(T)
<1>2. runs \in Seq(S) /\ runs # <<>>
  BY <1>1 DEF RunLists
<1> HIDE DEF S, runs
<1>3. Len(runs) \in Nat /\ Len(runs) # 0
  BY <1>2, SeqShape
<1>4. Len(runs) = 1 \/ Len(runs) > 1
  <2> DEFINE k == Len(runs)
  <2>1. k \in Nat /\ k # 0
    BY <1>3
  <2> HIDE DEF k
  <2>2. k = 1 \/ k > 1
    BY <2>1
  <2> QED BY <2>2 DEF k
<1> QED BY <1>4, OneRunMeans, SeveralRunsMean DEF runs


\* What is printed is pieces, none when there is no term and else at least one.
Pieces(T) == [conn : {"AND", "OR"}, any : Seq(T)]
LEMMA RenderedType ==
  ASSUME NEW T, NEW w \in Seq(T)
  PROVE  RenderWhereTerms(w) \in Seq(Pieces(T)) /\ (RenderWhereTerms(w) = <<>> <=> w = <<>>)
<1> DEFINE runs == OrRuns(w)
           S == Seq(T)
           P == Pieces(T)
           n == Len(runs)
<1>1. runs \in RunLists(T) /\ (runs = <<>> <=> w = <<>>)
  BY RunsOfNone
<1>2. runs \in Seq(S) /\ Filled(runs)
  BY <1>1 DEF RunLists
<1>3. n \in Nat /\ DOMAIN runs = 1 .. n /\ (runs = <<>> <=> n = 0) /\ \A i \in 1 .. n : runs[i] \in S
  <2> HIDE DEF S, runs
  <2> QED BY <1>2, SeqShape
<1> HIDE DEF n, P
<1>4. CASE n = 0
  <2>1. RenderWhereTerms(w) = FlattenSeq([i \in 1 .. n |-> PieceOf(runs[i], runs)])
    BY RenderedIs DEF n
  <2>2. [i \in 1 .. n |-> PieceOf(runs[i], runs)] = <<>>
    <3>1. 1 .. n = {}
      BY <1>4
    <3>2. <<>> = [i \in {} |-> PieceOf(runs[i], runs)]
      OBVIOUS
    <3> QED BY <3>1, <3>2
  <2>3. RenderWhereTerms(w) = <<>>
    BY <2>1, <2>2 DEF FlattenSeq
  <2> QED BY <1>1, <1>3, <1>4, <2>3
<1>5. CASE n = 1
  <2> DEFINE ts == runs[1]
             m == Len(ts)
  <2>1. ts \in Seq(T) /\ RenderWhereTerms(w) = BareRun(ts)
    BY <1>5, OneRunIs DEF n
  <2>2. ts # <<>>
    BY <1>2, <1>3, <1>5 DEF Filled
  <2> HIDE DEF ts
  <2>3. m \in Nat /\ m # 0 /\ \A i \in 1 .. m : ts[i] \in T
    BY <2>1, <2>2, SeqShape
  <2>4. BareRun(ts) \in [1 .. m -> P]
    <3>1. \A i \in 1 .. m : <<ts[i]>> \in Seq(T)
      BY <2>3
    <3>2. \A i \in 1 .. m : [conn |-> IF i = 1 THEN "AND" ELSE "OR", any |-> <<ts[i]>>] \in P
      BY <3>1 DEF P, Pieces
    <3> HIDE DEF P
    <3> QED BY <3>2 DEF BareRun
  <2>5. BareRun(ts) \in Seq(P) /\ Len(BareRun(ts)) = m
    <3> HIDE DEF m
    <3> QED BY <2>3, <2>4, SeqFrom
  <2>6. BareRun(ts) # <<>>
    BY <2>3, <2>5, SeqShape
  <2> QED BY <1>1, <1>3, <1>5, <2>1, <2>5, <2>6 DEF P
<1>6. CASE n > 1
  <2>1. RenderWhereTerms(w) = Bracketed(runs)
    BY <1>6, SeveralRunsIs DEF n
  <2>2. Bracketed(runs) \in [1 .. n -> P]
    <3>1. \A i \in 1 .. n : [conn |-> "AND", any |-> runs[i]] \in P
      BY <1>3 DEF P, Pieces
    <3> QED BY <3>1 DEF Bracketed, n
  <2>3. Bracketed(runs) \in Seq(P) /\ Len(Bracketed(runs)) = n
    BY <1>3, <2>2, SeqFrom
  <2>4. Bracketed(runs) # <<>>
    BY <1>3, <1>6, <2>3, SeqShape
  <2> QED BY <1>1, <1>3, <1>6, <2>1, <2>3, <2>4 DEF P
<1>7. n = 0 \/ n = 1 \/ n > 1
  BY <1>3
<1> QED BY <1>4, <1>5, <1>6, <1>7

\* A sequence is built by appending: its beginnings.
LEMMA Beginnings ==
  ASSUME NEW S, NEW s \in Seq(S)
  PROVE  /\ SubSeq(s, 1, 0) = <<>> /\ SubSeq(s, 1, Len(s)) = s
         /\ \A n \in 0 .. Len(s) - 1 : /\ SubSeq(s, 1, n) \in Seq(S) /\ s[n + 1] \in S
                                       /\ SubSeq(s, 1, n + 1) = Append(SubSeq(s, 1, n), s[n + 1])
<1>1. SubSeq(s, 1, 0) = <<>>
  OBVIOUS
<1>2. SubSeq(s, 1, Len(s)) = s
  OBVIOUS
<1>3. ASSUME NEW n \in 0 .. Len(s) - 1
      PROVE  /\ SubSeq(s, 1, n) \in Seq(S) /\ s[n + 1] \in S
             /\ SubSeq(s, 1, n + 1) = Append(SubSeq(s, 1, n), s[n + 1])
  <2>1. n \in Nat /\ n + 1 \in 1 .. Len(s)
    OBVIOUS
  <2>2. SubSeq(s, 1, n) \in Seq(S) /\ s[n + 1] \in S
    BY <2>1
  <2>3. SubSeq(s, 1, n + 1) = Append(SubSeq(s, 1, n), s[n + 1])
    BY <2>1
  <2> QED BY <2>2, <2>3
<1> QED BY <1>1, <1>2, <1>3

\* A chain and the runs it is printed as say the same, so the body that is printed
\* means what was asked, whatever its ands and ors.
SameSaid(w, true) ==
  w # <<>> => /\ EarlierHold(OrRuns(w), true) <=> AskedEarlier(w, true)
              /\ LastHolds(OrRuns(w), true) <=> AskedLast(w, true)

LEMMA SaidIs ==
  ASSUME NEW T, Calls(T), NEW w \in Seq(T), NEW true, SameSaid(w, true)
  PROVE  RunsHold(OrRuns(w), true) <=> AskedHolds(w, true)
<1>1. OrRuns(w) \in RunLists(T) /\ (OrRuns(w) = <<>> <=> w = <<>>)
  BY RunsOfNone
<1>2. RunsHold(OrRuns(w), true) <=> (OrRuns(w) = <<>> \/ (EarlierHold(OrRuns(w), true) /\ LastHolds(OrRuns(w), true)))
  BY <1>1, RunsHoldIs
<1>3. AskedHolds(w, true) <=> (w = <<>> \/ (AskedEarlier(w, true) /\ AskedLast(w, true)))
  BY AskedIs
<1> QED BY <1>1, <1>2, <1>3 DEF SameSaid

LEMMA SaidGrows ==
  ASSUME NEW T, Calls(T), NEW w \in Seq(T), NEW t \in T, NEW true, SameSaid(w, true)
  PROVE  SameSaid(Append(w, t), true)
<1> DEFINE v == Append(w, t)
<1>1. OrRuns(v) = WithTerm(OrRuns(w), t) /\ OrRuns(w) \in RunLists(T)
  BY OrRunsGrow
<1>2. OrRuns(w) = <<>> <=> w = <<>>
  BY RunsOfNone
<1>3. CASE t.conn = "OR" /\ w # <<>>
  <2>1. /\ EarlierHold(OrRuns(v), true) <=> EarlierHold(OrRuns(w), true)
        /\ LastHolds(OrRuns(v), true) <=> (LastHolds(OrRuns(w), true) \/ TermHolds(t, true))
    BY <1>1, <1>2, <1>3, WithTermHolds
  <2>2. /\ AskedEarlier(v, true) <=> AskedEarlier(w, true)
        /\ AskedLast(v, true) <=> (AskedLast(w, true) \/ TermHolds(t, true))
    BY <1>3, AskedGrows
  <2> HIDE DEF v
  <2>3. SameSaid(v, true)
    BY <1>3, <2>1, <2>2 DEF SameSaid
  <2> QED BY <2>3 DEF v
<1>4. CASE ~(t.conn = "OR" /\ w # <<>>)
  <2>1. /\ EarlierHold(OrRuns(v), true) <=> RunsHold(OrRuns(w), true)
        /\ LastHolds(OrRuns(v), true) <=> TermHolds(t, true)
    BY <1>1, <1>2, <1>4, WithTermHolds
  <2>2. /\ AskedEarlier(v, true) <=> AskedHolds(w, true)
        /\ AskedLast(v, true) <=> TermHolds(t, true)
    BY <1>4, AskedGrows
  <2>3. RunsHold(OrRuns(w), true) <=> AskedHolds(w, true)
    BY SaidIs
  <2> HIDE DEF v
  <2>4. SameSaid(v, true)
    BY <2>1, <2>2, <2>3 DEF SameSaid
  <2> QED BY <2>4 DEF v
<1> QED BY <1>3, <1>4

LEMMA PrintedMeansTheChain ==
  ASSUME NEW T, Calls(T), NEW w \in Seq(T), NEW true
  PROVE  (w = <<>> \/ BodyHolds(RenderWhereTerms(w), true)) <=> ChainHolds(w, true)
<1> DEFINE N == Len(w)
           Begin(n) == SubSeq(w, 1, n)
           S == {n \in 0 .. N : SameSaid(Begin(n), true)}
<1>1. /\ N \in Nat /\ Begin(0) = <<>> /\ Begin(N) = w
      /\ \A n \in 0 .. N - 1 : Begin(n) \in Seq(T) /\ w[n + 1] \in T /\ Begin(n + 1) = Append(Begin(n), w[n + 1])
  BY Beginnings
<1> HIDE DEF N, Begin
<1>2. 0 \in S
  BY <1>1 DEF SameSaid
<1>3. ASSUME NEW n \in 0 .. N - 1, n \in S PROVE n + 1 \in S
  <2>1. n + 1 \in 0 .. N
    BY <1>1
  <2>2. SameSaid(Append(Begin(n), w[n + 1]), true)
    BY <1>1, <1>3, SaidGrows
  <2> QED BY <1>1, <2>1, <2>2
<1> HIDE DEF S
<1>4. N \in S
  <2>1. 0 .. N \subseteq S
    BY <1>1, <1>2, <1>3, CountingUp
  <2>2. N \in 0 .. N
    BY <1>1
  <2> QED BY <2>1, <2>2
<1>5. SameSaid(w, true)
  BY <1>1, <1>4 DEF S
<1>6. RunsHold(OrRuns(w), true) <=> AskedHolds(w, true)
  BY <1>5, SaidIs
<1>7. w # <<>> => (BodyHolds(RenderWhereTerms(w), true) <=> RunsHold(OrRuns(w), true))
  BY RenderedMeans
<1>8. AskedHolds(<<>>, true)
  BY DEF AskedHolds
<1> QED BY <1>6, <1>7, <1>8, ChainIs

\* One condition more, chained by and.
LEMMA ChainGrows ==
  ASSUME NEW T, Calls(T), NEW w \in Seq(T), NEW t \in T, t.conn = "AND", NEW true
  PROVE  ChainHolds(Append(w, t), true) <=> (ChainHolds(w, true) /\ TermHolds(t, true))
<1> DEFINE v == Append(w, t)
<1>1. v \in Seq(T) /\ v # <<>>
  BY AppendProperties
<1>2. /\ AskedEarlier(v, true) <=> AskedHolds(w, true)
      /\ AskedLast(v, true) <=> TermHolds(t, true)
  <2>1. ~(t.conn = "OR" /\ w # <<>>)
    OBVIOUS
  <2> QED BY <2>1, AskedGrows
<1> HIDE DEF v
<1>3. AskedHolds(v, true) <=> (AskedEarlier(v, true) /\ AskedLast(v, true))
  BY <1>1, AskedIs
<1>4. ChainHolds(v, true) <=> AskedHolds(v, true)
  BY ChainIs
<1>5. ChainHolds(w, true) <=> AskedHolds(w, true)
  BY ChainIs
<1> QED BY <1>2, <1>3, <1>4, <1>5 DEF v

\* A body that prints one condition more by and.
LEMMA BodyGrows ==
  ASSUME NEW P, NEW p \in Seq(P), p # <<>>, NEW q \in P, q.conn = "AND", NEW true, PieceHolds(q, true)
  PROVE  BodyHolds(Append(p, q), true) <=> BodyHolds(p, true)
<1> DEFINE n == Len(p)
           v == Append(p, q)
<1>1. n \in Nat /\ n # 0 /\ DOMAIN p = 1 .. n
  BY SeqShape
<1>2. DOMAIN v = 1 .. n + 1 /\ Len(v) = n + 1 /\ v[n + 1] = q /\ \A i \in 1 .. n : v[i] = p[i]
  <2>1. v \in Seq(P) /\ Len(v) = n + 1
    OBVIOUS
  <2>2. v[n + 1] = q /\ \A i \in 1 .. n : v[i] = p[i]
    BY AppendProperties
  <2> HIDE DEF v, n
  <2> QED BY <2>1, <2>2, SeqShape
<1> HIDE DEF v
<1> DEFINE Opens(s, i) == i = 1 \/ s[i].conn = "OR"
           Bound(s, i, j) == \A k \in i + 1 .. j : s[k].conn = "AND"
<1>3. BodyOf(v, true) <=> \E i \in 1 .. n + 1 : Opens(v, i) /\ \A j \in i .. n + 1 : Bound(v, i, j) => PieceHolds(v[j], true)
  BY <1>2 DEF BodyOf
<1>4. BodyOf(p, true) <=> \E i \in 1 .. n : Opens(p, i) /\ \A j \in i .. n : Bound(p, i, j) => PieceHolds(p[j], true)
  BY <1>1 DEF BodyOf
<1> HIDE DEF n
<1>5. \A i \in 1 .. n : (Opens(v, i) <=> Opens(p, i)) /\ i \in 1 .. n + 1
  BY <1>1, <1>2
<1>6. ~Opens(v, n + 1)
  BY <1>1, <1>2
<1>7. ASSUME NEW i \in 1 .. n
      PROVE  (\A j \in i .. n + 1 : Bound(v, i, j) => PieceHolds(v[j], true))
               <=> (\A j \in i .. n : Bound(p, i, j) => PieceHolds(p[j], true))
  <2>1. \A j \in i .. n + 1 : j = n + 1 \/ j \in i .. n
    BY <1>1
  <2>2. \A j \in i .. n : j \in i .. n + 1 /\ j \in 1 .. n /\ v[j] = p[j] /\ \A k \in i + 1 .. j : v[k] = p[k]
    BY <1>1, <1>2
  <2>3. \A j \in i .. n : Bound(v, i, j) <=> Bound(p, i, j)
    BY <2>2
  <2>4. PieceHolds(v[n + 1], true)
    BY <1>2
  <2> HIDE DEF Bound
  <2> QED BY <2>1, <2>2, <2>3, <2>4
<1>8. \A i \in 1 .. n + 1 : i = n + 1 \/ i \in 1 .. n
  BY <1>1
<1> HIDE DEF Bound, Opens
<1>9. BodyOf(v, true) <=> BodyOf(p, true)
  BY <1>3, <1>4, <1>5, <1>6, <1>7, <1>8
<1>10. BodyHolds(v, true) <=> BodyOf(v, true)
  BY BodyIs
<1>11. BodyHolds(p, true) <=> BodyOf(p, true)
  BY BodyIs
<1> QED BY <1>9, <1>10, <1>11 DEF v
\* Two traces that begin alike and step alike end alike; one that begins in a set and steps
\* within it stays there.
LEMMA TracesMeet ==
  ASSUME NEW n \in Nat, NEW g, NEW h, g[0] = h[0], \A i \in 1 .. n : g[i - 1] = h[i - 1] => g[i] = h[i]
  PROVE  g[n] = h[n]
<1> DEFINE S == {i \in 0 .. n : g[i] = h[i]}
<1>1. 0 \in S
  OBVIOUS
<1>2. ASSUME NEW i \in 0 .. n - 1, i \in S PROVE i + 1 \in S
  <2>1. i + 1 \in 1 .. n /\ (i + 1) - 1 = i /\ i + 1 \in 0 .. n
    OBVIOUS
  <2>2. g[(i + 1) - 1] = h[(i + 1) - 1]
    BY <1>2, <2>1
  <2> QED BY <2>1, <2>2
<1> HIDE DEF S
<1>3. n \in S
  <2>1. 0 .. n \subseteq S
    BY <1>1, <1>2, CountingUp
  <2> QED BY <2>1
<1> QED BY <1>3 DEF S

LEMMA TracesStay ==
  ASSUME NEW n \in Nat, NEW V, NEW g, g[0] \in V, \A i \in 1 .. n : g[i - 1] \in V => g[i] \in V
  PROVE  \A i \in 0 .. n : g[i] \in V
<1> DEFINE S == {i \in 0 .. n : g[i] \in V}
<1>1. 0 \in S
  OBVIOUS
<1>2. ASSUME NEW i \in 0 .. n - 1, i \in S PROVE i + 1 \in S
  <2>1. i + 1 \in 1 .. n /\ (i + 1) - 1 = i /\ i + 1 \in 0 .. n
    OBVIOUS
  <2>2. g[(i + 1) - 1] \in V
    BY <1>2, <2>1
  <2> QED BY <2>1, <2>2
<1> HIDE DEF S
<1>3. 0 .. n \subseteq S
  BY <1>1, <1>2, CountingUp
<1> QED BY <1>3 DEF S
=============================================================================
