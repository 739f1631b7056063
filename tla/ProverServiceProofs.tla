------------------------ MODULE ProverServiceProofs -------------------------
(***************************************************************************)
(* What holds of ProverService for any requests, settings and bounds: its  *)
(* safety properties and that it implements ProofQueue.                    *)
(*                                                                         *)
(* First the functions it defines by recursion: the backoff and the        *)
(* requests among the lines.  Then the inductive invariant: a request is   *)
(* being worked at exactly when one read has no answer yet, it is the last *)
(* line read, and the metrics are what the answers so far count, plus that *)
(* request.                                                                *)
(***************************************************************************)
EXTENDS ProverService, DataTheorems

-----------------------------------------------------------------------------
\* Backoff.

\* A product grows with its second factor.
LEMMA ProductGrows ==
  \A a \in Nat, p \in Nat, q \in Nat : p <= q => a * p <= a * q /\ a * q \in Nat
OBVIOUS

\* saturating_mul stays within u64 and grows with its second factor.
LEMMA SatMulGrows ==
  ASSUME NEW a \in Nat, NEW p \in Nat, NEW q \in Nat, p <= q
  PROVE  SatMul(a, p) \in 0 .. U64_MAX /\ SatMul(a, p) <= SatMul(a, q)
<1>1. a * p \in Nat /\ a * q \in Nat /\ a * p <= a * q
  BY ProductGrows
<1> DEFINE x == a * p
           y == a * q
<1> HIDE DEF x, y
<1>2. SatMul(a, p) = (IF x > U64_MAX THEN U64_MAX ELSE x)
  BY DEF SatMul, x
<1>3. SatMul(a, q) = (IF y > U64_MAX THEN U64_MAX ELSE y)
  BY DEF SatMul, y
<1>4. x \in Nat /\ y \in Nat /\ x <= y
  BY <1>1 DEF x, y
<1>5. QED
  BY <1>2, <1>3, <1>4, ServiceConstants

\* saturating_pow satisfies the equations it is defined by.
LEMMA SatPow2Steps ==
  /\ SatPow2 \in [Nat -> 0 .. U64_MAX]
  /\ SatPow2[0] = 1
  /\ \A n \in Nat \ {0} : SatPow2[n] = SatMul(2, SatPow2[n - 1])
<1> DEFINE V == 0 .. U64_MAX
           h == [n \in Nat |-> [x \in V |-> SatMul(2, x)]]
           Solves(f) == f = [n \in Nat |-> IF n = 0 THEN 1 ELSE SatMul(2, f[n - 1])]
<1>1. \A x \in V : SatMul(2, x) \in V
  BY SatMulGrows
<1>2. \A n \in Nat : h[n] \in [V -> V]
  BY <1>1
<1>3. 1 \in V
  BY ServiceConstants
<1>4. PICK f \in [Nat -> V] : f[0] = 1 /\ \A n \in Nat \ {0} : f[n] = h[n][f[n - 1]]
  <2> DEFINE v == 1
  <2>1. v \in V
    BY <1>3
  <2> HIDE DEF V, h, v
  <2>2. \E f \in [Nat -> V] : Recurs(v, h, f)
    BY <1>2, <2>1, Recursion
  <2>3. QED
    BY <2>2 DEF v, Recurs
<1>5. Solves(f)
  <2>1. ASSUME NEW n \in Nat \ {0}
        PROVE  f[n] = SatMul(2, f[n - 1])
    <3>1. n - 1 \in Nat
      OBVIOUS
    <3>2. f[n - 1] \in V
      BY <3>1
    <3>3. h[n][f[n - 1]] = SatMul(2, f[n - 1])
      BY <3>2
    <3>4. QED
      BY <1>4, <3>3
  <2>2. QED
    BY <1>4, <2>1
<1>6. SatPow2 = CHOOSE g : Solves(g)
  BY DEF SatPow2
<1>7. Solves(SatPow2)
  <2> HIDE DEF Solves
  <2>1. QED
    BY <1>5, <1>6
<1>8. SatPow2[0] = 1 /\ \A n \in Nat \ {0} : SatPow2[n] = SatMul(2, SatPow2[n - 1])
  BY <1>7
<1> DEFINE S == {n \in Nat : SatPow2[n] \in V}
<1>9. Nat \subseteq S
  <2>1. 0 \in S
    BY <1>3, <1>8
  <2>2. ASSUME NEW n \in Nat, n \in S
        PROVE  n + 1 \in S
    <3>1. SatPow2[n + 1] = SatMul(2, SatPow2[n])
      BY <1>8
    <3>2. QED
      BY <1>1, <2>2, <3>1
  <2> HIDE DEF S
  <2>3. QED
    BY <2>1, <2>2, Induction
<1>10. QED
  BY <1>7, <1>8, <1>9

\* It grows with the exponent.
LEMMA SatPow2Grows ==
  ASSUME NEW m \in Nat, NEW n \in Nat, m <= n
  PROVE  SatPow2[m] <= SatPow2[n]
<1>1. \A k \in Nat : SatPow2[k] \in 0 .. U64_MAX /\ SatPow2[k] \in Nat
  BY SatPow2Steps
<1>2. ASSUME NEW k \in Nat
      PROVE  SatPow2[k] <= SatPow2[k + 1]
  <2> DEFINE x == SatPow2[k]
  <2>1. SatPow2[k + 1] = SatMul(2, x)
    BY SatPow2Steps
  <2>2. x \in 0 .. U64_MAX
    BY <1>1
  <2> HIDE DEF x
  <2>3. x <= SatMul(2, x)
    BY <2>2, ServiceConstants DEF SatMul
  <2>4. QED
    BY <2>1, <2>3 DEF x
<1> DEFINE S == {k \in Nat : m <= k => SatPow2[m] <= SatPow2[k]}
<1>3. 0 \in S
  BY <1>1
<1>4. ASSUME NEW k \in Nat, k \in S
      PROVE  k + 1 \in S
  <2>1. SatPow2[k] <= SatPow2[k + 1] /\ SatPow2[k] \in Nat /\ SatPow2[k + 1] \in Nat
          /\ SatPow2[m] \in Nat
    BY <1>1, <1>2
  <2>2. CASE m <= k
    BY <1>4, <2>1, <2>2
  <2>3. CASE m = k + 1
    BY <2>1, <2>3
  <2>4. CASE m > k + 1
    BY <2>4
  <2>5. QED
    BY <2>2, <2>3, <2>4
<1>5. Nat \subseteq S
  <2> HIDE DEF S
  <2>1. QED
    BY <1>3, <1>4, Induction
<1>6. QED
  BY <1>5

\* A delay is within u64 and the cap, and no shorter than an earlier one.
LEMMA DelayGrows ==
  ASSUME args \in Settings, NEW i \in Nat \ {0}, NEW j \in 1 .. i
  PROVE  /\ backoff_delay(i) \in 0 .. U64_MAX
         /\ backoff_delay(i) <= args.retry_max_delay
         /\ backoff_delay(j) <= backoff_delay(i)
<1>1. args.retry_base_delay \in 0 .. U64_MAX /\ args.retry_max_delay \in 0 .. U64_MAX
  BY ServiceConstants
<1>2. SatPow2[i - 1] \in Nat /\ SatPow2[j - 1] \in Nat /\ SatPow2[j - 1] <= SatPow2[i - 1]
  <2>1. i - 1 \in Nat /\ j - 1 \in Nat /\ j - 1 <= i - 1
    OBVIOUS
  <2>2. QED
    BY <2>1, SatPow2Steps, SatPow2Grows
<1> DEFINE x == SatMul(args.retry_base_delay, SatPow2[i - 1])
           y == SatMul(args.retry_base_delay, SatPow2[j - 1])
           cap == args.retry_max_delay
<1>3. x \in 0 .. U64_MAX /\ y \in 0 .. U64_MAX /\ y <= x
  <2>1. args.retry_base_delay \in Nat
    BY <1>1
  <2>2. SatPow2[i - 1] <= SatPow2[i - 1]
    BY <1>2
  <2>3. QED
    BY <1>2, <2>1, <2>2, SatMulGrows
<1> HIDE DEF x, y, cap
<1>4. backoff_delay(i) = (IF x < cap THEN x ELSE cap)
  BY DEF backoff_delay, x, cap
<1>5. backoff_delay(j) = (IF y < cap THEN y ELSE cap)
  BY DEF backoff_delay, y, cap
<1>6. cap \in 0 .. U64_MAX
  BY <1>1 DEF cap
<1>7. backoff_delay(i) \in 0 .. U64_MAX /\ backoff_delay(i) <= cap
        /\ backoff_delay(j) <= backoff_delay(i)
  BY <1>3, <1>4, <1>5, <1>6, ServiceConstants
<1>8. QED
  BY <1>7 DEF cap

-----------------------------------------------------------------------------
\* The requests among the lines.

AskedLines == {line \in Lines : IsRequest(line)}

\* RequestsIn, for any lines.
AreRequestsIn(ls, f) ==
  f = [n \in 0 .. Len(ls) |->
         IF n = 0 THEN <<>>
         ELSE IF IsRequest(ls[n]) THEN Append(f[n - 1], ls[n])
         ELSE f[n - 1]]

RequestsOf(ls) == CHOOSE f : AreRequestsIn(ls, f)

\* RequestsIn is the instance for the lines of the service.
LEMMA RequestsOfLines ==
  RequestsIn = RequestsOf(lines)
BY DEF RequestsIn, RequestsOf, AreRequestsIn

\* The definition has a solution, of sequences of requests.
LEMMA RequestsSteps ==
  ASSUME NEW ls \in Seq(Lines)
  PROVE  /\ RequestsOf(ls)[0] = <<>>
         /\ \A n \in 1 .. Len(ls) :
              RequestsOf(ls)[n] = IF IsRequest(ls[n])
                                  THEN Append(RequestsOf(ls)[n - 1], ls[n])
                                  ELSE RequestsOf(ls)[n - 1]
         /\ \A n \in 0 .. Len(ls) : RequestsOf(ls)[n] \in Seq(AskedLines)
<1> DEFINE V == Seq(AskedLines)
           Next1(n, q) == IF n \in 1 .. Len(ls) /\ IsRequest(ls[n]) THEN Append(q, ls[n]) ELSE q
           h == [n \in Nat |-> [q \in V |-> Next1(n, q)]]
           v == <<>>
<1>0. Len(ls) \in Nat /\ \A n \in 1 .. Len(ls) : ls[n] \in Lines
  OBVIOUS
<1>1. \A n \in Nat, q \in V : Next1(n, q) \in V
  <2>1. \A n \in 1 .. Len(ls) : IsRequest(ls[n]) => ls[n] \in AskedLines
    BY <1>0 DEF AskedLines
  <2>2. \A q \in Seq(AskedLines), a \in AskedLines : Append(q, a) \in Seq(AskedLines)
    OBVIOUS
  <2>3. QED
    BY <2>1, <2>2
<1>2. \A n \in Nat : h[n] \in [V -> V]
  <2> HIDE DEF V, Next1
  <2>1. QED
    BY <1>1
<1>3. v \in V
  OBVIOUS
<1>4. PICK g \in [Nat -> V] : Recurs(v, h, g)
  <2> HIDE DEF V, h, v
  <2>1. QED
    BY <1>2, <1>3, Recursion
<1> DEFINE f == [n \in 0 .. Len(ls) |-> g[n]]
<1>5. ASSUME NEW n \in 1 .. Len(ls)
      PROVE  g[n] = IF IsRequest(ls[n]) THEN Append(g[n - 1], ls[n]) ELSE g[n - 1]
  <2>1. n \in Nat /\ n # 0 /\ n - 1 \in Nat
    BY <1>0
  <2>2. g[n] = h[n][g[n - 1]]
    <3> HIDE DEF h, v, V
    <3>1. QED
      BY <1>4, <2>1 DEF Recurs
  <2>3. g[n - 1] \in V
    <3> HIDE DEF V
    <3>1. QED
      BY <2>1
  <2>4. h[n][g[n - 1]] = Next1(n, g[n - 1])
    <3> HIDE DEF V, Next1
    <3>1. QED
      BY <2>1, <2>3
  <2>5. QED
    BY <2>2, <2>4
<1>6. AreRequestsIn(ls, f)
  <2>1. f[0] = <<>>
    BY <1>0, <1>4 DEF Recurs
  <2>2. ASSUME NEW n \in 1 .. Len(ls)
        PROVE  f[n] = IF IsRequest(ls[n]) THEN Append(f[n - 1], ls[n]) ELSE f[n - 1]
    <3>1. f[n] = g[n] /\ f[n - 1] = g[n - 1]
      BY <1>0
    <3>2. QED
      BY <1>5, <3>1
  <2>3. f = [n \in 0 .. Len(ls) |-> f[n]]
    OBVIOUS
  <2> HIDE DEF f
  <2>4. ASSUME NEW n \in 0 .. Len(ls)
        PROVE  f[n] = IF n = 0 THEN <<>>
                      ELSE IF IsRequest(ls[n]) THEN Append(f[n - 1], ls[n])
                      ELSE f[n - 1]
    <3>1. n = 0 \/ n \in 1 .. Len(ls)
      BY <1>0
    <3>2. QED
      BY <2>1, <2>2, <3>1
  <2>5. f = [n \in 0 .. Len(ls) |->
              IF n = 0 THEN <<>>
              ELSE IF IsRequest(ls[n]) THEN Append(f[n - 1], ls[n])
              ELSE f[n - 1]]
    BY <2>3, <2>4, Zenon
  <2>6. QED
    BY <2>5 DEF AreRequestsIn
<1> DEFINE R == RequestsOf(ls)
<1>7. AreRequestsIn(ls, R)
  BY <1>6 DEF RequestsOf
<1> HIDE DEF R
<1>8. R[0] = <<>>
  BY <1>0, <1>7 DEF AreRequestsIn
<1>9. ASSUME NEW n \in 1 .. Len(ls)
      PROVE  R[n] = IF IsRequest(ls[n]) THEN Append(R[n - 1], ls[n]) ELSE R[n - 1]
  <2>1. n \in 0 .. Len(ls) /\ n # 0
    BY <1>0
  <2>2. QED
    BY <1>7, <2>1 DEF AreRequestsIn
<1> DEFINE S == {n \in Nat : n <= Len(ls) => R[n] \in V}
<1>10. Nat \subseteq S
  <2>1. 0 \in S
    BY <1>3, <1>8
  <2>2. ASSUME NEW n \in Nat, n \in S
        PROVE  n + 1 \in S
    <3>1. SUFFICES ASSUME n + 1 <= Len(ls) PROVE R[n + 1] \in V
      OBVIOUS
    <3>2. R[n] \in V
      BY <1>0, <2>2, <3>1
    <3>3. n + 1 \in 1 .. Len(ls) /\ (n + 1) - 1 = n
      BY <1>0, <3>1
    <3>4. R[n + 1] = Next1(n + 1, R[n])
      BY <1>9, <3>3
    <3>5. QED
      <4> HIDE DEF V, Next1
      <4>1. QED
        BY <1>1, <3>2, <3>4
  <2> HIDE DEF S
  <2>3. QED
    BY <2>1, <2>2, Induction
<1>11. \A n \in 0 .. Len(ls) : R[n] \in V
  BY <1>0, <1>10
<1>12. QED
  BY <1>8, <1>9, <1>11 DEF R

\* The requests among the first m lines depend on these lines only.
LEMMA RequestsAgree ==
  ASSUME NEW ls \in Seq(Lines), NEW ks \in Seq(Lines), NEW m \in Nat,
         m <= Len(ls), m <= Len(ks), \A i \in 1 .. m : ls[i] = ks[i]
  PROVE  RequestsOf(ls)[m] = RequestsOf(ks)[m]
<1> DEFINE R == RequestsOf(ls)
           Q == RequestsOf(ks)
           S == {n \in Nat : n <= m => R[n] = Q[n]}
<1>0. Len(ls) \in Nat /\ Len(ks) \in Nat
  OBVIOUS
<1>1. R[0] = <<>> /\ Q[0] = <<>>
  BY RequestsSteps
<1>2. \A n \in 1 .. Len(ls) :
        R[n] = IF IsRequest(ls[n]) THEN Append(R[n - 1], ls[n]) ELSE R[n - 1]
  BY RequestsSteps
<1>3. \A n \in 1 .. Len(ks) :
        Q[n] = IF IsRequest(ks[n]) THEN Append(Q[n - 1], ks[n]) ELSE Q[n - 1]
  BY RequestsSteps
<1> HIDE DEF R, Q
<1>4. 0 \in S
  BY <1>1
<1>5. ASSUME NEW n \in Nat, n \in S
      PROVE  n + 1 \in S
  <2>1. SUFFICES ASSUME n + 1 <= m PROVE R[n + 1] = Q[n + 1]
    OBVIOUS
  <2>2. n + 1 \in 1 .. Len(ls) /\ n + 1 \in 1 .. Len(ks) /\ n + 1 \in 1 .. m
          /\ (n + 1) - 1 = n
    BY <1>0, <2>1
  <2>3. R[n] = Q[n] /\ ls[n + 1] = ks[n + 1]
    BY <1>5, <2>1, <2>2
  <2>4. QED
    BY <1>2, <1>3, <2>2, <2>3
<1>6. Nat \subseteq S
  <2> HIDE DEF S
  <2>1. QED
    BY <1>4, <1>5, Induction
<1>7. R[m] = Q[m]
  BY <1>6
<1>8. QED
  BY <1>7 DEF R, Q

\* The requests among fewer lines are the first of those among more.
LEMMA RequestsPrefix ==
  ASSUME NEW ls \in Seq(Lines), NEW n \in 0 .. Len(ls), NEW m \in 0 .. n
  PROVE  /\ Len(RequestsOf(ls)[m]) <= Len(RequestsOf(ls)[n])
         /\ \A i \in 1 .. Len(RequestsOf(ls)[m]) :
              RequestsOf(ls)[n][i] = RequestsOf(ls)[m][i]
<1> DEFINE R == RequestsOf(ls)
           Longer(k) == /\ Len(R[m]) <= Len(R[k])
                        /\ \A i \in 1 .. Len(R[m]) : R[k][i] = R[m][i]
           S == {k \in Nat : m <= k /\ k <= Len(ls) => Longer(k)}
<1>0. Len(ls) \in Nat /\ m \in Nat /\ n \in Nat
  OBVIOUS
<1>1. \A k \in 1 .. Len(ls) :
        R[k] = IF IsRequest(ls[k]) THEN Append(R[k - 1], ls[k]) ELSE R[k - 1]
  BY RequestsSteps
<1>2. \A k \in 0 .. Len(ls) : R[k] \in Seq(AskedLines)
  BY RequestsSteps
<1> HIDE DEF R
<1>3. R[m] \in Seq(AskedLines)
  BY <1>0, <1>2
<1>4. Longer(m)
  BY <1>3
<1>5. 0 \in S
  BY <1>0, <1>4
<1>6. ASSUME NEW k \in Nat, k \in S
      PROVE  k + 1 \in S
  <2>1. SUFFICES ASSUME m <= k + 1, k + 1 <= Len(ls) PROVE Longer(k + 1)
    OBVIOUS
  <2>2. CASE m = k + 1
    BY <1>4, <2>2
  <2>3. CASE m <= k
    <3>1. Longer(k)
      BY <1>0, <1>6, <2>1, <2>3
    <3>2. k + 1 \in 1 .. Len(ls) /\ (k + 1) - 1 = k /\ k \in 0 .. Len(ls)
      BY <1>0, <2>1
    <3>3. R[k] \in Seq(AskedLines)
      BY <1>2, <3>2
    <3>4. R[k + 1] = R[k] \/ R[k + 1] = Append(R[k], ls[k + 1])
      BY <1>1, <3>2
    <3>5. \A q \in Seq(AskedLines) : \A a :
            /\ Len(Append(q, a)) = Len(q) + 1
            /\ \A i \in 1 .. Len(q) : Append(q, a)[i] = q[i]
      OBVIOUS
    <3>6. CASE R[k + 1] = R[k]
      BY <3>1, <3>6
    <3>7. CASE R[k + 1] = Append(R[k], ls[k + 1])
      <4>1. Len(R[k + 1]) = Len(R[k]) + 1 /\ \A i \in 1 .. Len(R[k]) : R[k + 1][i] = R[k][i]
        BY <3>3, <3>5, <3>7
      <4>2. Len(R[k]) \in Nat /\ Len(R[m]) \in Nat
        BY <1>3, <3>3
      <4>3. QED
        BY <3>1, <4>1, <4>2
    <3>8. QED
      BY <3>4, <3>6, <3>7
  <2>4. QED
    BY <1>0, <2>1, <2>2, <2>3
<1>7. Nat \subseteq S
  <2> HIDE DEF S
  <2>1. QED
    BY <1>5, <1>6, Induction
<1>8. Longer(n)
  BY <1>0, <1>7
<1>9. QED
  BY <1>8 DEF R

-----------------------------------------------------------------------------
\* What is counted.

Count(T, n) == Cardinality({j \in 1 .. n : j \in T})

\* Of one number more, one more is in T or none.
LEMMA CountNext ==
  ASSUME NEW T, NEW n \in Nat
  PROVE  /\ Count(T, n) \in Nat
         /\ Count(T, n + 1) = Count(T, n) + IF n + 1 \in T THEN 1 ELSE 0
<1> DEFINE A == {j \in 1 .. n : j \in T}
           B == {j \in 1 .. n + 1 : j \in T}
<1>1. IsFiniteSet(A) /\ Cardinality(A) \in Nat
  <2>1. IsFiniteSet(1 .. n) /\ A \subseteq 1 .. n
    BY FS_Interval
  <2>2. IsFiniteSet(A)
    BY <2>1, FS_Subset
  <2>3. QED
    BY <2>2, FS_CardinalityType
<1>2. CASE n + 1 \in T
  <2>1. B = A \cup {n + 1} /\ n + 1 \notin A
    BY <1>2
  <2> HIDE DEF A, B
  <2>2. Cardinality(A \cup {n + 1}) = Cardinality(A) + 1
    BY <1>1, <2>1, FS_AddElement
  <2>3. Cardinality(B) = Cardinality(A) + 1
    BY <2>1, <2>2, Zenon
  <2>4. QED
    BY <1>1, <1>2, <2>3 DEF A, B, Count
<1>3. CASE n + 1 \notin T
  <2>1. B = A
    BY <1>3
  <2> HIDE DEF A, B
  <2>2. Cardinality(B) = Cardinality(A)
    BY <2>1, Zenon
  <2>3. QED
    BY <1>1, <1>3, <2>2 DEF A, B, Count
<1>4. QED
  BY <1>2, <1>3

\* The requests to prove; the ones a proof answers; the ones that failed.
Proves(q) == {j \in Nat : q[j].kind = "prove"}
Proved(q, a) == {j \in Proves(q) : a[j].status = "ok"}
Failed(q, a) == {j \in Proves(q) : AcceptsInputs(q[j].batch) /\ a[j].status # "ok"}

\* What a health answer says that follows the first n answers.
Counts(q, a, n) ==
  [processed |-> Count(Proves(q), n),
   succeeded |-> Count(Proved(q, a), n),
   failed    |-> Count(Failed(q, a), n)]

\* An answer more is counted.
Tally(m, line, answer) ==
  LET proves == line.kind = "prove" IN
  [processed |-> m.processed + IF proves THEN 1 ELSE 0,
   succeeded |-> m.succeeded + IF proves /\ answer.status = "ok" THEN 1 ELSE 0,
   failed    |-> m.failed + IF /\ proves /\ AcceptsInputs(line.batch)
                               /\ answer.status # "ok"
                            THEN 1 ELSE 0]

\* The first n requests and answers decide what is counted.
LEMMA CountsAgree ==
  ASSUME NEW q, NEW a, NEW r, NEW b, NEW n \in Nat,
         \A j \in 1 .. n : q[j] = r[j] /\ a[j] = b[j]
  PROVE  Counts(q, a, n) = Counts(r, b, n)
<1>1. {j \in 1 .. n : j \in Proves(q)} = {j \in 1 .. n : j \in Proves(r)}
  BY DEF Proves
<1>2. {j \in 1 .. n : j \in Proved(q, a)} = {j \in 1 .. n : j \in Proved(r, b)}
  BY DEF Proves, Proved
<1>3. {j \in 1 .. n : j \in Failed(q, a)} = {j \in 1 .. n : j \in Failed(r, b)}
  <2>1. \A j \in 1 .. n : j \in Failed(q, a) <=> j \in Failed(r, b)
    BY DEF Proves, Failed
  <2>2. QED
    BY <2>1
<1>4. /\ Count(Proves(q), n) = Count(Proves(r), n)
      /\ Count(Proved(q, a), n) = Count(Proved(r, b), n)
      /\ Count(Failed(q, a), n) = Count(Failed(r, b), n)
  BY <1>1, <1>2, <1>3, Zenon DEF Count
<1>5. QED
  BY <1>4 DEF Counts

\* One request and answer more adds to the counts what Tally adds.
LEMMA CountsNext ==
  ASSUME NEW q, NEW a, NEW n \in Nat, NEW line, q[n + 1] = line,
         NEW answer, a[n + 1] = answer
  PROVE  Counts(q, a, n + 1) = Tally(Counts(q, a, n), line, answer)
<1>1. n + 1 \in Proves(q) <=> line.kind = "prove"
  BY DEF Proves
<1>2. n + 1 \in Proved(q, a) <=> line.kind = "prove" /\ answer.status = "ok"
  BY <1>1 DEF Proved
<1>3. n + 1 \in Failed(q, a) <=> /\ line.kind = "prove" /\ AcceptsInputs(line.batch)
                                 /\ answer.status # "ok"
  BY <1>1 DEF Failed
<1>4. /\ Count(Proves(q), n + 1)
           = Count(Proves(q), n) + IF line.kind = "prove" THEN 1 ELSE 0
      /\ Count(Proved(q, a), n + 1)
           = Count(Proved(q, a), n)
               + IF line.kind = "prove" /\ answer.status = "ok" THEN 1 ELSE 0
      /\ Count(Failed(q, a), n + 1)
           = Count(Failed(q, a), n)
               + IF /\ line.kind = "prove" /\ AcceptsInputs(line.batch)
                    /\ answer.status # "ok"
                 THEN 1 ELSE 0
  BY <1>1, <1>2, <1>3, CountNext
<1>5. QED
  BY <1>4 DEF Counts, Tally

\* Nothing is counted before the first answer.
LEMMA CountsNone ==
  ASSUME NEW q, NEW a
  PROVE  Counts(q, a, 0) = [processed |-> 0, succeeded |-> 0, failed |-> 0]
<1>1. \A T : {j \in 1 .. 0 : j \in T} = {}
  OBVIOUS
<1>2. \A T : Count(T, 0) = 0
  BY <1>1, FS_EmptySet, Zenon DEF Count
<1>3. QED
  BY <1>2 DEF Counts

\* The counts are naturals.
LEMMA CountsNat ==
  ASSUME NEW q, NEW a, NEW n \in Nat
  PROVE  Counts(q, a, n) \in [processed : Nat, succeeded : Nat, failed : Nat]
BY CountNext DEF Counts

-----------------------------------------------------------------------------
\* The inductive invariant.

Working ==
  [phase : {"proving", "sleeping"}, id : Ids \cup {NoId}, batch : Batches,
   attempt : Nat, slept : Seq(0 .. U64_MAX)]

AnAnswer == UNION {Answers(line) : line \in AskedLines}

\* The requests read, and those written.
Seen == RequestsOf(lines)[read]
Asked == RequestsOf(lines)[Len(lines)]

\* What the answers so far count.
Counted == Counts(Asked, answers, Len(answers))

TypeInv ==
  /\ oneshot \in BOOLEAN /\ running \in BOOLEAN
  /\ args \in Settings
  /\ lines \in Seq(Lines)
  /\ read \in 0 .. Len(lines)
  /\ work \in {Idle} \cup Working
  /\ metrics \in [processed : Nat, succeeded : Nat, failed : Nat]
  /\ answers \in Seq(AnAnswer)
  /\ client \in {"open", "closed", "gone"}

\* Few lines are read, and at most each of them is counted.
BoundInv ==
  /\ Len(lines) <= MaxLines \/ (oneshot /\ Len(lines) = 1)
  /\ oneshot => client = "closed"
  /\ metrics.processed <= read
  /\ metrics.succeeded + metrics.failed + (IF work = Idle THEN 0 ELSE 1) <= metrics.processed

\* A request that is worked at is the last line read, and has slept before each
\* attempt as long as the backoff says.
WorkInv ==
  work # Idle =>
    /\ running /\ read > 0
    /\ lines[read].kind = "prove"
    /\ work.id = lines[read].id /\ work.batch = lines[read].batch
    /\ AcceptsInputs(work.batch)
    /\ work.attempt \in 1 .. args.max_retries
    /\ work.phase = "sleeping" => work.attempt < args.max_retries
    /\ Len(work.slept) = work.attempt - IF work.phase = "proving" THEN 1 ELSE 0
    /\ \A i \in 1 .. Len(work.slept) : work.slept[i] = backoff_delay(i)

\* Every request read is answered but the one that is worked at; a service that
\* ends on an error may leave the last one without an answer.
AnswerInv ==
  /\ Len(answers) <= Len(Seen)
  /\ running => Len(Seen) = Len(answers) + IF work = Idle THEN 0 ELSE 1

\* The metrics are what the answers count, and were at each health answer.
CountInv ==
  /\ running =>
       metrics = IF work = Idle THEN Counted
                 ELSE [Counted EXCEPT !.processed = @ + 1]
  /\ \A i \in 1 .. Len(answers) :
       "health" \in DOMAIN answers[i] =>
         answers[i].health = Counts(Asked, answers, i - 1)

ServiceInv == TypeInv /\ BoundInv /\ WorkInv /\ AnswerInv /\ CountInv

-----------------------------------------------------------------------------
\* The steps, by what becomes of the request.

\* The service answers line, which the metrics then count.
AnswersLine(line) ==
  \E answer \in Answers(line) :
    /\ Reply(answer)
    /\ metrics' = Tally(Counted, line, answer)
    /\ "health" \in DOMAIN answer => answer.health = Counted

Skips(line) ==
  /\ ~IsRequest(line)
  /\ UNCHANGED <<work, metrics, answers, running>>

Stops == Stop /\ UNCHANGED metrics

Starts(line) ==
  /\ line.kind = "prove" /\ AcceptsInputs(line.batch) /\ args.max_retries > 0
  /\ metrics' = [metrics EXCEPT !.processed = @ + 1]
  /\ work' = [phase |-> "proving", id |-> line.id, batch |-> line.batch,
              attempt |-> 1, slept |-> <<>>]
  /\ UNCHANGED <<answers, running>>

\* What the fields of a line are.
LEMMA LineFields ==
  ASSUME NEW line \in Lines
  PROVE  /\ line.kind \in {"blank", "garbled", "invalid", "health", "unbatched", "prove"}
         /\ line \in Requests <=> line.kind \in {"health", "unbatched", "prove"}
         /\ line \in Requests => line.id \in Ids \cup {NoId}
         /\ line.kind = "prove" => line.batch \in Batches
BY DEF Lines, Requests

\* Answers of each kind.
LEMMA AnswerKinds ==
  ASSUME NEW line \in Lines
  PROVE  /\ line.kind = "invalid" => Error(NoId) \in Answers(line)
         /\ line.kind \in {"unbatched", "prove"} => Error(line.id) \in Answers(line)
         /\ line.kind = "prove" /\ AcceptsInputs(line.batch) /\ Provable(line.batch) =>
              Proof(line.id, line.batch) \in Answers(line)
         /\ line.kind = "health"
              /\ metrics \in [processed : 0 .. MaxLines, succeeded : 0 .. MaxLines,
                              failed : 0 .. MaxLines] =>
              Health(line.id) \in Answers(line)
<1>1. line.kind = "invalid" => Answers(line) = {Error(NoId)}
  BY DEF Answers
<1>2. line.kind = "unbatched" => Answers(line) = {Error(line.id)}
  BY DEF Answers
<1>3. line.kind = "health" =>
        Answers(line) =
          {[id |-> line.id, status |-> "ok", health |-> counts] :
            counts \in [processed : 0 .. MaxLines, succeeded : 0 .. MaxLines,
                        failed : 0 .. MaxLines]}
  BY DEF Answers
<1>4. line.kind = "prove" =>
        Answers(line) =
          {Error(line.id)} \cup
           {answer \in {Proof(line.id, line.batch)} :
              /\ AcceptsInputs(line.batch)
              /\ answer.outputs.hash = answer.hash_committed}
  BY DEF Answers
<1>5. line.kind = "health"
        /\ metrics \in [processed : 0 .. MaxLines, succeeded : 0 .. MaxLines,
                        failed : 0 .. MaxLines] =>
        Health(line.id) \in Answers(line)
  BY <1>3, Zenon DEF Health
<1>6. Provable(line.batch) =>
        Proof(line.id, line.batch).outputs.hash = Proof(line.id, line.batch).hash_committed
  BY DEF Provable, Proof
<1>7. QED
  BY <1>1, <1>2, <1>4, <1>5, <1>6

\* The fields of each kind of answer.
LEMMA AnswerFields ==
  /\ \A id : Error(id).status # "ok" /\ "health" \notin DOMAIN Error(id)
  /\ \A id, b : Proof(id, b).status = "ok" /\ "health" \notin DOMAIN Proof(id, b)
  /\ \A id : /\ Health(id).status = "ok" /\ "health" \in DOMAIN Health(id)
             /\ Health(id).health = metrics
BY DEF Error, Proof, Health

\* What reading a line does.
LEMMA ReadLineCases ==
  ASSUME ServiceInv, ReadLine
  PROVE  LET line == lines[read + 1] IN
         /\ line \in Lines
         /\ \/ Skips(line) \/ Stops \/ Starts(line)
            \/ IsRequest(line) /\ AnswersLine(line)
<1> DEFINE line == lines[read + 1]
<1>1. /\ running /\ work = Idle /\ read < Len(lines) /\ read' = read + 1
      /\ UNCHANGED <<oneshot, args, lines, client>>
  BY DEF ReadLine
<1>2. read \in Nat /\ Len(lines) \in Nat /\ lines \in Seq(Lines)
        /\ read + 1 \in 1 .. Len(lines)
  BY <1>1 DEF ServiceInv, TypeInv
<1>3. line \in Lines
  BY <1>2
<1>4. metrics = Counted
  BY <1>1 DEF ServiceInv, CountInv
<1>5. metrics \in [processed : Nat, succeeded : Nat, failed : Nat]
  BY DEF ServiceInv, TypeInv
<1>6. \/ line.kind = "blank" /\ ~oneshot /\ UNCHANGED <<work, metrics, answers, running>>
      \/ Stop /\ UNCHANGED metrics
      \/ line.kind = "invalid" /\ Reply(Error(NoId)) /\ UNCHANGED metrics
      \/ line \in Requests /\ handle_incoming(line)
  <2> HIDE DEF line
  <2>1. QED
    BY DEF ReadLine, line
<1> HIDE DEF line
<1>a. CASE line.kind = "blank" /\ ~oneshot /\ UNCHANGED <<work, metrics, answers, running>>
  BY <1>3, <1>a DEF Skips, IsRequest, line
<1>b. CASE Stop /\ UNCHANGED metrics
  BY <1>3, <1>b DEF Stops, line
<1>c. CASE line.kind = "invalid" /\ Reply(Error(NoId)) /\ UNCHANGED metrics
  <2>1. metrics' = Tally(Counted, line, Error(NoId))
    BY <1>4, <1>5, <1>c DEF Tally
  <2>2. AnswersLine(line)
    BY <1>3, <1>c, <2>1, AnswerKinds, AnswerFields DEF AnswersLine
  <2>3. QED
    BY <1>3, <1>c, <2>2 DEF IsRequest, line
<1>d. CASE line \in Requests /\ handle_incoming(line)
  <2>0. IsRequest(line)
    BY <1>3, <1>d, LineFields DEF IsRequest
  <2>1. CASE line.kind = "health" /\ Reply(Health(line.id)) /\ UNCHANGED metrics
    <3>1. metrics' = Tally(Counted, line, Health(line.id))
      BY <1>4, <1>5, <2>1 DEF Tally
    <3>2. metrics \in [processed : 0 .. MaxLines, succeeded : 0 .. MaxLines,
                       failed : 0 .. MaxLines]
      <4>1. read <= MaxLines
        <5>1. CASE Len(lines) <= MaxLines
          BY <1>1, <1>2, <5>1, ServiceConstants
        <5>2. CASE Len(lines) = 1
          BY <1>1, <1>2, <5>2, ServiceConstants
        <5>3. QED
          BY <5>1, <5>2 DEF ServiceInv, BoundInv
      <4>2. metrics.processed <= read /\ metrics.succeeded + metrics.failed <= metrics.processed
        BY <1>1, <1>5 DEF ServiceInv, BoundInv
      <4>3. QED
        BY <1>2, <1>5, <4>1, <4>2, ServiceConstants
    <3>3. Health(line.id) \in Answers(line)
      BY <1>3, <2>1, <3>2, AnswerKinds
    <3>4. AnswersLine(line)
      BY <1>4, <2>1, <3>1, <3>3, AnswerFields DEF AnswersLine
    <3>5. QED
      BY <1>3, <2>0, <3>4 DEF line
  <2>2. CASE line.kind = "unbatched" /\ Reply(Error(line.id)) /\ UNCHANGED metrics
    <3>1. metrics' = Tally(Counted, line, Error(line.id))
      BY <1>4, <1>5, <2>2 DEF Tally
    <3>2. AnswersLine(line)
      BY <1>3, <2>2, <3>1, AnswerKinds, AnswerFields DEF AnswersLine
    <3>3. QED
      BY <1>3, <2>0, <3>2 DEF line
  <2>3. CASE line.kind = "prove" /\ StartProving(line)
    <3> DEFINE counted == [metrics EXCEPT !.processed = @ + 1]
    <3>1. \/ ~AcceptsInputs(line.batch) /\ metrics' = counted /\ Reply(Error(line.id))
          \/ AcceptsInputs(line.batch) /\ metrics' = CountFailure(counted)
               /\ Reply(Error(line.id))
          \/ Starts(line)
      BY <2>3 DEF StartProving, Starts
    <3>2. CASE ~AcceptsInputs(line.batch) /\ metrics' = counted /\ Reply(Error(line.id))
      <4>1. metrics' = Tally(Counted, line, Error(line.id))
        BY <1>4, <1>5, <2>3, <3>2, AnswerFields DEF Tally
      <4>2. AnswersLine(line)
        BY <1>3, <2>3, <3>2, <4>1, AnswerKinds, AnswerFields DEF AnswersLine
      <4>3. QED
        BY <1>3, <2>0, <4>2 DEF line
    <3>3. CASE AcceptsInputs(line.batch) /\ metrics' = CountFailure(counted)
                 /\ Reply(Error(line.id))
      <4>1. metrics' = Tally(Counted, line, Error(line.id))
        <5>1. metrics' = [processed |-> metrics.processed + 1,
                          succeeded |-> metrics.succeeded,
                          failed    |-> metrics.failed + 1]
          BY <1>5, <3>3 DEF CountFailure
        <5>2. QED
          BY <1>4, <1>5, <2>3, <3>3, <5>1, AnswerFields DEF Tally
      <4>2. AnswersLine(line)
        BY <1>3, <2>3, <3>3, <4>1, AnswerKinds, AnswerFields DEF AnswersLine
      <4>3. QED
        BY <1>3, <2>0, <4>2 DEF line
    <3>4. QED
      BY <1>3, <3>1, <3>2, <3>3 DEF line
  <2>4. QED
    BY <1>d, <2>1, <2>2, <2>3 DEF handle_incoming
<1>7. QED
  BY <1>6, <1>a, <1>b, <1>c, <1>d

\* What the last attempt does.
LEMMA AttemptAnswers ==
  ASSUME ServiceInv, AttemptSucceeds \/ (AttemptFails /\ ~MayRetry)
  PROVE  AnswersLine(lines[read]) /\ work # Idle
<1>1. running /\ work.phase = "proving"
  BY DEF AttemptSucceeds, AttemptFails
<1>2. work # Idle
  BY <1>1 DEF Idle
<1> DEFINE line == lines[read]
<1>3. line.kind = "prove" /\ work.id = line.id /\ work.batch = line.batch
        /\ AcceptsInputs(line.batch)
  BY <1>2 DEF ServiceInv, WorkInv
<1>4. line \in Lines
  BY <1>2 DEF ServiceInv, WorkInv, TypeInv
<1>5. Counted \in [processed : Nat, succeeded : Nat, failed : Nat]
        /\ metrics = [Counted EXCEPT !.processed = @ + 1]
  BY <1>1, <1>2, CountsNat DEF ServiceInv, TypeInv, CountInv, Counted
<1> HIDE DEF line
<1>6. CASE AttemptSucceeds
  <2>1. metrics' = [metrics EXCEPT !.succeeded = @ + 1] /\ Reply(Proof(line.id, line.batch))
          /\ Provable(line.batch)
    BY <1>3, <1>6 DEF AttemptSucceeds
  <2>2. metrics' = Tally(Counted, line, Proof(line.id, line.batch))
    <3>1. metrics' = [processed |-> Counted.processed + 1,
                      succeeded |-> Counted.succeeded + 1,
                      failed    |-> Counted.failed]
      BY <1>5, <2>1
    <3>2. QED
      BY <1>3, <1>5, <3>1, AnswerFields DEF Tally
  <2>3. Proof(line.id, line.batch) \in Answers(line)
    BY <1>3, <1>4, <2>1, AnswerKinds
  <2>4. AnswersLine(line)
    BY <2>1, <2>2, <2>3, AnswerFields DEF AnswersLine
  <2>5. QED
    BY <1>2, <2>4 DEF line
<1>7. CASE AttemptFails /\ ~MayRetry
  <2>1. metrics' = CountFailure(metrics) /\ Reply(Error(line.id))
    BY <1>3, <1>7 DEF AttemptFails
  <2>2. metrics' = Tally(Counted, line, Error(line.id))
    <3>1. metrics' = [processed |-> Counted.processed + 1,
                      succeeded |-> Counted.succeeded,
                      failed    |-> Counted.failed + 1]
      BY <1>5, <2>1 DEF CountFailure
    <3>2. QED
      BY <1>3, <1>5, <3>1, AnswerFields DEF Tally
  <2>3. Error(line.id) \in Answers(line)
    BY <1>3, <1>4, AnswerKinds
  <2>4. AnswersLine(line)
    BY <2>1, <2>2, <2>3, AnswerFields DEF AnswersLine
  <2>5. QED
    BY <1>2, <2>4 DEF line
<1>8. QED
  BY <1>6, <1>7

-----------------------------------------------------------------------------
\* Each step keeps the invariant.

\* What the invariant says of lengths and of the requests read.
LEMMA Basics ==
  ASSUME ServiceInv
  PROVE  /\ read \in Nat /\ Len(lines) \in Nat /\ read <= Len(lines)
         /\ Len(answers) \in Nat /\ answers \in Seq(AnAnswer)
         /\ Seen \in Seq(AskedLines) /\ Asked \in Seq(AskedLines)
         /\ Len(Seen) \in Nat /\ Len(Asked) \in Nat
         /\ Len(answers) <= Len(Seen) /\ Len(Seen) <= Len(Asked)
         /\ \A i \in 1 .. Len(Seen) : Asked[i] = Seen[i]
<1>1. /\ lines \in Seq(Lines) /\ read \in 0 .. Len(lines) /\ answers \in Seq(AnAnswer)
      /\ Len(answers) <= Len(Seen)
  BY DEF ServiceInv, TypeInv, AnswerInv
<1>2. Len(lines) \in Nat /\ Len(lines) \in 0 .. Len(lines) /\ Len(answers) \in Nat
  BY <1>1
<1>3. Seen \in Seq(AskedLines) /\ Asked \in Seq(AskedLines)
  BY <1>1, <1>2, RequestsSteps DEF Seen, Asked
<1>4. Len(Seen) <= Len(Asked) /\ \A i \in 1 .. Len(Seen) : Asked[i] = Seen[i]
  BY <1>1, <1>2, RequestsPrefix DEF Seen, Asked
<1>5. Len(Seen) \in Nat /\ Len(Asked) \in Nat
  BY <1>3
<1>6. QED
  BY <1>1, <1>2, <1>3, <1>4, <1>5

\* The request that a further line is, is the last one among the lines up to it.
LEMMA ReadMore ==
  ASSUME ServiceInv, NEW n \in 1 .. Len(lines), IsRequest(lines[n])
  PROVE  LET q == RequestsOf(lines)[n]
             k == Len(RequestsOf(lines)[n - 1]) + 1
         IN Len(q) = k /\ q[k] = lines[n] /\ k <= Len(Asked) /\ Asked[k] = lines[n]
<1> DEFINE p == RequestsOf(lines)[n - 1]
           q == RequestsOf(lines)[n]
           k == Len(RequestsOf(lines)[n - 1]) + 1
<1>1. lines \in Seq(Lines) /\ Len(lines) \in Nat
  BY Basics DEF ServiceInv, TypeInv
<1>2. q = Append(p, lines[n])
  BY <1>1, RequestsSteps
<1>3. p \in Seq(AskedLines) /\ q \in Seq(AskedLines)
  <2>1. n - 1 \in 0 .. Len(lines) /\ n \in 0 .. Len(lines)
    BY <1>1
  <2>2. QED
    BY <1>1, <2>1, RequestsSteps
<1>4. Len(q) <= Len(Asked) /\ \A i \in 1 .. Len(q) : Asked[i] = q[i]
  <2>1. Len(lines) \in 0 .. Len(lines) /\ n \in 0 .. Len(lines)
    BY <1>1
  <2>2. QED
    BY <1>1, <2>1, RequestsPrefix DEF Asked
<1> HIDE DEF p, q
<1>5. Len(q) = Len(p) + 1 /\ q[Len(p) + 1] = lines[n] /\ Len(p) \in Nat
  BY <1>2, <1>3
<1>6. QED
  BY <1>4, <1>5 DEF p, q

\* What is counted of the answers there are stays when one is added.
LEMMA CountedOnAnswer ==
  ASSUME ServiceInv, NEW line, NEW answer,
         Asked[Len(answers) + 1] = line,
         lines' = lines, answers' = Append(answers, answer), answer \in AnAnswer
  PROVE  /\ Asked' = Asked
         /\ Len(answers') = Len(answers) + 1
         /\ answers'[Len(answers) + 1] = answer
         /\ \A i \in 1 .. Len(answers) : answers'[i] = answers[i]
         /\ \A i \in 1 .. Len(answers) + 1 :
              Counts(Asked, answers', i - 1) = Counts(Asked, answers, i - 1)
         /\ Counted' = Tally(Counted, line, answer)
<1>1. answers \in Seq(AnAnswer) /\ Len(answers) \in Nat
  BY Basics
<1>2. Asked' = Asked
  BY DEF Asked
<1>3. /\ Len(answers') = Len(answers) + 1
      /\ answers'[Len(answers) + 1] = answer
      /\ \A i \in 1 .. Len(answers) : answers'[i] = answers[i]
  BY <1>1
<1> DEFINE a == answers
           b == answers'
           n == Len(answers)
           q == Asked
<1>4. ASSUME NEW i \in 1 .. n + 1
      PROVE  Counts(q, b, i - 1) = Counts(q, a, i - 1)
  <2>1. i - 1 \in Nat /\ \A j \in 1 .. i - 1 : b[j] = a[j]
    BY <1>1, <1>3
  <2> HIDE DEF a, b, q
  <2>2. QED
    BY <2>1, CountsAgree
<1>5. Counts(q, b, n + 1) = Tally(Counts(q, b, n), line, answer)
  <2>1. n \in Nat /\ q[n + 1] = line /\ b[n + 1] = answer
    BY <1>1, <1>3
  <2> HIDE DEF b, q, n
  <2>2. QED
    BY <2>1, CountsNext
<1>6. Counts(q, b, n) = Counted
  <2>1. n + 1 \in 1 .. n + 1 /\ (n + 1) - 1 = n
    BY <1>1
  <2>2. Counts(q, b, n) = Counts(q, a, n)
    <3> HIDE DEF a, b, q, n
    <3>1. QED
      BY <1>4, <2>1
  <2>3. QED
    BY <2>2 DEF Counted
<1>7. Counted' = Counts(q, b, n + 1)
  BY <1>2, <1>3 DEF Counted
<1>8. Counted' = Tally(Counted, line, answer)
  BY <1>5, <1>6, <1>7, Zenon
<1>9. QED
  BY <1>2, <1>3, <1>4, <1>8

\* An answer to the request whose turn it is.
LEMMA AnswerKeeps ==
  ASSUME ServiceInv, NEW line \in AskedLines, AnswersLine(line), running,
         UNCHANGED <<oneshot, args, lines, client>>,
         read' \in read .. Len(lines), work = Idle => read < read',
         Len(Seen') = Len(answers) + 1,
         Len(answers) < Len(Asked), Asked[Len(answers) + 1] = line
  PROVE  ServiceInv'
<1>1. PICK answer \in Answers(line) :
         /\ Reply(answer)
         /\ metrics' = Tally(Counted, line, answer)
         /\ "health" \in DOMAIN answer => answer.health = Counted
  BY DEF AnswersLine
<1>2. answer \in AnAnswer
  BY DEF AnAnswer
<1>3. work' = Idle
  BY <1>1 DEF Reply
<1>4. Counted \in [processed : Nat, succeeded : Nat, failed : Nat]
  BY Basics, CountsNat DEF Counted
<1>5. metrics' \in [processed : Nat, succeeded : Nat, failed : Nat]
  BY <1>1, <1>4 DEF Tally
<1>6. \/ running' = FALSE /\ answers' = answers
      \/ answers' = Append(answers, answer) /\ running' = ~oneshot
  BY <1>1 DEF Reply
<1>7. TypeInv'
  <2>1. answers' \in Seq(AnAnswer) /\ running' \in BOOLEAN
    <3>1. answers \in Seq(AnAnswer) /\ oneshot \in BOOLEAN
      BY DEF ServiceInv, TypeInv
    <3>2. running' \in BOOLEAN
      BY <1>6, <3>1, Zenon
    <3>3. answers' \in Seq(AnAnswer)
      BY <1>2, <1>6, <3>1
    <3>4. QED
      BY <3>2, <3>3
  <2>2. read' \in 0 .. Len(lines')
    BY Basics
  <2>3. QED
    BY <1>3, <1>5, <2>1, <2>2 DEF ServiceInv, TypeInv
<1>8. BoundInv'
  <2>1. Counted.processed + 1 <= read'
    <3>1. metrics.processed <= read /\ metrics.processed \in Nat /\ read \in Nat /\ read' \in Nat
            /\ read <= read'
      BY Basics DEF ServiceInv, TypeInv, BoundInv
    <3>2. CASE work = Idle
      <4>1. Counted = metrics
        BY <3>2 DEF ServiceInv, CountInv
      <4>2. QED
        BY <3>1, <3>2, <4>1
    <3>3. CASE work # Idle
      <4>1. Counted.processed + 1 = metrics.processed
        BY <1>4, <3>3 DEF ServiceInv, CountInv
      <4>2. QED
        BY <3>1, <4>1
    <3>4. QED
      BY <3>2, <3>3
  <2>2. Counted.succeeded + Counted.failed <= Counted.processed
    <3>1. CASE work = Idle
      <4>1. Counted = metrics
        BY <3>1 DEF ServiceInv, CountInv
      <4>2. QED
        BY <1>4, <3>1, <4>1 DEF ServiceInv, BoundInv
    <3>2. CASE work # Idle
      <4>1. metrics.succeeded + metrics.failed + 1 <= metrics.processed
        BY <3>2 DEF ServiceInv, BoundInv
      <4>2. /\ Counted.processed + 1 = metrics.processed
            /\ Counted.succeeded = metrics.succeeded
            /\ Counted.failed = metrics.failed
        BY <1>4, <3>2 DEF ServiceInv, CountInv
      <4>3. QED
        BY <1>4, <4>1, <4>2
    <3>3. QED
      BY <3>1, <3>2
  <2>3. \/ /\ metrics'.processed = Counted.processed + 1
           /\ metrics'.succeeded + metrics'.failed <= Counted.succeeded + Counted.failed + 1
        \/ /\ metrics'.processed = Counted.processed
           /\ metrics'.succeeded + metrics'.failed = Counted.succeeded + Counted.failed
    <3>1. CASE line.kind = "prove"
      BY <1>1, <1>4, <3>1 DEF Tally
    <3>2. CASE line.kind # "prove"
      BY <1>1, <1>4, <3>2 DEF Tally
    <3>3. QED
      BY <3>1, <3>2
  <2>4. metrics'.processed <= read'
    BY <1>4, <2>1, <2>3, Basics
  <2>5. metrics'.succeeded + metrics'.failed <= metrics'.processed
    BY <1>4, <1>5, <2>2, <2>3
  <2>6. metrics'.succeeded + metrics'.failed
           + (IF work' = Idle THEN 0 ELSE 1) <= metrics'.processed
    BY <1>3, <1>5, <2>5
  <2>7. (Len(lines') <= MaxLines \/ (oneshot' /\ Len(lines') = 1))
          /\ (oneshot' => client' = "closed")
    BY DEF ServiceInv, BoundInv
  <2>8. QED
    BY <2>4, <2>6, <2>7 DEF BoundInv
<1>9. WorkInv'
  BY <1>3 DEF WorkInv
<1>10. AnswerInv' /\ CountInv'
  <2>1. CASE running' = FALSE /\ answers' = answers
    <3>1. Asked' = Asked
      BY DEF Asked
    <3>2. AnswerInv'
      BY <2>1, Basics DEF AnswerInv
    <3>3. CountInv'
      BY <2>1, <3>1 DEF ServiceInv, CountInv
    <3>4. QED
      BY <3>2, <3>3
  <2>2. CASE answers' = Append(answers, answer)
    <3>1. /\ Asked' = Asked
          /\ Len(answers') = Len(answers) + 1
          /\ answers'[Len(answers) + 1] = answer
          /\ \A i \in 1 .. Len(answers) : answers'[i] = answers[i]
          /\ \A i \in 1 .. Len(answers) + 1 :
               Counts(Asked, answers', i - 1) = Counts(Asked, answers, i - 1)
          /\ Counted' = Tally(Counted, line, answer)
      BY <1>2, <2>2, CountedOnAnswer
    <3>2. AnswerInv'
      <4>1. Len(answers') = Len(Seen')
        BY <3>1
      <4>2. QED
        BY <1>3, <4>1, Basics DEF AnswerInv
    <3>3. ASSUME NEW i \in 1 .. Len(answers'), "health" \in DOMAIN answers'[i]
          PROVE  answers'[i].health = Counts(Asked', answers', i - 1)
      <4>1. i \in 1 .. Len(answers) + 1 /\ Len(answers) \in Nat
        BY <3>1, Basics
      <4>2. CASE i <= Len(answers)
        <5>1. answers'[i] = answers[i] /\ i \in 1 .. Len(answers)
          BY <3>1, <4>1, <4>2
        <5>2. answers[i].health = Counts(Asked, answers, i - 1)
          BY <3>3, <5>1 DEF ServiceInv, CountInv
        <5>3. QED
          BY <3>1, <4>1, <5>1, <5>2
      <4>3. CASE i = Len(answers) + 1
        <5>1. answers'[i] = answer /\ answer.health = Counted
          BY <1>1, <3>1, <3>3, <4>3
        <5>2. Counts(Asked, answers', i - 1) = Counts(Asked, answers, i - 1)
          BY <3>1, <4>1
        <5>3. i - 1 = Len(answers)
          BY <4>1, <4>3
        <5>4. QED
          BY <3>1, <5>1, <5>2, <5>3 DEF Counted
      <4>4. QED
        BY <4>1, <4>2, <4>3
    <3>4. metrics' = Counted'
      BY <1>1, <3>1
    <3>5. CountInv'
      BY <1>3, <3>3, <3>4 DEF CountInv
    <3>6. QED
      BY <3>2, <3>5
  <2>3. QED
    BY <1>6, <2>1, <2>2
<1>11. QED
  BY <1>7, <1>8, <1>9, <1>10 DEF ServiceInv

\* No answer is written and no line sent.
LEMMA SameAnswers ==
  ASSUME ServiceInv, lines' = lines, answers' = answers
  PROVE  /\ Asked' = Asked /\ Counted' = Counted
         /\ \A i \in 1 .. Len(answers') :
              "health" \in DOMAIN answers'[i] =>
                answers'[i].health = Counts(Asked', answers', i - 1)
<1>1. Asked' = Asked
  BY DEF Asked
<1>2. Counted' = Counted
  BY <1>1 DEF Counted
<1>3. QED
  BY <1>1, <1>2 DEF ServiceInv, CountInv

\* A line that is no request.
LEMMA SkipKeeps ==
  ASSUME ServiceInv, ReadLine, Skips(lines[read + 1])
  PROVE  ServiceInv'
<1>1. /\ running /\ work = Idle /\ read < Len(lines) /\ read' = read + 1
      /\ UNCHANGED <<oneshot, args, lines, client, work, metrics, answers, running>>
      /\ ~IsRequest(lines[read + 1])
  BY DEF ReadLine, Skips
<1>2. TypeInv'
  BY <1>1, Basics DEF ServiceInv, TypeInv
<1>3. BoundInv'
  <2>1. metrics.processed \in Nat /\ read \in Nat
    BY Basics DEF ServiceInv, TypeInv
  <2>2. metrics'.processed <= read'
    BY <1>1, <2>1 DEF ServiceInv, BoundInv
  <2>3. QED
    BY <1>1, <2>2 DEF ServiceInv, BoundInv
<1>4. WorkInv'
  BY <1>1 DEF WorkInv
<1>5. Seen' = Seen
  <2>a. lines \in Seq(Lines)
    BY DEF ServiceInv, TypeInv
  <2>b. read \in Nat /\ Len(lines) \in Nat
    BY Basics
  <2>1. lines \in Seq(Lines) /\ read + 1 \in 1 .. Len(lines) /\ (read + 1) - 1 = read
    BY <1>1, <2>a, <2>b
  <2>2. RequestsOf(lines)[read + 1] = RequestsOf(lines)[read]
    BY <1>1, <2>1, RequestsSteps
  <2>3. QED
    BY <1>1, <2>2 DEF Seen
<1>6. AnswerInv'
  BY <1>1, <1>5 DEF ServiceInv, AnswerInv
<1>7. CountInv'
  BY <1>1, SameAnswers DEF ServiceInv, CountInv
<1>8. QED
  BY <1>2, <1>3, <1>4, <1>6, <1>7 DEF ServiceInv

\* A line that ends the service.
LEMMA StopKeeps ==
  ASSUME ServiceInv, ReadLine, Stops
  PROVE  ServiceInv'
<1>1. /\ running /\ work = Idle /\ read < Len(lines) /\ read' = read + 1
      /\ running' = FALSE
      /\ UNCHANGED <<oneshot, args, lines, client, work, metrics, answers>>
  BY DEF ReadLine, Stops, Stop
<1>2. TypeInv'
  <2>1. running' \in BOOLEAN
    BY <1>1
  <2>2. read' \in 0 .. Len(lines')
    BY <1>1, Basics
  <2>3. QED
    BY <1>1, <2>1, <2>2 DEF ServiceInv, TypeInv
<1>3. BoundInv'
  <2>1. metrics.processed \in Nat /\ read \in Nat
    BY Basics DEF ServiceInv, TypeInv
  <2>2. metrics'.processed <= read'
    BY <1>1, <2>1 DEF ServiceInv, BoundInv
  <2>3. QED
    BY <1>1, <2>2 DEF ServiceInv, BoundInv
<1>4. WorkInv'
  BY <1>1 DEF WorkInv
<1>5. AnswerInv'
  <2>1. Len(Seen) <= Len(Seen')
    <3>1. lines \in Seq(Lines) /\ read + 1 \in 0 .. Len(lines) /\ read \in 0 .. read + 1
      BY <1>1, Basics DEF ServiceInv, TypeInv
    <3>2. Len(RequestsOf(lines)[read]) <= Len(RequestsOf(lines)[read + 1])
      BY <3>1, RequestsPrefix
    <3>3. QED
      BY <1>1, <3>2 DEF Seen
  <2>2. Seen' \in Seq(AskedLines)
    <3>1. lines \in Seq(Lines) /\ read + 1 \in 0 .. Len(lines)
      BY <1>1, Basics DEF ServiceInv, TypeInv
    <3>2. RequestsOf(lines)[read + 1] \in Seq(AskedLines)
      BY <3>1, RequestsSteps
    <3>3. QED
      BY <1>1, <3>2 DEF Seen
  <2>3. Len(Seen') \in Nat
    BY <2>2
  <2>4. QED
    BY <1>1, <2>1, <2>3, Basics DEF AnswerInv
<1>6. CountInv'
  BY <1>1, SameAnswers DEF CountInv
<1>7. QED
  BY <1>2, <1>3, <1>4, <1>5, <1>6 DEF ServiceInv

\* Reading a request and answering it at once.
LEMMA ReadAnswerKeeps ==
  ASSUME ServiceInv, ReadLine, lines[read + 1] \in Lines,
         IsRequest(lines[read + 1]), AnswersLine(lines[read + 1])
  PROVE  /\ ServiceInv'
         /\ Len(answers) < Len(Asked) /\ Asked[Len(answers) + 1] = lines[read + 1]
<1> DEFINE line == lines[read + 1]
<1>1. /\ running /\ work = Idle /\ read < Len(lines) /\ read' = read + 1
      /\ UNCHANGED <<oneshot, args, lines, client>>
  BY DEF ReadLine
<1>2. read + 1 \in 1 .. Len(lines) /\ (read + 1) - 1 = read
        /\ Len(answers) \in Nat /\ Len(Asked) \in Nat /\ read \in Nat
  BY <1>1, Basics
<1>3. Len(Seen) = Len(answers)
  BY <1>1, Basics DEF ServiceInv, AnswerInv
<1>4. /\ Len(RequestsOf(lines)[read + 1]) = Len(Seen) + 1
      /\ Len(Seen) + 1 <= Len(Asked) /\ Asked[Len(Seen) + 1] = line
  BY <1>2, ReadMore DEF Seen
<1>5. Len(Seen') = Len(answers) + 1
  BY <1>1, <1>3, <1>4 DEF Seen
<1>6. Len(answers) < Len(Asked) /\ Asked[Len(answers) + 1] = line
  BY <1>2, <1>3, <1>4
<1>7. line \in AskedLines
  BY DEF AskedLines
<1>8. read' \in read .. Len(lines) /\ read < read'
  BY <1>1, <1>2
<1> HIDE DEF line
<1>9. ServiceInv'
  <2>1. AnswersLine(line)
    BY DEF line
  <2>2. QED
    BY <1>1, <1>5, <1>6, <1>7, <1>8, <2>1, AnswerKeeps
<1>10. QED
  BY <1>6, <1>9 DEF line

\* The answer to a request that was worked at.
LEMMA AttemptAnswerKeeps ==
  ASSUME ServiceInv, AttemptSucceeds \/ (AttemptFails /\ ~MayRetry)
  PROVE  /\ ServiceInv'
         /\ lines[read] \in Lines /\ IsRequest(lines[read])
         /\ Len(answers) < Len(Asked) /\ Asked[Len(answers) + 1] = lines[read]
<1> DEFINE line == lines[read]
<1>1. AnswersLine(line) /\ work # Idle
  BY AttemptAnswers
<1>2. running /\ UNCHANGED <<oneshot, args, lines, read, client>>
  BY DEF AttemptSucceeds, AttemptFails
<1>3. read \in 1 .. Len(lines) /\ line \in Lines /\ line.kind = "prove"
        /\ Len(answers) \in Nat /\ Len(Asked) \in Nat
  BY <1>1, Basics DEF ServiceInv, WorkInv, TypeInv
<1>4. IsRequest(line)
  BY <1>3 DEF IsRequest
<1>5. Len(Seen) = Len(answers) + 1
  BY <1>1, <1>2 DEF ServiceInv, AnswerInv
<1>6. Len(Seen) <= Len(Asked) /\ Asked[Len(Seen)] = line
  BY <1>3, <1>4, ReadMore DEF Seen
<1>7. Len(answers) < Len(Asked) /\ Asked[Len(answers) + 1] = line
  BY <1>3, <1>5, <1>6
<1>8. line \in AskedLines /\ read' \in read .. Len(lines) /\ Len(Seen') = Len(answers) + 1
  BY <1>2, <1>3, <1>4, <1>5 DEF AskedLines, Seen
<1> HIDE DEF line
<1>9. ServiceInv'
  BY <1>1, <1>2, <1>7, <1>8, AnswerKeeps
<1>10. QED
  BY <1>3, <1>4, <1>7, <1>9 DEF line

\* Reading a request that is worked at.
LEMMA StartKeeps ==
  ASSUME ServiceInv, ReadLine, lines[read + 1] \in Lines, Starts(lines[read + 1])
  PROVE  ServiceInv'
<1> DEFINE line == lines[read + 1]
<1>1. /\ running /\ work = Idle /\ read < Len(lines) /\ read' = read + 1
      /\ UNCHANGED <<oneshot, args, lines, client, answers, running>>
      /\ metrics' = [metrics EXCEPT !.processed = @ + 1]
      /\ work' = [phase |-> "proving", id |-> line.id, batch |-> line.batch,
                  attempt |-> 1, slept |-> <<>>]
      /\ line.kind = "prove" /\ AcceptsInputs(line.batch) /\ args.max_retries > 0
  BY DEF ReadLine, Starts
<1>2. read + 1 \in 1 .. Len(lines) /\ (read + 1) - 1 = read
        /\ Len(answers) \in Nat /\ Len(Asked) \in Nat /\ read \in Nat
  BY <1>1, Basics
<1>3. line.id \in Ids \cup {NoId} /\ line.batch \in Batches /\ IsRequest(line)
  BY <1>1, LineFields DEF IsRequest
<1>4. work' \in Working /\ work' # Idle
  <2>1. <<>> \in Seq(0 .. U64_MAX)
    OBVIOUS
  <2> HIDE DEF line
  <2>2. QED
    BY <1>1, <1>3, <2>1 DEF Working, Idle
<1>5. metrics \in [processed : Nat, succeeded : Nat, failed : Nat]
  BY DEF ServiceInv, TypeInv
<1>6. TypeInv'
  <2>1. read' \in 0 .. Len(lines')
    BY <1>1, <1>2
  <2>2. metrics' \in [processed : Nat, succeeded : Nat, failed : Nat]
    BY <1>1, <1>5
  <2> HIDE DEF line
  <2>3. QED
    BY <1>1, <1>4, <2>1, <2>2 DEF ServiceInv, TypeInv
<1>7. BoundInv'
  <2>1. metrics.processed <= read /\ metrics.succeeded + metrics.failed <= metrics.processed
    BY <1>1, <1>5 DEF ServiceInv, BoundInv
  <2>2. /\ metrics'.processed = metrics.processed + 1
        /\ metrics'.succeeded = metrics.succeeded /\ metrics'.failed = metrics.failed
    BY <1>1, <1>5
  <2>3. metrics'.processed <= read'
    BY <1>1, <1>2, <1>5, <2>1, <2>2
  <2>4. metrics'.succeeded + metrics'.failed
          + (IF work' = Idle THEN 0 ELSE 1) <= metrics'.processed
    BY <1>4, <1>5, <2>1, <2>2
  <2>5. QED
    BY <1>1, <2>3, <2>4 DEF ServiceInv, BoundInv
<1>8. WorkInv'
  <2>1. /\ work'.id = line.id /\ work'.batch = line.batch /\ work'.attempt = 1
        /\ work'.slept = <<>> /\ work'.phase = "proving"
    BY <1>1
  <2>2. args'.max_retries \in Nat /\ args'.max_retries > 0
    BY <1>1, ServiceConstants DEF ServiceInv, TypeInv
  <2>3. lines'[read'] = line
    BY <1>1
  <2> HIDE DEF line
  <2>4. QED
    BY <1>1, <1>2, <2>1, <2>2, <2>3 DEF WorkInv
<1>9. AnswerInv'
  <2>1. Len(Seen) = Len(answers)
    BY <1>1, Basics DEF ServiceInv, AnswerInv
  <2>2. Len(RequestsOf(lines)[read + 1]) = Len(Seen) + 1
    BY <1>2, <1>3, ReadMore DEF Seen
  <2>3. Len(Seen') = Len(answers') + 1
    BY <1>1, <2>1, <2>2 DEF Seen
  <2>4. QED
    BY <1>1, <1>2, <1>4, <2>3 DEF AnswerInv
<1>10. CountInv'
  <2>1. metrics = Counted
    BY <1>1 DEF ServiceInv, CountInv
  <2>2. metrics' = [Counted' EXCEPT !.processed = @ + 1]
    BY <1>1, <2>1, SameAnswers
  <2>3. QED
    BY <1>1, <1>4, <2>2, SameAnswers DEF CountInv
<1>11. QED
  BY <1>6, <1>7, <1>8, <1>9, <1>10 DEF ServiceInv

\* A delay is the same as long as the settings are.
LEMMA SameDelays ==
  ASSUME args' = args
  PROVE  \A i : backoff_delay(i)' = backoff_delay(i)
BY DEF backoff_delay

\* A step of the work that writes nothing.
LEMMA WorkKeeps ==
  ASSUME ServiceInv, work # Idle, work' \in Working,
         work'.id = work.id, work'.batch = work.batch,
         work'.attempt \in 1 .. args.max_retries,
         work'.phase = "sleeping" => work'.attempt < args.max_retries,
         Len(work'.slept) = work'.attempt - IF work'.phase = "proving" THEN 1 ELSE 0,
         \A i \in 1 .. Len(work'.slept) : work'.slept[i] = backoff_delay(i),
         UNCHANGED <<oneshot, args, lines, read, metrics, answers, client, running>>
  PROVE  ServiceInv'
<1>1. work' # Idle
  BY DEF Working, Idle
<1>2. TypeInv'
  BY DEF ServiceInv, TypeInv
<1>3. BoundInv'
  BY <1>1 DEF ServiceInv, BoundInv
<1>4. WorkInv'
  <2>1. \A i \in 1 .. Len(work'.slept) : work'.slept[i] = backoff_delay(i)'
    BY SameDelays
  <2>2. QED
    BY <2>1 DEF ServiceInv, WorkInv
<1>5. Seen' = Seen
  BY DEF Seen
<1>6. AnswerInv'
  BY <1>1, <1>5 DEF ServiceInv, AnswerInv
<1>7. CountInv'
  BY <1>1, SameAnswers DEF ServiceInv, CountInv
<1>8. QED
  BY <1>2, <1>3, <1>4, <1>6, <1>7 DEF ServiceInv

\* A failed attempt that is not the last.
LEMMA RetryKeeps ==
  ASSUME ServiceInv, AttemptFails, MayRetry
  PROVE  ServiceInv'
<1>1. /\ running /\ work.phase = "proving"
      /\ work' = [work EXCEPT !.phase = "sleeping",
                              !.slept = Append(@, backoff_delay(work.attempt))]
      /\ UNCHANGED <<oneshot, args, lines, read, metrics, answers, client, running>>
  BY DEF AttemptFails
<1>2. work # Idle /\ work \in Working
  BY <1>1 DEF Idle, ServiceInv, TypeInv
<1>3. work.attempt \in 1 .. args.max_retries /\ Len(work.slept) = work.attempt - 1
        /\ \A i \in 1 .. Len(work.slept) : work.slept[i] = backoff_delay(i)
  BY <1>1, <1>2 DEF ServiceInv, WorkInv
<1>4. args \in Settings /\ args.max_retries \in Nat
  BY ServiceConstants DEF ServiceInv, TypeInv
<1> DEFINE d == backoff_delay(work.attempt)
           s == work.slept
           k == work.attempt
<1>5. d \in 0 .. U64_MAX
  <2>1. work.attempt \in Nat \ {0} /\ work.attempt \in 1 .. work.attempt
    BY <1>3, <1>4
  <2>2. QED
    BY <1>4, <2>1, DelayGrows
<1>6. s \in Seq(0 .. U64_MAX) /\ k \in Nat
  BY <1>2 DEF Working
<1>7. /\ work'.id = work.id /\ work'.batch = work.batch /\ work'.attempt = k
      /\ work'.phase = "sleeping" /\ work'.slept = Append(s, d)
      /\ work' = [work EXCEPT !.phase = "sleeping", !.slept = Append(s, d)]
  BY <1>1, <1>2 DEF Working
<1>a. d = backoff_delay(k)
  OBVIOUS
<1> HIDE DEF d
<1>8. Append(s, d) \in Seq(0 .. U64_MAX)
  BY <1>5, <1>6
<1>9. work' \in Working
  <2> HIDE DEF s, k
  <2>1. QED
    BY <1>2, <1>7, <1>8 DEF Working
<1>10. Len(Append(s, d)) = k
  BY <1>3, <1>6
<1>11. ASSUME NEW i \in 1 .. k
       PROVE  Append(s, d)[i] = backoff_delay(i)
  <2>1. CASE i <= Len(s)
    <3>1. i \in 1 .. Len(s) /\ Append(s, d)[i] = s[i]
      BY <1>6, <2>1
    <3>2. QED
      BY <1>3, <3>1
  <2>2. CASE i = Len(s) + 1
    <3>1. Append(s, d)[i] = d /\ i = k
      BY <1>3, <1>6, <2>2
    <3>2. QED
      BY <1>a, <3>1
  <2>3. QED
    BY <1>3, <1>6, <2>1, <2>2
<1>12. Len(work'.slept) = work'.attempt - IF work'.phase = "proving" THEN 1 ELSE 0
  BY <1>6, <1>7, <1>10
<1>13. \A i \in 1 .. Len(work'.slept) : work'.slept[i] = backoff_delay(i)
  BY <1>7, <1>10, <1>11
<1>14. QED
  <2>1. work'.attempt < args.max_retries
    BY <1>7 DEF MayRetry
  <2>2. QED
    BY <1>1, <1>2, <1>3, <1>7, <1>9, <1>12, <1>13, <2>1, WorkKeeps

\* The next attempt.
LEMMA BackoffKeeps ==
  ASSUME ServiceInv, BackoffOver
  PROVE  ServiceInv'
<1>1. /\ running /\ work.phase = "sleeping"
      /\ work' = [work EXCEPT !.phase = "proving", !.attempt = @ + 1]
      /\ UNCHANGED <<oneshot, args, lines, read, metrics, answers, client, running>>
  BY DEF BackoffOver
<1>2. work # Idle /\ work \in Working
  BY <1>1 DEF Idle, ServiceInv, TypeInv
<1>3. work.attempt \in 1 .. args.max_retries /\ Len(work.slept) = work.attempt
        /\ \A i \in 1 .. Len(work.slept) : work.slept[i] = backoff_delay(i)
  BY <1>1, <1>2 DEF ServiceInv, WorkInv
<1>4. work.attempt < args.max_retries /\ args.max_retries \in Nat
  BY <1>1, <1>2, ServiceConstants DEF ServiceInv, WorkInv, TypeInv
<1>5. work.attempt \in Nat /\ work.slept \in Seq(0 .. U64_MAX)
  BY <1>2 DEF Working
<1>6. /\ work'.id = work.id /\ work'.batch = work.batch
      /\ work'.attempt = work.attempt + 1
      /\ work'.phase = "proving" /\ work'.slept = work.slept
  BY <1>1, <1>2 DEF Working
<1>7. work' \in Working
  <2>1. work.attempt + 1 \in Nat
    BY <1>5
  <2>2. work' = [work EXCEPT !.phase = "proving", !.attempt = work.attempt + 1]
    BY <1>1, <1>2 DEF Working
  <2>3. QED
    BY <1>2, <2>1, <2>2 DEF Working
<1>8. work'.attempt \in 1 .. args.max_retries
        /\ Len(work'.slept) = work'.attempt - IF work'.phase = "proving" THEN 1 ELSE 0
  BY <1>3, <1>4, <1>5, <1>6
<1>9. \A i \in 1 .. Len(work'.slept) : work'.slept[i] = backoff_delay(i)
  BY <1>3, <1>6
<1>10. QED
  BY <1>1, <1>2, <1>6, <1>7, <1>8, <1>9, WorkKeeps

\* The end of stdin.
LEMMA EndKeeps ==
  ASSUME ServiceInv, EndOfInput
  PROVE  ServiceInv'
<1>1. /\ work = Idle /\ running' = FALSE
      /\ UNCHANGED <<oneshot, args, lines, read, work, metrics, answers, client>>
  BY DEF EndOfInput
<1>2. running' \in BOOLEAN
  BY <1>1
<1>3. TypeInv'
  BY <1>1, <1>2 DEF ServiceInv, TypeInv
<1>4. BoundInv'
  BY <1>1 DEF ServiceInv, BoundInv
<1>5. WorkInv'
  BY <1>1 DEF WorkInv
<1>6. Seen' = Seen
  BY <1>1 DEF Seen
<1>7. AnswerInv'
  BY <1>1, <1>6 DEF ServiceInv, AnswerInv
<1>8. CountInv'
  BY <1>1, SameAnswers DEF CountInv
<1>9. QED
  BY <1>3, <1>4, <1>5, <1>7, <1>8 DEF ServiceInv

\* The client closes stdin or leaves.
LEMMA ClientKeeps ==
  ASSUME ServiceInv, CloseStdin \/ Leave
  PROVE  ServiceInv'
<1>1. /\ ~oneshot \/ client' = "closed"
      /\ client' \in {"open", "closed", "gone"}
      /\ UNCHANGED <<oneshot, args, lines, read, work, metrics, answers, running>>
  BY DEF CloseStdin, Leave
<1>2. TypeInv'
  BY <1>1 DEF ServiceInv, TypeInv
<1>3. BoundInv'
  BY <1>1 DEF ServiceInv, BoundInv
<1>4. WorkInv'
  BY <1>1, SameDelays DEF ServiceInv, WorkInv
<1>5. Seen' = Seen
  BY <1>1 DEF Seen
<1>6. AnswerInv'
  BY <1>1, <1>5 DEF ServiceInv, AnswerInv
<1>7. CountInv'
  BY <1>1, SameAnswers DEF ServiceInv, CountInv
<1>8. QED
  BY <1>2, <1>3, <1>4, <1>6, <1>7 DEF ServiceInv

\* What a line more changes.
LEMMA OnSend ==
  ASSUME ServiceInv, NEW line \in Lines, Send(line)
  PROVE  /\ lines' \in Seq(Lines) /\ Len(lines') = Len(lines) + 1
         /\ \A i \in 1 .. Len(lines) : lines'[i] = lines[i]
         /\ Seen' = Seen
         /\ Asked' = IF IsRequest(line) THEN Append(Asked, line) ELSE Asked
         /\ \A i \in 1 .. Len(Asked) : Asked'[i] = Asked[i]
         /\ \A i \in 1 .. Len(answers) + 1 :
              Counts(Asked', answers, i - 1) = Counts(Asked, answers, i - 1)
<1>1. lines' = Append(lines, line) /\ UNCHANGED <<read, answers>>
  BY DEF Send
<1>2. lines \in Seq(Lines) /\ Len(lines) \in Nat /\ read \in Nat /\ read <= Len(lines)
  BY Basics DEF ServiceInv, TypeInv
<1>3. /\ lines' \in Seq(Lines) /\ Len(lines') = Len(lines) + 1
      /\ \A i \in 1 .. Len(lines) : lines'[i] = lines[i]
      /\ lines'[Len(lines) + 1] = line
  BY <1>1, <1>2
<1> DEFINE ls == lines
           ks == lines'
<1>4. \A n \in 0 .. Len(ls) : RequestsOf(ks)[n] = RequestsOf(ls)[n]
  <2>1. ASSUME NEW n \in 0 .. Len(ls)
        PROVE  RequestsOf(ks)[n] = RequestsOf(ls)[n]
    <3>1. /\ n \in Nat /\ n <= Len(ks) /\ n <= Len(ls)
          /\ \A i \in 1 .. n : ks[i] = ls[i]
      BY <1>2, <1>3
    <3>2. ks \in Seq(Lines) /\ ls \in Seq(Lines)
      BY <1>2, <1>3
    <3> HIDE DEF ks, ls
    <3>3. QED
      BY <3>1, <3>2, RequestsAgree
  <2>2. QED
    BY <2>1
<1>5. Seen' = Seen
  <2>1. read \in 0 .. Len(ls)
    BY <1>2
  <2>2. QED
    BY <1>1, <1>4, <2>1 DEF Seen
<1>6. Asked' = IF IsRequest(line) THEN Append(Asked, line) ELSE Asked
  <2>1. RequestsOf(ks)[Len(ls) + 1]
          = IF IsRequest(line) THEN Append(RequestsOf(ks)[Len(ls)], line)
            ELSE RequestsOf(ks)[Len(ls)]
    <3>1. Len(ls) + 1 \in 1 .. Len(ks) /\ (Len(ls) + 1) - 1 = Len(ls) /\ ks \in Seq(Lines)
            /\ ks[Len(ls) + 1] = line
      BY <1>2, <1>3
    <3> HIDE DEF ks, ls
    <3>2. QED
      BY <3>1, RequestsSteps
  <2>2. RequestsOf(ks)[Len(ls)] = Asked
    BY <1>2, <1>4 DEF Asked
  <2>3. Asked' = RequestsOf(ks)[Len(ls) + 1]
    BY <1>3 DEF Asked
  <2>4. QED
    BY <2>1, <2>2, <2>3
<1>7. \A i \in 1 .. Len(Asked) : Asked'[i] = Asked[i]
  <2>1. Asked \in Seq(AskedLines)
    BY Basics
  <2>2. \A i \in 1 .. Len(Asked) : Append(Asked, line)[i] = Asked[i]
    BY <2>1
  <2>3. QED
    BY <1>6, <2>2
<1>8. ASSUME NEW i \in 1 .. Len(answers) + 1
      PROVE  Counts(Asked', answers, i - 1) = Counts(Asked, answers, i - 1)
  <2>1. i - 1 \in Nat /\ \A j \in 1 .. i - 1 : Asked'[j] = Asked[j]
    BY <1>7, Basics
  <2>2. QED
    BY <2>1, CountsAgree
<1>9. QED
  BY <1>3, <1>5, <1>6, <1>7, <1>8

\* The client writes a line.
LEMMA SendKeeps ==
  ASSUME ServiceInv, NEW line \in Lines, Send(line)
  PROVE  ServiceInv'
<1>1. /\ client = "open" /\ Len(lines) < MaxLines
      /\ UNCHANGED <<oneshot, args, read, work, metrics, answers, client, running>>
  BY DEF Send
<1>2. read \in Nat /\ Len(lines) \in Nat /\ read <= Len(lines) /\ Len(answers) \in Nat
  BY Basics
<1>3. TypeInv'
  <2>1. lines' \in Seq(Lines) /\ read' \in 0 .. Len(lines')
    BY <1>1, <1>2, OnSend
  <2>2. QED
    BY <1>1, <2>1 DEF ServiceInv, TypeInv
<1>4. BoundInv'
  <2>1. Len(lines') <= MaxLines
    BY <1>1, <1>2, OnSend, ServiceConstants
  <2>2. ~oneshot
    BY <1>1 DEF ServiceInv, BoundInv
  <2>3. /\ metrics'.processed <= read'
        /\ metrics'.succeeded + metrics'.failed
             + (IF work' = Idle THEN 0 ELSE 1) <= metrics'.processed
    BY <1>1 DEF ServiceInv, BoundInv
  <2>4. oneshot' => client' = "closed"
    BY <1>1, <2>2
  <2>5. QED
    BY <2>1, <2>3, <2>4, Zenon DEF BoundInv
<1>5. WorkInv'
  <2>1. SUFFICES ASSUME work # Idle PROVE WorkInv'
    BY <1>1 DEF WorkInv
  <2>2. read > 0
    BY <2>1 DEF ServiceInv, WorkInv
  <2>3. lines'[read] = lines[read]
    BY <1>2, <2>2, OnSend
  <2>4. QED
    BY <1>1, <2>1, <2>3, SameDelays DEF ServiceInv, WorkInv
<1>6. AnswerInv'
  BY <1>1, OnSend DEF ServiceInv, AnswerInv
<1>7. Counted' = Counted
  <2>1. Len(answers) + 1 \in 1 .. Len(answers) + 1 /\ (Len(answers) + 1) - 1 = Len(answers)
    BY <1>2
  <2>2. Counts(Asked', answers, Len(answers)) = Counts(Asked, answers, Len(answers))
    BY <2>1, OnSend
  <2>3. QED
    BY <1>1, <2>2 DEF Counted
<1>8. CountInv'
  <2>1. ASSUME NEW i \in 1 .. Len(answers'), "health" \in DOMAIN answers'[i]
        PROVE  answers'[i].health = Counts(Asked', answers', i - 1)
    <3>1. i \in 1 .. Len(answers) + 1 /\ answers' = answers
      BY <1>1, <1>2
    <3>2. Counts(Asked', answers, i - 1) = Counts(Asked, answers, i - 1)
      BY <3>1, OnSend
    <3>3. answers[i].health = Counts(Asked, answers, i - 1)
      BY <1>1, <2>1 DEF ServiceInv, CountInv
    <3>4. QED
      BY <3>1, <3>2, <3>3
  <2>2. running' => metrics' = IF work' = Idle THEN Counted'
                               ELSE [Counted' EXCEPT !.processed = @ + 1]
    BY <1>1, <1>7 DEF ServiceInv, CountInv
  <2>3. QED
    BY <2>1, <2>2 DEF CountInv
<1>9. QED
  BY <1>3, <1>4, <1>5, <1>6, <1>8 DEF ServiceInv

\* The service starts with nothing read, answered or counted.
LEMMA InitInv ==
  Init => ServiceInv
<1>1. SUFFICES ASSUME Init PROVE ServiceInv
  OBVIOUS
<1>2. /\ oneshot \in BOOLEAN /\ args \in Settings /\ read = 0 /\ work = Idle
      /\ metrics = [processed |-> 0, succeeded |-> 0, failed |-> 0]
      /\ answers = <<>> /\ running = TRUE
      /\ client = IF oneshot THEN "closed" ELSE "open"
  BY <1>1 DEF Init
<1>3. lines \in Seq(Lines) /\ IF oneshot THEN Len(lines) = 1 ELSE Len(lines) = 0
  <2>1. CASE oneshot
    <3>1. lines \in {<<line>> : line \in Lines}
      BY <1>1, <2>1 DEF Init
    <3>2. \A line \in Lines : <<line>> \in Seq(Lines) /\ Len(<<line>>) = 1
      OBVIOUS
    <3>3. QED
      BY <2>1, <3>1, <3>2
  <2>2. CASE ~oneshot
    <3>1. lines = <<>>
      BY <1>1, <2>2 DEF Init
    <3>2. QED
      BY <2>2, <3>1
  <2>3. QED
    BY <2>1, <2>2
<1>4. TypeInv
  <2>1. <<>> \in Seq(AnAnswer) /\ running \in BOOLEAN /\ read \in 0 .. Len(lines)
    BY <1>2, <1>3
  <2>2. QED
    BY <1>2, <1>3, <2>1 DEF TypeInv
<1>5. BoundInv
  <2>1. Len(lines) <= MaxLines \/ (oneshot /\ Len(lines) = 1)
    <3>1. CASE oneshot
      BY <1>3, <3>1
    <3>2. CASE ~oneshot
      <4>1. Len(lines) = 0
        BY <1>3, <3>2, Zenon
      <4>2. QED
        BY <4>1, ServiceConstants
    <3>3. QED
      BY <3>1, <3>2
  <2>2. oneshot => client = "closed"
    BY <1>2
  <2>3. /\ metrics.processed <= read
        /\ metrics.succeeded + metrics.failed
             + (IF work = Idle THEN 0 ELSE 1) <= metrics.processed
    BY <1>2
  <2>4. QED
    BY <2>1, <2>2, <2>3 DEF BoundInv
<1>6. WorkInv
  BY <1>2 DEF WorkInv
<1>7. Seen = <<>>
  BY <1>2, <1>3, RequestsSteps DEF Seen
<1>8. AnswerInv
  BY <1>2, <1>7 DEF AnswerInv
<1>9. Counted = metrics
  BY <1>2, CountsNone DEF Counted
<1>10. CountInv
  BY <1>2, <1>9 DEF CountInv
<1>11. QED
  BY <1>4, <1>5, <1>6, <1>8, <1>10 DEF ServiceInv

\* Every step keeps the invariant.
LEMMA StepInv ==
  ServiceInv /\ [Next]_vars => ServiceInv'
<1>1. SUFFICES ASSUME ServiceInv, [Next]_vars PROVE ServiceInv'
  OBVIOUS
<1>2. CASE ReadLine
  <2>1. lines[read + 1] \in Lines
    BY <1>1, <1>2, ReadLineCases
  <2>2. \/ Skips(lines[read + 1]) \/ Stops \/ Starts(lines[read + 1])
        \/ IsRequest(lines[read + 1]) /\ AnswersLine(lines[read + 1])
    BY <1>1, <1>2, ReadLineCases
  <2>3. QED
    BY <1>1, <1>2, <2>1, <2>2, SkipKeeps, StopKeeps, StartKeeps, ReadAnswerKeeps
<1>3. CASE AttemptSucceeds \/ (AttemptFails /\ ~MayRetry)
  <2> HIDE <1>1
  <2>1. ServiceInv
    BY <1>1
  <2>2. QED
    BY <1>3, <2>1, AttemptAnswerKeeps
<1>4. CASE AttemptFails /\ MayRetry
  BY <1>1, <1>4, RetryKeeps
<1>5. CASE BackoffOver
  BY <1>1, <1>5, BackoffKeeps
<1>6. CASE EndOfInput
  BY <1>1, <1>6, EndKeeps
<1>7. CASE CloseStdin \/ Leave
  BY <1>1, <1>7, ClientKeeps
<1>8. CASE \E line \in Lines : Send(line)
  BY <1>1, <1>8, SendKeeps
<1>9. CASE UNCHANGED vars
  <2>1. UNCHANGED <<oneshot, args, lines, read, work, metrics, answers, client, running>>
    BY <1>9 DEF vars
  <2>2. TypeInv' /\ BoundInv'
    BY <1>1, <2>1 DEF ServiceInv, TypeInv, BoundInv
  <2>3. WorkInv'
    BY <1>1, <2>1, SameDelays DEF ServiceInv, WorkInv
  <2>4. Seen' = Seen
    BY <2>1 DEF Seen
  <2>5. AnswerInv'
    BY <1>1, <2>1, <2>4 DEF ServiceInv, AnswerInv
  <2>6. CountInv'
    BY <1>1, <2>1, SameAnswers DEF ServiceInv, CountInv
  <2>7. QED
    BY <2>2, <2>3, <2>5, <2>6 DEF ServiceInv
<1>10. Next \/ UNCHANGED vars
  BY <1>1
<1>11. \/ ReadLine \/ AttemptSucceeds \/ AttemptFails \/ BackoffOver \/ EndOfInput
       \/ CloseStdin \/ Leave \/ \E line \in Lines : Send(line)
       \/ UNCHANGED vars
  BY <1>10, Zenon DEF Next, ServiceStep
<1>12. QED
  BY <1>2, <1>3, <1>4, <1>5, <1>6, <1>7, <1>8, <1>9, <1>11, Zenon

\* The invariant holds in every state of the service.
THEOREM ServiceInvariant ==
  Spec => []ServiceInv
<1>1. QED
  BY InitInv, StepInv, PTL DEF Spec

\* The state is well-formed; a request is worked at only after its inputs were
\* accepted, at most max_retries times, with a sleep before each attempt but
\* the first (keeper_prover.rs:280-329).
THEOREM TypeCorrect ==
  Spec => []TypeOK
<1>1. ServiceInv => TypeOK
  <2>1. SUFFICES ASSUME ServiceInv PROVE TypeOK
    OBVIOUS
  <2>2. CASE work = Idle
    BY <2>1, <2>2 DEF ServiceInv, TypeInv, TypeOK
  <2>3. CASE work # Idle
    <3>1. work \in Working
      BY <2>1, <2>3 DEF ServiceInv, TypeInv
    <3>2. work.phase \in {"proving", "sleeping"} /\ work.id \in Ids \cup {NoId}
      BY <3>1 DEF Working
    <3>3. QED
      BY <2>1, <2>3, <3>2 DEF ServiceInv, TypeInv, WorkInv, TypeOK
  <2>4. QED
    BY <2>2, <2>3
<1>2. QED
  BY <1>1, ServiceInvariant, PTL

\* The sleeps before the attempts at a request never shrink nor pass the cap,
\* whatever the settings, also where the doubling saturates
\* (keeper_prover.rs:714-718).
THEOREM BackoffCorrect ==
  Spec => []BackoffGrows
<1>1. ServiceInv => BackoffGrows
  <2>1. SUFFICES ASSUME ServiceInv, work # Idle, NEW i \in DOMAIN work.slept
                 PROVE  /\ work.slept[i] <= args.retry_max_delay
                        /\ \A j \in 1 .. i : work.slept[j] <= work.slept[i]
    BY DEF BackoffGrows
  <2>2. work.slept \in Seq(0 .. U64_MAX)
    BY <2>1 DEF ServiceInv, TypeInv, Working
  <2>3. i \in 1 .. Len(work.slept) /\ Len(work.slept) \in Nat
    BY <2>1, <2>2
  <2>4. args \in Settings /\ i \in Nat \ {0}
    BY <2>1, <2>3 DEF ServiceInv, TypeInv
  <2>5. \A k \in 1 .. Len(work.slept) : work.slept[k] = backoff_delay(k)
    BY <2>1 DEF ServiceInv, WorkInv
  <2>6. work.slept[i] <= args.retry_max_delay
    <3>1. i \in 1 .. i
      BY <2>4
    <3>2. QED
      BY <2>3, <2>4, <2>5, <3>1, DelayGrows
  <2>7. ASSUME NEW j \in 1 .. i
        PROVE  work.slept[j] <= work.slept[i]
    <3>1. j \in 1 .. Len(work.slept)
      BY <2>3
    <3>2. backoff_delay(j) <= backoff_delay(i)
      BY <2>4, DelayGrows
    <3>3. QED
      BY <2>3, <2>5, <3>1, <3>2
  <2>8. QED
    BY <2>6, <2>7
<1>2. QED
  BY <1>1, ServiceInvariant, PTL

\* A health answer counts the answers before it, proofs, failures and refusals
\* told apart, however many requests there are (keeper_prover.rs:280-329).
THEOREM HealthCorrect ==
  Spec => []HealthTruthful
<1>1. ASSUME ServiceInv, NEW i \in DOMAIN answers, "health" \in DOMAIN answers[i]
      PROVE  LET asked  == RequestsIn[Len(lines)]
                 proves == {j \in 1 .. i - 1 : asked[j].kind = "prove"}
                 proved == {j \in proves : answers[j].status = "ok"}
                 tried  == {j \in proves : AcceptsInputs(asked[j].batch)}
             IN answers[i].health = [processed |-> Cardinality(proves),
                                     succeeded |-> Cardinality(proved),
                                     failed    |-> Cardinality(tried \ proved)]
  <2>1. i \in 1 .. Len(answers)
    BY <1>1, Basics
  <2>2. answers[i].health = Counts(Asked, answers, i - 1)
    BY <1>1, <2>1 DEF ServiceInv, CountInv
  <2> DEFINE asked  == RequestsIn[Len(lines)]
             proves == {j \in 1 .. i - 1 : asked[j].kind = "prove"}
             proved == {j \in proves : answers[j].status = "ok"}
             tried  == {j \in proves : AcceptsInputs(asked[j].batch)}
  <2>3. asked = Asked
    BY RequestsOfLines DEF Asked
  <2> HIDE DEF asked
  <2>4. proves = {j \in 1 .. i - 1 : j \in Proves(Asked)}
    BY <2>3 DEF Proves
  <2>5. proved = {j \in 1 .. i - 1 : j \in Proved(Asked, answers)}
    BY <2>3 DEF Proves, Proved
  <2>6. tried \ proved = {j \in 1 .. i - 1 : j \in Failed(Asked, answers)}
    <3>1. \A j \in 1 .. i - 1 : j \in tried \ proved <=> j \in Failed(Asked, answers)
      BY <2>3 DEF Proves, Failed
    <3>2. QED
      BY <3>1
  <2> HIDE DEF proves, proved, tried
  <2>7. /\ Cardinality(proves) = Count(Proves(Asked), i - 1)
        /\ Cardinality(proved) = Count(Proved(Asked, answers), i - 1)
        /\ Cardinality(tried \ proved) = Count(Failed(Asked, answers), i - 1)
    BY <2>4, <2>5, <2>6, Zenon DEF Count
  <2>8. answers[i].health = [processed |-> Cardinality(proves),
                             succeeded |-> Cardinality(proved),
                             failed    |-> Cardinality(tried \ proved)]
    BY <2>2, <2>7 DEF Counts
  <2>9. QED
    BY <2>8 DEF asked, proves, proved, tried
<1>2. ServiceInv => HealthTruthful
  BY <1>1 DEF HealthTruthful
<1>3. QED
  BY <1>2, ServiceInvariant, PTL

-----------------------------------------------------------------------------
\* The service is a queue.

\* The requests of the queue are those asked, before a step and after it.
LEMMA QueueRequests ==
  /\ RequestsIn[Len(lines)] = Asked
  /\ (RequestsIn[Len(lines)])' = Asked'
BY RequestsOfLines DEF Asked, RequestsIn, RequestsOf, AreRequestsIn

\* An answer to the request whose turn it is is a step of the queue.
LEMMA AnswerOfQueue ==
  ASSUME NEW line, AnswersLine(line), lines' = lines,
         Len(answers) < Len(Asked), Asked[Len(answers) + 1] = line
  PROVE  Queue!Answer \/ UNCHANGED <<RequestsIn[Len(lines)], answers>>
<1>1. PICK answer \in Answers(line) : Reply(answer)
  BY DEF AnswersLine
<1>2. answers' = answers \/ answers' = Append(answers, answer)
  BY <1>1 DEF Reply
<1>3. Asked' = Asked
  BY DEF Asked
<1>4. UNCHANGED RequestsIn[Len(lines)]
  BY <1>3, QueueRequests, Zenon
<1>5. CASE answers' = answers
  BY <1>4, <1>5
<1>6. CASE answers' = Append(answers, answer)
  <2>1. Len(answers) < Len(RequestsIn[Len(lines)])
    BY QueueRequests
  <2>2. answer \in Answers(RequestsIn[Len(lines)][Len(answers) + 1])
    BY QueueRequests
  <2>3. QED
    BY <1>4, <1>6, <2>1, <2>2, Zenon DEF Queue!Answer
<1>7. QED
  BY <1>2, <1>5, <1>6

\* A line more is a request more or none.
LEMMA SendOfQueue ==
  ASSUME ServiceInv, NEW line \in Lines, Send(line)
  PROVE  Queue!Ask \/ UNCHANGED <<RequestsIn[Len(lines)], answers>>
<1>1. answers' = answers
  BY DEF Send
<1>2. Asked' = IF IsRequest(line) THEN Append(Asked, line) ELSE Asked
  BY OnSend
<1>3. CASE IsRequest(line)
  <2>1. (RequestsIn[Len(lines)])' = Append(RequestsIn[Len(lines)], line)
    BY <1>2, <1>3, QueueRequests, Zenon
  <2>2. line \in {l \in Lines : IsRequest(l)}
    BY <1>3
  <2>3. QED
    BY <1>1, <2>1, <2>2, Zenon DEF Queue!Ask
<1>4. CASE ~IsRequest(line)
  <2>1. (RequestsIn[Len(lines)])' = RequestsIn[Len(lines)]
    BY <1>2, <1>4, QueueRequests, Zenon
  <2>2. QED
    BY <1>1, <2>1
<1>5. QED
  BY <1>3, <1>4

\* A step that writes nothing leaves the queue as it is.
LEMMA QueueStutters ==
  ASSUME UNCHANGED <<lines, answers>>
  PROVE  UNCHANGED <<RequestsIn[Len(lines)], answers>>
<1>1. Asked' = Asked
  BY DEF Asked
<1>2. QED
  BY <1>1, QueueRequests

\* Every step of the service is a step of the queue or a stutter.
LEMMA StepOfQueue ==
  ServiceInv /\ [Next]_vars => [Queue!Next]_<<RequestsIn[Len(lines)], answers>>
<1>1. SUFFICES ASSUME ServiceInv, [Next]_vars
               PROVE  Queue!Next \/ UNCHANGED <<RequestsIn[Len(lines)], answers>>
  OBVIOUS
<1>2. CASE ReadLine
  <2>1. lines[read + 1] \in Lines /\ lines' = lines
    BY <1>1, <1>2, ReadLineCases DEF ReadLine
  <2>2. CASE Skips(lines[read + 1]) \/ Stops \/ Starts(lines[read + 1])
    <3>1. answers' = answers
      BY <2>2 DEF Skips, Stops, Stop, Starts
    <3>2. QED
      BY <2>1, <3>1, QueueStutters
  <2>3. CASE IsRequest(lines[read + 1]) /\ AnswersLine(lines[read + 1])
    <3>1. Len(answers) < Len(Asked) /\ Asked[Len(answers) + 1] = lines[read + 1]
      BY <1>1, <1>2, <2>1, <2>3, ReadAnswerKeeps
    <3>2. Queue!Answer \/ UNCHANGED <<RequestsIn[Len(lines)], answers>>
      BY <2>1, <2>3, <3>1, AnswerOfQueue
    <3>3. QED
      BY <3>2 DEF Queue!Next
  <2>4. QED
    BY <1>1, <1>2, <2>2, <2>3, ReadLineCases
<1>3. CASE AttemptSucceeds \/ (AttemptFails /\ ~MayRetry)
  <2>1. AnswersLine(lines[read]) /\ lines' = lines
    BY <1>1, <1>3, AttemptAnswers DEF AttemptSucceeds, AttemptFails
  <2>2. Len(answers) < Len(Asked) /\ Asked[Len(answers) + 1] = lines[read]
    BY <1>1, <1>3, AttemptAnswerKeeps
  <2>3. Queue!Answer \/ UNCHANGED <<RequestsIn[Len(lines)], answers>>
    BY <2>1, <2>2, AnswerOfQueue
  <2>4. QED
    BY <2>3 DEF Queue!Next
<1>4. CASE (AttemptFails /\ MayRetry) \/ BackoffOver \/ EndOfInput \/ CloseStdin \/ Leave
           \/ UNCHANGED vars
  <2>1. UNCHANGED <<lines, answers>>
    BY <1>4 DEF AttemptFails, BackoffOver, EndOfInput, CloseStdin, Leave, vars
  <2>2. QED
    BY <2>1, QueueStutters
<1>5. CASE \E line \in Lines : Send(line)
  <2>1. Queue!Ask \/ UNCHANGED <<RequestsIn[Len(lines)], answers>>
    BY <1>1, <1>5, SendOfQueue
  <2>2. QED
    BY <2>1 DEF Queue!Next
<1>6. Next \/ UNCHANGED vars
  BY <1>1
<1>7. \/ ReadLine \/ AttemptSucceeds \/ AttemptFails \/ BackoffOver \/ EndOfInput
      \/ CloseStdin \/ Leave \/ \E line \in Lines : Send(line)
      \/ UNCHANGED vars
  BY <1>6, Zenon DEF Next, ServiceStep
<1>8. QED
  BY <1>2, <1>3, <1>4, <1>5, <1>7, Zenon

\* The service implements the queue, for every client, every number of requests
\* and every way their attempts end: each answer is to the request whose turn it
\* is, and a proof is one of the batch that was asked for, answered with outputs that
\* carry the hash it commits to (keeper_prover.rs:354-384 and 426-513).
THEOREM QueueCorrect ==
  Spec => QueueKept
<1>1. Init => Queue!Init
  <2>1. SUFFICES ASSUME Init PROVE Queue!Init
    OBVIOUS
  <2>2. Asked \in Seq(AskedLines)
    BY <2>1, InitInv, Basics
  <2>3. RequestsIn[Len(lines)] \in Seq({line \in Lines : IsRequest(line)})
    BY <2>2, QueueRequests, Zenon DEF AskedLines
  <2>4. QED
    BY <2>1, <2>3 DEF Init, Queue!Init
<1>2. QED
  BY <1>1, ServiceInvariant, StepOfQueue, PTL DEF Spec, QueueKept, Queue!Spec

=============================================================================
