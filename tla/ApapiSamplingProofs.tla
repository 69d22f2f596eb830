------------------------- MODULE ApapiSamplingProofs -------------------------
(* Theorems about ApapiSampling, for any events with their operations, any *)
(* counters and sensors, intervals and numbers of samples.                 *)
EXTENDS ApapiSampling, SequenceTheorems, WellFoundedInduction, TLAPS

\* A ratio that is n by d.
Is(r, n, d) == r \in Int \X (Nat \ {0}) /\ r[1] * d = n * r[2]

\* The time of the last sample that was folded into the statistics.
latest == IF timer.at = "read" THEN times.previous ELSE times.current

Types ==
  /\ event_ops \in OpsTable
  /\ clock \in Nat \ {0} /\ hw \in [Event -> Nat]
  /\ timer \in [at : {"none", "ready", "sleep", "read"}, last : BOOLEAN, made : Int]
  /\ buffer \in [counters : [1 .. 2 -> [Event -> Int]], samples : [1 .. 2 -> [Event -> Int]],
                front : 1 .. 2]
  /\ stats = [values0 |-> stats.values0, values1 |-> stats.values1,
              last_values1 |-> stats.last_values1]
  /\ times \in [current : Nat, previous : Nat, first : Nat, count : Nat]
  /\ field = [sample |-> field.sample, final |-> field.final, runtime |-> field.runtime,
              values0 |-> field.values0, values1 |-> field.values1]
  /\ series \in Seq([time : Nat, hw : [Event -> Nat]])

\* The times are those of the samples that were counted.
TimesInv ==
  /\ times.count = 0 => times.first = 0
  /\ times.count = 1 => 0 < times.first /\ times.first = latest
  /\ times.count > 1 => 0 < times.first /\ times.first < latest
  /\ timer.at = "read" /\ timer.last => times.count > 0
  /\ timer.at = "ready" => times.count = 0
  /\ Len(series) = IF timer.at = "read" THEN times.count + 1 ELSE times.count

\* What a counter showed at sample i.
Shown(e, i) == series[i].hw[e] % (event_ops[e].max_sample + 1)
\* What it counted from the first sample to sample n.
Counts(e, n) ==
  (series[n].hw[e] - series[1].hw[e]) - (Rounds(e, n) - Rounds(e, 1))

\* The buffers hold the last two readings, between which no counter has gone
\* all the way round, and the sum what was counted.
CountersInv(e) ==
  LET n == Len(series) IN
  /\ timer.at \in {"sleep", "read"} /\ n > 0 =>
       /\ buffer.counters[buffer.front][e] = Shown(e, n)
       /\ hw[e] - series[n].hw[e] \in 0 .. event_ops[e].max_sample
  /\ timer.at = "read" /\ n > 1 =>
       /\ buffer.counters[Other(buffer.front)][e] = Shown(e, n - 1)
       /\ series[n].hw[e] - series[n - 1].hw[e] \in 0 .. event_ops[e].max_sample
  /\ "ACC" \in event_ops[e].value0 =>
       stats.values0[e].ACC = Int2Ratio(IF times.count = 0 THEN 0 ELSE Counts(e, times.count))

\* An average over the time so far is the sum of the other kind.
Fits(acc, avg) ==
  /\ acc[1] \in Int /\ acc = Int2Ratio(acc[1])
  /\ times.count <= 1 => acc[1] = 0
  /\ times.count > 1 => Is(avg, acc[1], latest - times.first)
PowerInv(e) ==
  /\ event_ops[e].op1 = "DIV_DIFF_TIME" => Fits(stats.values0[e].ACC, stats.values1[e].AVG)
  /\ event_ops[e].op1 = "SAMPLE1_MUL_DIFF_TIME" =>
       Fits(stats.values1[e].ACC, stats.values0[e].AVG)

SamplingInv ==
  /\ Types /\ TimesInv
  /\ \A e \in Event : (Accumulates(e) => CountersInv(e)) /\ PowerInv(e)
  /\ ReportFits

-----------------------------------------------------------------------------
(* Ratios.                                                                 *)

LEMMA Cancel ==
  ASSUME NEW x \in Int, NEW y \in Int, NEW k \in Int, k # 0, x * k = y * k
  PROVE  x = y
OBVIOUS

\* What divides a number divides it without a rest.
LEMMA Divided ==
  ASSUME NEW n \in Int, NEW k \in Nat \ {0}, n % k = 0
  PROVE  n \div k \in Int /\ (n \div k) * k = n
OBVIOUS

LEMMA Multiple ==
  ASSUME NEW s \in Int, NEW k \in Nat \ {0}
  PROVE  (s * k) % k = 0 /\ (s * k) \div k = s
OBVIOUS

\* The greatest common divisor is there: bounded numbers have a greatest.
LEMMA GreatestThere ==
  ASSUME NEW n \in Nat, NEW T \in SUBSET (0 .. n), T # {}
  PROVE  Max(T) \in T /\ \A k \in T : k <= Max(T)
<1> DEFINE R == OpToRel(<, Nat)
           U == {n - i : i \in T}
<1>1. IsWellFoundedOn(R, Nat)
  BY NatLessThanWellFounded
<1>2. \A x, y \in Nat : x < y => <<x, y>> \in R
  BY DEF OpToRel
<1>3. U \in SUBSET Nat /\ U # {}
  <2>1. \A i \in T : n - i \in Nat
    OBVIOUS
  <2>2. QED
    BY <2>1
<1> HIDE DEF R
<1>4. PICK u \in U : \A y \in U : <<y, u>> \notin R
  BY <1>1, <1>3, WFMin
<1>5. \A k \in U : u <= k
  <2>1. SUFFICES ASSUME NEW k \in U, k < u PROVE FALSE
    BY <1>3
  <2>2. k \in Nat /\ u \in Nat
    BY <1>3
  <2>3. <<k, u>> \in R
    BY <1>2, <2>1, <2>2
  <2>4. QED
    BY <1>4, <2>3
<1>6. PICK m \in T : u = n - m
  OBVIOUS
<1>7. \A k \in T : n - m <= n - k
  BY <1>5, <1>6
<1>8. \A k \in T : m >= k
  BY <1>7
<1>9. Max(T) \in T /\ \A k \in T : Max(T) >= k
  BY <1>8 DEF Max
<1>10. QED
  BY <1>9

\* A ratio in lowest terms is what it was before.
LEMMA RatioIs ==
  ASSUME NEW n \in Int, NEW d \in Nat \ {0}
  PROVE  /\ Is(Ratio(n, d), n, d)
         /\ n % d = 0 => Ratio(n, d) = <<n \div d, 1>>
<1> DEFINE T == {k \in 1 .. d : n % k = 0 /\ d % k = 0}
<1>1. 1 \in T
  OBVIOUS
<1>2. PICK m : m = Max(T)
  OBVIOUS
<1>3. m \in T /\ \A k \in T : k <= m
  <2>1. T \in SUBSET (0 .. d) /\ T # {}
    BY <1>1
  <2>2. QED
    BY <1>2, <2>1, GreatestThere
<1>4. Ratio(n, d) = <<n \div m, d \div m>>
  BY <1>2 DEF Ratio
<1>5. m \in Nat \ {0} /\ n % m = 0 /\ d % m = 0
  BY <1>3
<1>6. PICK p \in Int, q \in Int : /\ p = n \div m /\ p * m = n
                                  /\ q = d \div m /\ q * m = d
  BY <1>5, Divided
<1>7. q \in Nat \ {0}
  BY <1>5, <1>6
<1>8. p * d = n * q
  <2>1. (p * d) * m = (n * q) * m
    BY <1>5, <1>6, <1>7
  <2>2. QED
    BY <2>1, <1>5, <1>6, Cancel
<1>9. n % d = 0 => m = d
  <2>1. d % d = 0
    OBVIOUS
  <2>2. n % d = 0 => d \in T
    BY <2>1
  <2>3. QED
    BY <1>3, <2>2
<1>10. d \div d = 1
  OBVIOUS
<1>11. QED
  BY <1>4, <1>6, <1>7, <1>8, <1>9, <1>10 DEF Is

LEMMA TimesIs ==
  ASSUME NEW a, NEW b, NEW n \in Int, NEW m \in Int, NEW d \in Nat \ {0}, NEW e \in Nat \ {0},
         Is(a, n, d), Is(b, m, e)
  PROVE  Is(Times(a, b), n * m, d * e)
<1>1. PICK a1 \in Int, a2 \in Nat \ {0} : a = <<a1, a2>> /\ a1 * d = n * a2
  BY DEF Is
<1>2. PICK b1 \in Int, b2 \in Nat \ {0} : b = <<b1, b2>> /\ b1 * e = m * b2
  BY DEF Is
<1>3. Times(a, b) = Ratio(a1 * b1, a2 * b2)
  BY <1>1, <1>2 DEF Times
<1>4. a1 * b1 \in Int /\ a2 * b2 \in Nat \ {0}
  OBVIOUS
<1>5. PICK p \in Int, q \in Nat \ {0} :
        Times(a, b) = <<p, q>> /\ p * (a2 * b2) = (a1 * b1) * q
  <2>1. PICK i \in Int, j \in Nat \ {0} : i = a1 * b1 /\ j = a2 * b2
    BY <1>4
  <2>2. Is(Ratio(i, j), i, j)
    BY RatioIs
  <2>3. Times(a, b) = Ratio(i, j)
    BY <1>3, <2>1
  <2>4. PICK p \in Int, q \in Nat \ {0} : Times(a, b) = <<p, q>> /\ p * j = i * q
    BY <2>2, <2>3 DEF Is
  <2>5. p * (a2 * b2) = (a1 * b1) * q
    BY <2>1, <2>4
  <2>6. QED
    BY <2>4, <2>5
<1>6. (a1 * b1) * (d * e) = (n * m) * (a2 * b2)
  BY <1>1, <1>2
<1>7. (p * (d * e)) * (a2 * b2) = ((n * m) * q) * (a2 * b2)
  <2>1. (p * (d * e)) * (a2 * b2) = (p * (a2 * b2)) * (d * e)
    OBVIOUS
  <2>2. (p * (a2 * b2)) * (d * e) = ((a1 * b1) * q) * (d * e)
    BY <1>5
  <2>3. ((a1 * b1) * q) * (d * e) = ((a1 * b1) * (d * e)) * q
    OBVIOUS
  <2>4. ((a1 * b1) * (d * e)) * q = ((n * m) * (a2 * b2)) * q
    BY <1>6
  <2>5. ((n * m) * (a2 * b2)) * q = ((n * m) * q) * (a2 * b2)
    OBVIOUS
  <2>6. QED
    BY <2>1, <2>2, <2>3, <2>4, <2>5
<1>8. p * (d * e) = (n * m) * q
  <2>1. p * (d * e) \in Int /\ (n * m) * q \in Int
    OBVIOUS
  <2>2. QED
    BY <1>4, <1>7, <2>1, Cancel
<1>9. QED
  BY <1>5, <1>8 DEF Is

LEMMA PlusIs ==
  ASSUME NEW a, NEW b, NEW n \in Int, NEW m \in Int, NEW d \in Nat \ {0},
         Is(a, n, d), Is(b, m, d)
  PROVE  Is(Plus(a, b), n + m, d)
<1>1. PICK a1 \in Int, a2 \in Nat \ {0} : a = <<a1, a2>> /\ a1 * d = n * a2
  BY DEF Is
<1>2. PICK b1 \in Int, b2 \in Nat \ {0} : b = <<b1, b2>> /\ b1 * d = m * b2
  BY DEF Is
<1>3. Plus(a, b) = Ratio(a1 * b2 + b1 * a2, a2 * b2)
  BY <1>1, <1>2 DEF Plus
<1>4. a1 * b2 + b1 * a2 \in Int /\ a2 * b2 \in Nat \ {0}
  OBVIOUS
<1>5. PICK p \in Int, q \in Nat \ {0} :
        Plus(a, b) = <<p, q>> /\ p * (a2 * b2) = (a1 * b2 + b1 * a2) * q
  <2>1. PICK i \in Int, j \in Nat \ {0} : i = a1 * b2 + b1 * a2 /\ j = a2 * b2
    BY <1>4
  <2>2. Is(Ratio(i, j), i, j)
    BY RatioIs
  <2>3. Plus(a, b) = Ratio(i, j)
    BY <1>3, <2>1
  <2>4. PICK p \in Int, q \in Nat \ {0} : Plus(a, b) = <<p, q>> /\ p * j = i * q
    BY <2>2, <2>3 DEF Is
  <2>5. p * (a2 * b2) = (a1 * b2 + b1 * a2) * q
    BY <2>1, <2>4
  <2>6. QED
    BY <2>4, <2>5
<1>6. (a1 * b2 + b1 * a2) * d = (n + m) * (a2 * b2)
  <2>1. (a1 * b2 + b1 * a2) * d = (a1 * d) * b2 + (b1 * d) * a2
    OBVIOUS
  <2>2. (a1 * d) * b2 + (b1 * d) * a2 = (n * a2) * b2 + (m * b2) * a2
    BY <1>1, <1>2
  <2>3. (n * a2) * b2 + (m * b2) * a2 = (n + m) * (a2 * b2)
    OBVIOUS
  <2>4. QED
    BY <2>1, <2>2, <2>3
<1>7. (p * d) * (a2 * b2) = ((n + m) * q) * (a2 * b2)
  <2>1. (p * d) * (a2 * b2) = (p * (a2 * b2)) * d
    OBVIOUS
  <2>2. (p * (a2 * b2)) * d = ((a1 * b2 + b1 * a2) * q) * d
    BY <1>5
  <2>3. ((a1 * b2 + b1 * a2) * q) * d = ((a1 * b2 + b1 * a2) * d) * q
    OBVIOUS
  <2>4. ((a1 * b2 + b1 * a2) * d) * q = ((n + m) * (a2 * b2)) * q
    BY <1>6
  <2>5. ((n + m) * (a2 * b2)) * q = ((n + m) * q) * (a2 * b2)
    OBVIOUS
  <2>6. QED
    BY <2>1, <2>2, <2>3, <2>4, <2>5
<1>8. p * d = (n + m) * q
  <2>1. p * d \in Int /\ (n + m) * q \in Int
    OBVIOUS
  <2>2. QED
    BY <1>4, <1>7, <2>1, Cancel
<1>9. QED
  BY <1>5, <1>8 DEF Is

LEMMA LessTerms ==
  ASSUME NEW r, NEW n \in Int, NEW d \in Nat \ {0}, NEW k \in Nat \ {0}, Is(r, n * k, d * k)
  PROVE  Is(r, n, d)
<1>1. PICK p \in Int, q \in Nat \ {0} : r = <<p, q>> /\ p * (d * k) = (n * k) * q
  BY DEF Is
<1>2. (p * d) * k = (n * q) * k
  BY <1>1
<1>3. p * d = n * q
  <2>1. p * d \in Int /\ n * q \in Int
    OBVIOUS
  <2>2. QED
    BY <1>2, <2>1, Cancel
<1>4. QED
  BY <1>1, <1>3 DEF Is

LEMMA PlusIntegers ==
  ASSUME NEW x \in Int, NEW y \in Int
  PROVE  Plus(Int2Ratio(x), Int2Ratio(y)) = Int2Ratio(x + y)
<1>1. Plus(Int2Ratio(x), Int2Ratio(y)) = Ratio(x + y, 1)
  BY DEF Plus, Int2Ratio
<1>2. (x + y) % 1 = 0 /\ (x + y) \div 1 = x + y /\ 1 \in Nat \ {0} /\ x + y \in Int
  OBVIOUS
<1>3. Ratio(x + y, 1) = <<(x + y) \div 1, 1>>
  BY <1>2, RatioIs
<1>4. QED
  BY <1>1, <1>2, <1>3 DEF Int2Ratio

\* The average times the time is the sum, as a number.
LEMMA AverageTimesTime ==
  ASSUME NEW avg, NEW s \in Int, NEW r \in Nat \ {0}, Is(avg, s, r)
  PROVE  Times(avg, Int2Ratio(r)) = Int2Ratio(s)
<1>1. PICK p \in Int, q \in Nat \ {0} : avg = <<p, q>> /\ p * r = s * q
  BY DEF Is
<1>2. Times(avg, Int2Ratio(r)) = Ratio(p * r, q * 1)
  BY <1>1 DEF Times, Int2Ratio
<1>3. q * 1 = q
  OBVIOUS
<1>4. PICK n \in Int : n = s * q
  OBVIOUS
<1>5. n % q = 0 /\ n \div q = s
  BY <1>4, Multiple
<1>6. Ratio(n, q) = <<s, 1>>
  BY <1>5, RatioIs
<1>7. QED
  BY <1>1, <1>2, <1>3, <1>4, <1>6 DEF Int2Ratio

\* The average over some time and a value for the time after it.
LEMMA AverageIs ==
  ASSUME NEW old, NEW value, NEW s \in Int, NEW x \in Int,
         NEW last \in Nat \ {0}, NEW weight \in Nat \ {0}, NEW count \in Nat, count > 2,
         Is(old, s, last), Is(value, x, weight)
  PROVE  Is(Average(old, value, weight, last, last + weight, count), s + x, last + weight)
<1>1. PICK new \in Nat \ {0} : new = last + weight
  OBVIOUS
<1>2. Is(Ratio(last, new), last, new) /\ Is(Ratio(weight, new), weight, new)
  <2>1. last \in Int /\ weight \in Int
    OBVIOUS
  <2>2. QED
    BY <2>1, RatioIs
<1>3. PICK a : a = Times(old, Ratio(last, new))
  OBVIOUS
<1>4. PICK b : b = Times(value, Ratio(weight, new))
  OBVIOUS
<1>5. Is(a, s, new)
  <2>1. Is(a, s * last, last * new)
    BY <1>2, <1>3, TimesIs
  <2>2. last * new = new * last
    OBVIOUS
  <2>3. QED
    BY <2>1, <2>2, LessTerms
<1>6. Is(b, x, new)
  <2>1. Is(b, x * weight, weight * new)
    BY <1>2, <1>4, TimesIs
  <2>2. weight * new = new * weight
    OBVIOUS
  <2>3. QED
    BY <2>1, <2>2, LessTerms
<1>7. Is(Plus(a, b), s + x, new)
  BY <1>5, <1>6, PlusIs
<1>8. Average(old, value, weight, last, new, count) = Plus(a, b)
  BY <1>3, <1>4 DEF Average
<1>9. QED
  BY <1>1, <1>7, <1>8

\* A sum and an average of the times before, and a value for the time since;
\* and the sum and the average that they are folded into.
Foldable(acc, avg, value, s, x, count, first, previous, current) ==
  /\ s \in Int /\ x \in Int
  /\ count \in Nat /\ first \in Nat /\ previous \in Nat /\ current \in Nat
  /\ count > 1 /\ previous < current
  /\ acc = Int2Ratio(s) /\ Is(value, x, current - previous)
  /\ count = 2 => s = 0 /\ first = previous
  /\ count > 2 => first < previous /\ Is(avg, s, previous - first)
FoldedTo(acc, avg, value, s, x, count, first, previous, current) ==
  /\ Plus(acc, Int2Ratio(x)) = Int2Ratio(s + x)
  /\ Is(Average(avg, value, current - previous, previous - first, current - first, count),
        s + x, current - first)

LEMMA Folded ==
  ASSUME NEW acc, NEW avg, NEW value, NEW s, NEW x,
         NEW count, NEW first, NEW previous, NEW current,
         Foldable(acc, avg, value, s, x, count, first, previous, current)
  PROVE  FoldedTo(acc, avg, value, s, x, count, first, previous, current)
<1> USE DEF Foldable
<1> SUFFICES /\ Plus(acc, Int2Ratio(x)) = Int2Ratio(s + x)
             /\ Is(Average(avg, value, current - previous, previous - first, current - first, count),
                   s + x, current - first)
  BY DEF FoldedTo
<1>1. Plus(acc, Int2Ratio(x)) = Int2Ratio(s + x)
  BY PlusIntegers
<1>2. CASE count = 2
  <2>1. Average(avg, value, current - previous, previous - first, current - first, count) = value
    BY <1>2 DEF Average
  <2>2. s + x = x /\ current - first = current - previous
    BY <1>2
  <2>3. QED
    BY <1>1, <2>1, <2>2
<1>3. CASE count > 2
  <2>1. PICK last \in Nat \ {0}, weight \in Nat \ {0} :
          /\ last = previous - first /\ weight = current - previous
          /\ current - first = last + weight
    BY <1>3
  <2>2. Is(Average(avg, value, weight, last, last + weight, count), s + x, last + weight)
    BY <1>3, <2>1, AverageIs
  <2>3. QED
    BY <1>1, <2>1, <2>2
<1>4. QED
  BY <1>1, <1>2, <1>3

-----------------------------------------------------------------------------
(* Counters.                                                               *)

LEMMA Division ==
  ASSUME NEW a \in Nat, NEW m \in Nat \ {0}
  PROVE  a \div m \in Nat /\ a % m \in 0 .. m - 1 /\ a = (a \div m) * m + (a % m)
<1>1. a % m = a - (a \div m) * m
  BY SMTT(30)
<1>2. a \div m \in Nat /\ a % m \in 0 .. m - 1
  OBVIOUS
<1>3. (a \div m) * m \in Int
  BY <1>2
<1>4. QED
  BY <1>1, <1>2, <1>3

\* What is made of two readings is what was counted between them, less one if
\* the counter went round, which it did once at most.
LEMMA WrapFixed ==
  ASSUME NEW a \in Nat, NEW b \in Nat, NEW m \in Nat, NEW e,
         Accumulates(e), event_ops[e].max_sample = m, b - a \in 0 .. m
  PROVE  FixOverflow(e, b % (m + 1), a % (m + 1)) = (b - a) - (b \div (m + 1) - a \div (m + 1))
<1>1. PICK n \in Nat \ {0} : n = m + 1
  OBVIOUS
<1>2. PICK q \in Nat, c \in 0 .. m : q = a \div n /\ c = a % n /\ a = q * n + c
  <2>1. PICK q, c : q = a \div n /\ c = a % n
    OBVIOUS
  <2>2. q \in Nat /\ c \in 0 .. n - 1 /\ a = q * n + c
    BY <2>1, Division
  <2>3. n - 1 = m
    BY <1>1
  <2>4. QED
    BY <2>1, <2>2, <2>3
<1>3. PICK r \in Nat, d \in 0 .. m : r = b \div n /\ d = b % n /\ b = r * n + d
  <2>1. PICK r, d : r = b \div n /\ d = b % n
    OBVIOUS
  <2>2. r \in Nat /\ d \in 0 .. n - 1 /\ b = r * n + d
    BY <2>1, Division
  <2>3. n - 1 = m
    BY <1>1
  <2>4. QED
    BY <2>1, <2>2, <2>3
<1>4. PICK k \in Int, w \in Int : k = r - q /\ w = k * n /\ b - a = w + (d - c)
  <2>1. r * n - q * n = (r - q) * n
    OBVIOUS
  <2>2. r - q \in Int /\ (r - q) * n \in Int
    OBVIOUS
  <2>3. b - a = (r - q) * n + (d - c)
    <3>1. PICK x \in Int, y \in Int : x = r * n /\ y = q * n
      OBVIOUS
    <3>2. a = y + c /\ b = x + d /\ x - y = (r - q) * n
      BY <1>2, <1>3, <2>1, <3>1
    <3>3. QED
      BY <2>2, <3>2
  <2>4. QED
    BY <2>2, <2>3
<1>5. k \in {0, 1}
  <2>1. k >= 2 => w >= 2 * n
    BY <1>4
  <2>2. k <= -1 => w <= -n
    BY <1>4
  <2>3. w <= 2 * m /\ w >= -m
    BY <1>4
  <2>4. QED
    BY <1>1, <2>1, <2>2, <2>3
<1>6. FixOverflow(e, d, c) = IF d < c THEN m - c + d ELSE d - c
  BY DEF FixOverflow
<1>7. CASE k = 0
  <2>1. w = 0
    BY <1>4, <1>7
  <2>2. ~(d < c) /\ b - a = d - c
    BY <1>4, <2>1
  <2>3. r = q
    BY <1>4, <1>7
  <2>4. QED
    BY <1>1, <1>2, <1>3, <1>6, <2>2, <2>3
<1>8. CASE k = 1
  <2>1. w = n
    BY <1>4, <1>8
  <2>2. d < c /\ b - a = n + (d - c)
    BY <1>1, <1>4, <2>1
  <2>3. r = q + 1
    BY <1>4, <1>8
  <2>4. QED
    BY <1>1, <1>2, <1>3, <1>6, <2>2, <2>3
<1>9. QED
  BY <1>5, <1>7, <1>8

-----------------------------------------------------------------------------
(* The invariant.                                                          *)

LEMMA InitSampling == Init => SamplingInv
<1> SUFFICES ASSUME Init PROVE SamplingInv
  OBVIOUS
<1> USE DEF Init
<1>1. Types
  <2>1. hw \in [Event -> Nat] /\ clock \in Nat \ {0}
    <3>1. \A h \in [Event -> Levels] : h \in [Event -> Nat]
      BY WorldAssumption
    <3>2. hw \in [Event -> Nat]
      BY <3>1
    <3>3. QED
      BY <3>2
  <2>2. buffer \in [counters : [1 .. 2 -> [Event -> Int]], samples : [1 .. 2 -> [Event -> Int]],
                    front : 1 .. 2]
    BY DEF Zeros
  <2>3. QED
    BY <2>1, <2>2 DEF Types
<1>2. TimesInv
  BY DEF TimesInv
<1>3. ASSUME NEW e \in Event PROVE (Accumulates(e) => CountersInv(e)) /\ PowerInv(e)
  <2>1. times.count = 0 /\ timer.at = "none"
    OBVIOUS
  <2>2. /\ stats.values0[e].ACC = Int2Ratio(0) /\ stats.values0[e].AVG = Int2Ratio(0)
        /\ stats.values1[e].ACC = Int2Ratio(0) /\ stats.values1[e].AVG = Int2Ratio(0)
    BY DEF Cleared, NoStats
  <2>3. CountersInv(e)
    BY <2>1, <2>2 DEF CountersInv
  <2>4. Fits(Int2Ratio(0), Int2Ratio(0))
    BY <2>1 DEF Fits, Int2Ratio
  <2>5. PowerInv(e)
    BY <2>2, <2>4 DEF PowerInv
  <2>6. QED
    BY <2>3, <2>5
<1>4. ReportFits
  BY DEF ReportFits
<1>5. QED
  BY <1>1, <1>2, <1>3, <1>4 DEF SamplingInv

\* The statistics and times stay, and so does what they say.
LEMMA StatisticsKept ==
  ASSUME SamplingInv, UNCHANGED <<event_ops, stats, field>>,
         UNCHANGED <<times, timer>> \/
           (times'.count = times.count /\ times'.first = times.first /\ latest' = latest)
  PROVE  ReportFits' /\ \A e \in Event : PowerInv(e)'
<1>1. ReportFits'
  BY DEF SamplingInv, ReportFits
<1>2. times'.count = times.count /\ times'.first = times.first /\ latest' = latest
  BY DEF latest
<1>3. ASSUME NEW e \in Event PROVE PowerInv(e)'
  BY <1>2, <1>3 DEF SamplingInv, PowerInv, Fits
<1>4. QED
  BY <1>1, <1>3

\* Time goes by, and no counter goes all the way round.
LEMMA ElapseKept == ASSUME SamplingInv, Elapse PROVE SamplingInv'
<1>1. /\ UNCHANGED <<event_ops, timer, buffer, stats, times, map, field, series>>
      /\ clock' = clock + 1
  BY DEF Elapse
<1>2. PICK more \in [Event -> Advances], level \in [Event -> Levels] :
        /\ hw' = [e \in Event |-> IF Accumulates(e) THEN hw[e] + more[e] ELSE level[e]]
        /\ \A e \in Event :
             Accumulates(e) => hw'[e] - LastRead(e) <= event_ops[e].max_sample
  BY DEF Elapse
<1>3. Types
  BY DEF SamplingInv
<1>4. hw' \in [Event -> Nat] /\ \A e \in Event : Accumulates(e) => hw'[e] >= hw[e]
  <2>1. \A e \in Event : more[e] \in Nat /\ level[e] \in Nat /\ hw[e] \in Nat
    BY <1>3, WorldAssumption DEF Types
  <2>2. \A e \in Event : hw'[e] = IF Accumulates(e) THEN hw[e] + more[e] ELSE level[e]
    BY <1>2
  <2>3. \A e \in Event : hw'[e] \in Nat /\ (Accumulates(e) => hw'[e] >= hw[e])
    BY <2>1, <2>2
  <2>4. hw' = [e \in Event |-> hw'[e]]
    BY <1>2
  <2>5. QED
    BY <2>3, <2>4
<1>5. Types'
  BY <1>1, <1>3, <1>4 DEF Types
<1>6. TimesInv'
  BY <1>1 DEF SamplingInv, TimesInv, latest
<1>7. ASSUME NEW e \in Event, Accumulates(e) PROVE CountersInv(e)'
  <2>1. CountersInv(e)
    BY <1>7 DEF SamplingInv
  <2>2. PICK n : n = Len(series)
    OBVIOUS
  <2>3. n \in Nat /\ (n > 0 => series # <<>> /\ series[n].hw[e] \in Nat)
    <3>1. series \in Seq([time : Nat, hw : [Event -> Nat]])
      BY <1>3 DEF Types
    <3>2. n \in Nat /\ (n > 0 => n \in 1 .. Len(series))
      BY <2>2, <3>1, LenProperties
    <3>3. n > 0 => series[n] \in [time : Nat, hw : [Event -> Nat]]
      BY <3>1, <3>2, ElementOfSeq
    <3>4. n > 0 => series # <<>>
      BY <2>2, <3>2, EmptySeq
    <3>5. QED
      BY <3>2, <3>3, <3>4
  <2>4. event_ops[e].max_sample \in Nat
    BY <1>3, OpsAssumption DEF Types
  <2>5. hw[e] \in Nat /\ hw'[e] \in Nat
    BY <1>3, <1>4 DEF Types
  <2>6. timer.at \in {"sleep", "read"} /\ n > 0 =>
          hw'[e] - series[n].hw[e] \in 0 .. event_ops[e].max_sample
    <3>1. SUFFICES ASSUME timer.at \in {"sleep", "read"}, n > 0
                   PROVE  hw'[e] - series[n].hw[e] \in 0 .. event_ops[e].max_sample
      OBVIOUS
    <3>2. hw[e] - series[n].hw[e] \in 0 .. event_ops[e].max_sample
      BY <2>1, <2>2, <3>1 DEF CountersInv
    <3>3. LastRead(e) = series[n].hw[e]
      BY <2>2, <2>3, <3>1 DEF LastRead
    <3>4. hw'[e] - series[n].hw[e] <= event_ops[e].max_sample /\ hw'[e] >= hw[e]
      BY <1>2, <1>4, <1>7, <3>3
    <3>5. QED
      BY <2>3, <2>4, <2>5, <3>1, <3>2, <3>4
  <2>7. QED
    BY <1>1, <2>1, <2>2, <2>6 DEF CountersInv, Shown, Counts, Rounds
<1>8. ReportFits' /\ \A e \in Event : PowerInv(e)'
  BY <1>1, StatisticsKept
<1>9. \A e \in Event : Accumulates(e)' <=> Accumulates(e)
  BY <1>1 DEF Accumulates
<1>10. QED
  BY <1>5, <1>6, <1>7, <1>8, <1>9 DEF SamplingInv

\* A reset forgets the samples and the statistics, whatever is left in the
\* buffers and in the current time.
LEMMA ClearKept ==
  ASSUME SamplingInv, Clear, UNCHANGED <<event_ops, clock, hw, field>>,
         timer' \in [at : {"ready"}, last : BOOLEAN, made : Int]
  PROVE  SamplingInv'
<1>1. Types
  BY DEF SamplingInv
<1>2. buffer' \in [counters : [1 .. 2 -> [Event -> Int]], samples : [1 .. 2 -> [Event -> Int]],
                   front : 1 .. 2]
  <2>1. PICK e \in Event : buffer' = [buffer EXCEPT !.counters = ClearBytes(@, e),
                                                    !.samples = ClearBytes(@, e)]
    BY DEF Clear
  <2>2. \A b \in [1 .. 2 -> [Event -> Int]] : ClearBytes(b, e) \in [1 .. 2 -> [Event -> Int]]
    <3>1. SUFFICES ASSUME NEW b \in [1 .. 2 -> [Event -> Int]]
                   PROVE  ClearBytes(b, e) \in [1 .. 2 -> [Event -> Int]]
      OBVIOUS
    <3>2. [b[1] EXCEPT ![e] = 0] \in [Event -> Int] /\ [b[2] EXCEPT ![e] = 0] \in [Event -> Int]
      OBVIOUS
    <3>3. QED
      BY <3>2 DEF ClearBytes
  <2>3. QED
    BY <1>1, <2>1, <2>2 DEF Types
<1>3. /\ series' = <<>>
      /\ times' = [times EXCEPT !.first = 0, !.previous = 0, !.count = 0]
      /\ stats' = [stats EXCEPT !.values0 = Cleared, !.values1 = Cleared]
  BY DEF Clear, ClearTimes, ClearStats
<1>4. /\ times' \in [current : Nat, previous : Nat, first : Nat, count : Nat]
      /\ times'.first = 0 /\ times'.count = 0
  BY <1>1, <1>3 DEF Types
<1>5. /\ stats' = [values0 |-> stats'.values0, values1 |-> stats'.values1,
                   last_values1 |-> stats'.last_values1]
      /\ stats'.values0 = Cleared /\ stats'.values1 = Cleared
  <2>1. PICK a, b, c : stats = [values0 |-> a, values1 |-> b, last_values1 |-> c]
    BY <1>1 DEF Types
  <2>2. QED
    BY <1>3, <2>1
<1>6. timer'.at = "ready" /\ timer' \in [at : {"none", "ready", "sleep", "read"}, last : BOOLEAN, made : Int]
  OBVIOUS
<1>7. Types'
  BY <1>1, <1>2, <1>3, <1>4, <1>5, <1>6 DEF Types
<1>8. TimesInv'
  BY <1>3, <1>4, <1>6 DEF TimesInv
<1>9. ASSUME NEW e \in Event PROVE CountersInv(e)' /\ PowerInv(e)'
  <2>1. /\ stats'.values0[e].ACC = Int2Ratio(0) /\ stats'.values0[e].AVG = Int2Ratio(0)
        /\ stats'.values1[e].ACC = Int2Ratio(0) /\ stats'.values1[e].AVG = Int2Ratio(0)
    BY <1>5 DEF Cleared, NoStats
  <2>2. CountersInv(e)'
    BY <1>4, <1>6, <2>1 DEF CountersInv
  <2>3. Fits(Int2Ratio(0), Int2Ratio(0))'
    BY <1>4 DEF Fits, Int2Ratio
  <2>4. PowerInv(e)'
    BY <2>1, <2>3 DEF PowerInv
  <2>5. QED
    BY <2>2, <2>4
<1>10. ReportFits'
  BY DEF SamplingInv, ReportFits
<1>11. QED
  BY <1>7, <1>8, <1>9, <1>10 DEF SamplingInv

\* The timer starts, or is destroyed without a last sample.
LEMMA StartKept == ASSUME SamplingInv, StartTimer \/ DestroyTimer PROVE SamplingInv'
<1>1. /\ UNCHANGED <<event_ops, clock, hw, buffer, stats, times, map, field, series>>
      /\ \/ timer.at = "ready" /\ timer' = [timer EXCEPT !.at = "sleep"]
         \/ timer.at = "sleep" /\ timer' = [timer EXCEPT !.at = "none"]
  BY DEF StartTimer, DestroyTimer
<1>2. Types /\ TimesInv
  BY DEF SamplingInv
<1>3. /\ timer' \in [at : {"none", "ready", "sleep", "read"}, last : BOOLEAN, made : Int]
      /\ timer'.at = IF timer.at = "ready" THEN "sleep" ELSE "none"
  BY <1>1, <1>2 DEF Types
<1>4. latest' = latest
  BY <1>1, <1>3 DEF latest
<1>5. Types'
  BY <1>1, <1>2, <1>3 DEF Types
<1>6. TimesInv'
  BY <1>1, <1>2, <1>3, <1>4 DEF TimesInv
<1>7. ASSUME NEW e \in Event, Accumulates(e)' PROVE CountersInv(e)'
  <2>1. CountersInv(e)
    BY <1>1, <1>7 DEF SamplingInv, Accumulates
  <2>2. timer.at = "ready" => Len(series) = 0
    BY <1>2 DEF TimesInv
  <2>3. timer'.at = "sleep" => timer.at = "ready"
    BY <1>3
  <2>4. timer'.at # "read" /\ (timer'.at = "sleep" => ~(Len(series') > 0))
    BY <1>1, <1>3, <2>2, <2>3
  <2>5. UNCHANGED <<Counts(e, times.count), times, stats, event_ops>>
    BY <1>1 DEF Counts, Rounds
  <2>6. QED
    BY <2>1, <2>4, <2>5 DEF CountersInv
<1>8. ReportFits' /\ \A e \in Event : PowerInv(e)'
  BY <1>1, <1>4, StatisticsKept
<1>9. QED
  BY <1>5, <1>6, <1>7, <1>8 DEF SamplingInv

\* The other buffer takes a new reading.
LEMMA SwapKept ==
  ASSUME SamplingInv, ~Softfail, NEW last \in BOOLEAN, SwapAndRead(last)
  PROVE  SamplingInv'
<1>1. PICK front : front = Other(buffer.front)
  OBVIOUS
<1>2. PICK new : new = [e \in Event |-> PapiRead(e)]
  OBVIOUS
<1>3. /\ UNCHANGED <<event_ops, clock, hw, stats, map, field>> /\ timer.at = "sleep"
      /\ last => times.count > 0
      /\ buffer' = [buffer EXCEPT !.front = front, !.counters[front] = new]
      /\ timer' = [timer EXCEPT !.at = "read", !.last = last]
      /\ times' = [times EXCEPT !.previous = times.current, !.current = times.previous]
      /\ series' = Append(series, [time |-> 0, hw |-> hw])
  <2>1. PICK failed \in {Softfail, FALSE} :
          buffer' = [buffer EXCEPT !.front = front,
                                   !.counters[front] = IF failed THEN @ ELSE new]
    BY <1>1, <1>2 DEF SwapAndRead
  <2>2. failed = FALSE
    BY <2>1, SoftfailAssumption
  <2>3. buffer' = [buffer EXCEPT !.front = front, !.counters[front] = new]
    BY <2>1, <2>2
  <2>4. QED
    BY <2>3 DEF SwapAndRead
<1>4. Types /\ TimesInv
  BY DEF SamplingInv
<1>5. front \in 1 .. 2 /\ front # buffer.front /\ Other(front) = buffer.front
  BY <1>1, <1>4 DEF Types, Other
<1>6. /\ timer' \in [at : {"none", "ready", "sleep", "read"}, last : BOOLEAN, made : Int]
      /\ timer'.at = "read" /\ timer'.last = last
  BY <1>3, <1>4 DEF Types
<1>7. /\ times' \in [current : Nat, previous : Nat, first : Nat, count : Nat]
      /\ times'.previous = times.current /\ times'.first = times.first
      /\ times'.count = times.count
  BY <1>3, <1>4 DEF Types
<1>8. latest' = latest
  BY <1>3, <1>6, <1>7 DEF latest
<1>9. PICK n \in Nat : n = Len(series) /\ n = times.count
  BY <1>3, <1>4 DEF Types, TimesInv
<1>10. /\ series' \in Seq([time : Nat, hw : [Event -> Nat]]) /\ Len(series') = n + 1
       /\ series'[n + 1].hw = hw /\ \A i \in 1 .. n : series'[i] = series[i]
  <2>1. [time |-> 0, hw |-> hw] \in [time : Nat, hw : [Event -> Nat]]
    BY <1>4 DEF Types
  <2>2. series \in Seq([time : Nat, hw : [Event -> Nat]])
    BY <1>4 DEF Types
  <2>3. PICK S, x : S = [time : Nat, hw : [Event -> Nat]] /\ x = [time |-> 0, hw |-> hw]
    OBVIOUS
  <2>4. x \in S /\ series \in Seq(S) /\ series' = Append(series, x)
    BY <1>3, <2>1, <2>2, <2>3
  <2>5. /\ series' \in Seq(S) /\ Len(series') = n + 1 /\ series'[n + 1] = x
        /\ \A i \in 1 .. n : series'[i] = series[i]
    <3>1. PICK s, u : s = series /\ u = series'
      OBVIOUS
    <3>2. s \in Seq(S) /\ x \in S /\ u = Append(s, x) /\ n = Len(s)
      BY <1>9, <2>4, <3>1
    <3>3. u \in Seq(S) /\ Len(u) = n + 1 /\ u[n + 1] = x /\ \A i \in 1 .. n : u[i] = s[i]
      <4>1. /\ Append(s, x) \in Seq(S) /\ Len(Append(s, x)) = Len(s) + 1
            /\ \A i \in 1 .. Len(s) : Append(s, x)[i] = s[i]
            /\ Append(s, x)[Len(s) + 1] = x
        BY <3>2
      <4>2. QED
        BY <3>2, <4>1
    <3>4. QED
      BY <3>1, <3>3
  <2>6. x.hw = hw
    BY <2>3
  <2>7. QED
    BY <2>3, <2>5, <2>6
<1>11. new \in [Event -> Int]
  <2>1. ASSUME NEW e \in Event PROVE PapiRead(e) \in Int
    <3>1. hw[e] \in Nat /\ event_ops[e].max_sample \in Nat
      BY <1>4, OpsAssumption DEF Types
    <3>2. hw[e] % (event_ops[e].max_sample + 1) \in Int
      BY <3>1
    <3>3. QED
      BY <3>1, <3>2 DEF PapiRead
  <2>2. QED
    BY <1>2, <2>1
<1>12. /\ buffer' \in [counters : [1 .. 2 -> [Event -> Int]], samples : [1 .. 2 -> [Event -> Int]],
                      front : 1 .. 2]
       /\ buffer'.front = front /\ buffer'.counters[front] = new
       /\ buffer'.counters[buffer.front] = buffer.counters[buffer.front]
  BY <1>3, <1>4, <1>5, <1>11 DEF Types
<1>13. Types'
  BY <1>3, <1>4, <1>6, <1>7, <1>10, <1>12 DEF Types
<1>14. TimesInv'
  BY <1>3, <1>4, <1>6, <1>7, <1>8, <1>9, <1>10 DEF TimesInv
<1>15. ASSUME NEW e \in Event, Accumulates(e)' PROVE CountersInv(e)'
  <2>1. CountersInv(e) /\ Accumulates(e)
    BY <1>3, <1>15 DEF SamplingInv, Accumulates
  <2>2. event_ops[e].max_sample \in Nat /\ hw[e] \in Nat
    BY <1>4, OpsAssumption DEF Types
  <2>3. /\ buffer'.counters[buffer'.front][e] = Shown(e, n + 1)'
        /\ hw'[e] - series'[n + 1].hw[e] \in 0 .. event_ops'[e].max_sample
    <3>1. new[e] = hw[e] % (event_ops[e].max_sample + 1)
      BY <1>2, <2>1 DEF PapiRead
    <3>2. Shown(e, n + 1)' = hw[e] % (event_ops[e].max_sample + 1)
      BY <1>3, <1>10 DEF Shown
    <3>3. hw'[e] - series'[n + 1].hw[e] = 0 /\ 0 \in 0 .. event_ops'[e].max_sample
      BY <1>3, <1>10, <2>2
    <3>4. buffer'.counters[buffer'.front][e] = new[e]
      BY <1>12
    <3>5. QED
      BY <3>1, <3>2, <3>3, <3>4
  <2>4. ASSUME n > 0
        PROVE  /\ buffer'.counters[Other(buffer'.front)][e] = Shown(e, n)'
               /\ series'[n + 1].hw[e] - series'[n].hw[e] \in 0 .. event_ops'[e].max_sample
    <3>1. series'[n] = series[n]
      BY <1>10, <2>4
    <3>2. /\ buffer.counters[buffer.front][e] = Shown(e, n)
          /\ hw[e] - series[n].hw[e] \in 0 .. event_ops[e].max_sample
      BY <1>3, <1>9, <2>1, <2>4 DEF CountersInv
    <3>3. Shown(e, n)' = Shown(e, n)
      BY <1>3, <3>1 DEF Shown
    <3>4. Other(buffer'.front) = buffer.front
      BY <1>5, <1>12
    <3>5. QED
      BY <1>3, <1>10, <1>12, <3>1, <3>2, <3>3, <3>4
  <2>5. n > 0 => Counts(e, n)' = Counts(e, n)
    <3>1. \A i \in 1 .. n : series'[i] = series[i]
      BY <1>10
    <3>2. n > 0 => n \in 1 .. n /\ 1 \in 1 .. n
      BY <1>9
    <3>3. n > 0 => series'[n] = series[n] /\ series'[1] = series[1]
      BY <3>1, <3>2
    <3>4. QED
      BY <1>3, <3>3 DEF Counts, Rounds
  <2>6. "ACC" \in event_ops'[e].value0 =>
          stats'.values0[e].ACC = Int2Ratio(IF times'.count = 0 THEN 0 ELSE Counts(e, times.count)')
    <3>1. "ACC" \in event_ops[e].value0 =>
            stats.values0[e].ACC = Int2Ratio(IF n = 0 THEN 0 ELSE Counts(e, n))
      BY <1>9, <2>1 DEF CountersInv
    <3>2. n # 0 => n > 0
      BY <1>9
    <3>3. (IF n = 0 THEN 0 ELSE Counts(e, n)') = IF n = 0 THEN 0 ELSE Counts(e, n)
      BY <2>5, <3>2
    <3>4. times'.count = n /\ event_ops' = event_ops /\ stats' = stats
      BY <1>3, <1>7, <1>9
    <3>5. QED
      BY <3>1, <3>3, <3>4
  <2>7. Len(series') = n + 1 /\ (n + 1 > 1 => n > 0) /\ n + 1 - 1 = n
    BY <1>10
  <2>8. QED
    BY <1>6, <2>3, <2>4, <2>6, <2>7 DEF CountersInv
<1>16. ReportFits' /\ \A e \in Event : PowerInv(e)'
  BY <1>3, <1>7, <1>8, StatisticsKept
<1>17. QED
  BY <1>13, <1>14, <1>15, <1>16 DEF SamplingInv

\* What is folded into the statistics of one event.
LEMMA StatsOf ==
  ASSUME NEW asked, NEW value, NEW t, NEW old
  PROVE  /\ "ACC" \in asked => Stats(asked, value, t, old).ACC = Plus(old.ACC, value)
         /\ "AVG" \in asked =>
              Stats(asked, value, t, old).AVG =
                Average(old.AVG, value, t.current - t.previous, t.previous - t.first,
                        t.current - t.first, t.count)
BY DEF Stats

\* The statistics of event e before and after sample x is folded in, at the
\* times t; and that what is reported fits together.
FoldsSample(e, x, t, old0, old1, value1, new0, new1) ==
  /\ t.current = clock /\ t.previous = times.previous /\ t.first = times.first
  /\ t.count = times.count + 1
  /\ old0 = stats.values0[e] /\ old1 = stats.values1[e]
  /\ value1 = ExecOp1(event_ops[e].op1, buffer.samples[Other(buffer.front)][e], x,
                      t.current - t.previous)
  /\ new0 = Stats(event_ops[e].value0, Int2Ratio(x), t, old0)
  /\ new1 = Stats(event_ops[e].value1, value1, t, old1)
FoldFits(e, new0, new1) ==
  /\ event_ops[e].op1 = "DIV_DIFF_TIME" =>
       /\ new0.ACC[1] \in Int /\ new0.ACC = Int2Ratio(new0.ACC[1])
       /\ Is(new1.AVG, new0.ACC[1], clock - times.first)
  /\ event_ops[e].op1 = "SAMPLE1_MUL_DIFF_TIME" =>
       /\ new1.ACC[1] \in Int /\ new1.ACC = Int2Ratio(new1.ACC[1])
       /\ Is(new0.AVG, new1.ACC[1], clock - times.first)

\* A sample was counted before: the step keeps sums and averages together.
LEMMA FoldedPower ==
  ASSUME SamplingInv, timer.at = "read", times.count > 0, clock > times.previous,
         NEW e \in Event, NEW x \in Int, NEW t, NEW old0, NEW old1, NEW value1, NEW new0, NEW new1,
         FoldsSample(e, x, t, old0, old1, value1, new0, new1)
  PROVE  FoldFits(e, new0, new1)
<1> USE DEF FoldsSample
<1>1. Types /\ TimesInv /\ PowerInv(e)
  BY DEF SamplingInv
<1>2. PICK first \in Nat, previous \in Nat, current \in Nat, count \in Nat :
        /\ first = times.first /\ previous = times.previous /\ current = clock
        /\ count = times.count + 1
  BY <1>1 DEF Types
<1>3. /\ previous < current /\ count > 1 /\ latest = previous
      /\ count = 2 => first = previous
      /\ count > 2 => first < previous
  <2>1. latest = times.previous
    BY DEF latest
  <2>2. times.count = count - 1 /\ count - 1 > 0 /\ clock > times.previous
    BY <1>1, <1>2 DEF Types
  <2>3. /\ count - 1 = 1 => first = previous
        /\ count - 1 > 1 => first < previous
    BY <1>1, <1>2, <2>1, <2>2 DEF TimesInv
  <2>4. latest = previous /\ previous < current /\ count > 1
    BY <1>2, <2>1, <2>2
  <2>5. (count = 2 => count - 1 = 1) /\ (count > 2 => count - 1 > 1)
    OBVIOUS
  <2>6. QED
    BY <2>3, <2>4, <2>5
<1>4. PICK dt \in Nat \ {0} : dt = current - previous
  BY <1>3
<1>5. ASSUME NEW acc, NEW avg, Fits(acc, avg)
      PROVE  /\ acc[1] \in Int /\ acc = Int2Ratio(acc[1])
             /\ count = 2 => acc[1] = 0
             /\ count > 2 => Is(avg, acc[1], previous - first)
  BY <1>1, <1>2, <1>3, <1>5 DEF Fits, Types
<1>6. CASE event_ops[e].op1 = "DIV_DIFF_TIME"
  <2>1. "ACC" \in event_ops[e].value0 /\ "AVG" \in event_ops[e].value1
    BY <1>1, <1>6, ReportedAssumption DEF Types
  <2>2. PICK s, avg : s = old0.ACC[1] /\ avg = old1.AVG
    OBVIOUS
  <2>3. Fits(old0.ACC, avg)
    BY <1>1, <1>6, <2>2 DEF PowerInv
  <2>4. s \in Int /\ old0.ACC = Int2Ratio(s) /\ (count = 2 => s = 0)
        /\ (count > 2 => Is(avg, s, previous - first))
    BY <1>5, <2>2, <2>3
  <2>5. value1 = Ratio(x, dt)
    BY <1>2, <1>4, <1>6 DEF ExecOp1
  <2>6. Is(value1, x, current - previous)
    BY <1>4, <2>5, RatioIs
  <2>7. /\ Plus(old0.ACC, Int2Ratio(x)) = Int2Ratio(s + x)
        /\ Is(Average(avg, value1, current - previous, previous - first, current - first, count),
              s + x, current - first)
    <3>1. PICK acc : acc = old0.ACC
      OBVIOUS
    <3>2. Foldable(acc, avg, value1, s, x, count, first, previous, current)
      BY <1>2, <1>3, <2>4, <2>6, <3>1 DEF Foldable
    <3>3. FoldedTo(acc, avg, value1, s, x, count, first, previous, current)
      BY <3>2, Folded
    <3>4. QED
      BY <3>1, <3>3 DEF FoldedTo
  <2>8. new0.ACC = Int2Ratio(s + x)
    BY <2>1, <2>7, StatsOf
  <2>9. new1.AVG = Average(avg, value1, current - previous, previous - first, current - first, count)
    BY <1>2, <2>1, <2>2, StatsOf
  <2>10. new0.ACC[1] = s + x /\ s + x \in Int
    BY <2>4, <2>8 DEF Int2Ratio
  <2>11. QED
    BY <1>2, <1>6, <2>7, <2>8, <2>9, <2>10 DEF FoldFits
<1>7. CASE event_ops[e].op1 = "SAMPLE1_MUL_DIFF_TIME"
  <2>1. "AVG" \in event_ops[e].value0 /\ "ACC" \in event_ops[e].value1
    BY <1>1, <1>7, ReportedAssumption DEF Types
  <2>2. PICK s, avg : s = old1.ACC[1] /\ avg = old0.AVG
    OBVIOUS
  <2>3. Fits(old1.ACC, avg)
    BY <1>1, <1>7, <2>2 DEF PowerInv
  <2>4. s \in Int /\ old1.ACC = Int2Ratio(s) /\ (count = 2 => s = 0)
        /\ (count > 2 => Is(avg, s, previous - first))
    BY <1>5, <2>2, <2>3
  <2>5. PICK y \in Int : y = x * dt
    OBVIOUS
  <2>6. value1 = Int2Ratio(y)
    BY <1>2, <1>4, <1>7, <2>5 DEF ExecOp1
  <2>7. Is(Int2Ratio(x), y, current - previous)
    <3>1. Is(Int2Ratio(x), y, dt)
      BY <2>5 DEF Is, Int2Ratio
    <3>2. QED
      BY <1>4, <3>1
  <2>8. /\ Plus(old1.ACC, Int2Ratio(y)) = Int2Ratio(s + y)
        /\ Is(Average(avg, Int2Ratio(x), current - previous, previous - first, current - first,
                      count), s + y, current - first)
    <3>1. PICK acc, value : acc = old1.ACC /\ value = Int2Ratio(x)
      OBVIOUS
    <3>2. Foldable(acc, avg, value, s, y, count, first, previous, current)
      BY <1>2, <1>3, <2>4, <2>7, <3>1 DEF Foldable
    <3>3. FoldedTo(acc, avg, value, s, y, count, first, previous, current)
      BY <3>2, Folded
    <3>4. QED
      BY <3>1, <3>3 DEF FoldedTo
  <2>9. new1.ACC = Int2Ratio(s + y)
    BY <2>1, <2>6, <2>8, StatsOf
  <2>10. new0.AVG = Average(avg, Int2Ratio(x), current - previous, previous - first,
                            current - first, count)
    BY <1>2, <2>1, <2>2, StatsOf
  <2>11. new1.ACC[1] = s + y /\ s + y \in Int
    BY <2>4, <2>9 DEF Int2Ratio
  <2>12. QED
    BY <1>2, <1>7, <2>8, <2>9, <2>10, <2>11 DEF FoldFits
<1>8. QED
  BY <1>6, <1>7 DEF FoldFits

LEMMA Telescopes ==
  ASSUME NEW a \in Int, NEW b \in Int, NEW first \in Int,
         NEW qa \in Int, NEW qb \in Int, NEW q1 \in Int
  PROVE  /\ (a - first) - (qa - q1) \in Int
         /\ ((a - first) - (qa - q1)) + ((b - a) - (qb - qa)) = (b - first) - (qb - q1)
OBVIOUS

\* The new samples are what was counted between the last two readings.
LEMMA SamplesCounted ==
  ASSUME SamplingInv, timer.at = "read"
  PROVE  /\ NewSamples \in [Event -> Int]
         /\ times.count > 0 =>
              \A e \in Event : Accumulates(e) =>
                /\ Counts(e, times.count) \in Int
                /\ Counts(e, times.count) + NewSamples[e] = Counts(e, times.count + 1)
<1>1. Types /\ TimesInv
  BY DEF SamplingInv
<1>2. PICK n \in Nat : n = times.count /\ Len(series) = n + 1
  BY <1>1 DEF Types, TimesInv
<1>3. \A i \in 1 .. n + 1 : \A e \in Event : series[i].hw[e] \in Nat
  <2>1. series \in Seq([time : Nat, hw : [Event -> Nat]])
    BY <1>1 DEF Types
  <2>2. \A i \in 1 .. n + 1 : series[i] \in [time : Nat, hw : [Event -> Nat]]
    BY <1>2, <2>1, ElementOfSeq
  <2>3. QED
    BY <2>2
<1>4. \A e \in Event : event_ops[e].max_sample \in Nat
  BY <1>1, OpsAssumption DEF Types
<1>5. NewSamples \in [Event -> Int]
  <2>1. ASSUME NEW e \in Event, NEW x \in Int, NEW y \in Int PROVE FixOverflow(e, x, y) \in Int
    BY <1>4 DEF FixOverflow
  <2>2. \A b \in 1 .. 2, e \in Event : buffer.counters[b][e] \in Int
    BY <1>1 DEF Types
  <2>3. buffer.front \in 1 .. 2 /\ Other(buffer.front) \in 1 .. 2
    BY <1>1 DEF Types, Other
  <2>4. \A e \in Event : FixOverflow(e, buffer.counters[buffer.front][e],
                                        buffer.counters[Other(buffer.front)][e]) \in Int
    BY <2>1, <2>2, <2>3
  <2>5. QED
    BY <2>4 DEF NewSamples
<1>6. ASSUME n > 0, NEW e \in Event, Accumulates(e)
      PROVE  Counts(e, n) \in Int /\ Counts(e, n) + NewSamples[e] = Counts(e, n + 1)
  <2>1. PICK a \in Nat, b \in Nat, first \in Nat, m \in Nat :
          /\ a = series[n].hw[e] /\ b = series[n + 1].hw[e] /\ first = series[1].hw[e]
          /\ m = event_ops[e].max_sample
    <3>1. n \in 1 .. n + 1 /\ n + 1 \in 1 .. n + 1 /\ 1 \in 1 .. n + 1
      BY <1>2, <1>6
    <3>2. QED
      BY <1>3, <1>4, <3>1
  <2>2. CountersInv(e)
    BY <1>6 DEF SamplingInv
  <2>3. /\ buffer.counters[buffer.front][e] = b % (m + 1)
        /\ buffer.counters[Other(buffer.front)][e] = a % (m + 1)
        /\ b - a \in 0 .. m
    <3>1. Len(series) > 0 /\ Len(series) > 1 /\ Len(series) - 1 = n
      BY <1>2, <1>6
    <3>2. /\ buffer.counters[buffer.front][e] = Shown(e, n + 1)
          /\ buffer.counters[Other(buffer.front)][e] = Shown(e, n)
          /\ series[n + 1].hw[e] - series[n].hw[e] \in 0 .. event_ops[e].max_sample
      BY <1>2, <2>2, <3>1 DEF CountersInv
    <3>3. QED
      BY <2>1, <3>2 DEF Shown
  <2>4. NewSamples[e] = FixOverflow(e, b % (m + 1), a % (m + 1))
    BY <2>3 DEF NewSamples
  <2>5. FixOverflow(e, b % (m + 1), a % (m + 1)) = (b - a) - (b \div (m + 1) - a \div (m + 1))
    BY <1>6, <2>1, <2>3, WrapFixed
  <2>6. PICK qa \in Int, qb \in Int, q1 \in Int :
          qa = a \div (m + 1) /\ qb = b \div (m + 1) /\ q1 = first \div (m + 1)
    <3>1. m + 1 \in Nat \ {0}
      BY <2>1
    <3>2. \A x \in Nat : x \div (m + 1) \in Int
      BY <3>1
    <3>3. QED
      BY <2>1, <3>2
  <2>7. /\ Counts(e, n) = (a - first) - (qa - q1)
        /\ Counts(e, n + 1) = (b - first) - (qb - q1)
    BY <2>1, <2>6 DEF Counts, Rounds
  <2>8. NewSamples[e] = (b - a) - (qb - qa)
    BY <2>4, <2>5, <2>6
  <2>9. a \in Int /\ b \in Int /\ first \in Int /\ qa \in Int /\ qb \in Int /\ q1 \in Int
    BY <2>1, <2>6
  <2>10. /\ (a - first) - (qa - q1) \in Int
         /\ ((a - first) - (qa - q1)) + ((b - a) - (qb - qa)) = (b - first) - (qb - q1)
    BY <2>9, Telescopes
  <2>11. QED
    BY <2>7, <2>8, <2>10
<1>7. QED
  BY <1>2, <1>5, <1>6

\* What a sample changes, apart from the fields.
LEMMA MeasureStep ==
  ASSUME SamplingInv, Measure, NEW n, n = times.count
  PROVE  /\ timer.at = "read" /\ clock > times.previous
         /\ UNCHANGED <<event_ops, clock, hw, map>>
         /\ n \in Nat /\ Len(series) = n + 1
         /\ times' \in [current : Nat, previous : Nat, first : Nat, count : Nat]
         /\ times'.current = clock /\ times'.previous = times.previous /\ times'.count = n + 1
         /\ times'.first = IF times.first = 0 THEN clock ELSE times.first
         /\ timer' \in [at : {"none", "ready", "sleep", "read"}, last : BOOLEAN, made : Int]
         /\ timer'.at \in {"none", "sleep"} /\ latest' = clock
         /\ series' \in Seq([time : Nat, hw : [Event -> Nat]]) /\ Len(series') = n + 1
         /\ \A i \in 1 .. n + 1 : series'[i].hw = series[i].hw
         /\ \A i \in 1 .. n : series'[i] = series[i]
         /\ series'[n + 1].time = clock
         /\ NewSamples \in [Event -> Int]
         /\ buffer' \in [counters : [1 .. 2 -> [Event -> Int]], samples : [1 .. 2 -> [Event -> Int]],
                         front : 1 .. 2]
         /\ buffer'.front = buffer.front /\ buffer'.counters = buffer.counters
         /\ buffer'.samples[buffer.front] = NewSamples
         /\ n > 0 =>
              /\ stats'.values0 =
                   [e \in Event |-> Stats(event_ops[e].value0, Int2Ratio(NewSamples[e]),
                                          times', stats.values0[e])]
              /\ stats'.values1 =
                   [e \in Event |->
                     Stats(event_ops[e].value1,
                           ExecOp1(event_ops[e].op1, buffer.samples[Other(buffer.front)][e],
                                   NewSamples[e], times'.current - times'.previous),
                           times', stats.values1[e])]
         /\ n = 0 => stats' = stats
         /\ n > 0 => /\ times.first \in Nat \ {0} /\ times.previous \in Nat
                     /\ times.first <= times.previous /\ times'.first = times.first
                     /\ n = 1 => times.first = times.previous
                     /\ n > 1 => times.first < times.previous
<1>1. PICK t : t = [times EXCEPT !.current = clock,
                                 !.first = IF @ = 0 THEN clock ELSE @,
                                 !.count = @ + 1]
  OBVIOUS
<1>2. PICK samples : samples = [buffer.samples EXCEPT ![buffer.front] = NewSamples]
  OBVIOUS
<1>3. PICK s : s = MeasureStats(t, NewSamples)
  OBVIOUS
<1>4. /\ timer.at = "read" /\ clock > times.previous
      /\ times' = t /\ buffer' = [buffer EXCEPT !.samples = samples] /\ stats' = s
      /\ timer' = [timer EXCEPT !.at = IF timer.last THEN "none" ELSE "sleep"]
      /\ series' = [series EXCEPT ![Len(series)].time = clock]
      /\ UNCHANGED <<event_ops, clock, hw, map>>
  BY <1>1, <1>2, <1>3 DEF Measure
<1>5. Types /\ TimesInv
  BY DEF SamplingInv
<1>6. /\ t \in [current : Nat, previous : Nat, first : Nat, count : Nat]
      /\ t.current = clock /\ t.previous = times.previous /\ t.count = times.count + 1
      /\ t.first = IF times.first = 0 THEN clock ELSE times.first
  <2>1. PICK f \in Nat : f = IF times.first = 0 THEN clock ELSE times.first
    BY <1>5 DEF Types
  <2>2. times \in [current : Nat, previous : Nat, first : Nat, count : Nat] /\ clock \in Nat
    BY <1>5 DEF Types
  <2>3. times.count + 1 \in Nat
    BY <2>2
  <2>4. t = [times EXCEPT !.current = clock, !.first = f, !.count = times.count + 1]
    BY <1>1, <2>1
  <2>5. /\ t.current = clock /\ t.first = f /\ t.count = times.count + 1
        /\ t.previous = times.previous
    BY <2>2, <2>4
  <2>6. t \in [current : Nat, previous : Nat, first : Nat, count : Nat]
    BY <2>1, <2>2, <2>3, <2>4
  <2>7. QED
    BY <2>1, <2>5, <2>6
<1>7. /\ timer' \in [at : {"none", "ready", "sleep", "read"}, last : BOOLEAN, made : Int]
      /\ timer'.at \in {"none", "sleep"}
  BY <1>4, <1>5 DEF Types
<1>8. latest' = clock
  BY <1>4, <1>6, <1>7 DEF latest
<1>9. n \in Nat /\ Len(series) = n + 1
  BY <1>4, <1>5 DEF Types, TimesInv
<1>10. /\ series' \in Seq([time : Nat, hw : [Event -> Nat]]) /\ Len(series') = n + 1
       /\ \A i \in 1 .. n + 1 : series'[i].hw = series[i].hw
       /\ \A i \in 1 .. n : series'[i] = series[i]
       /\ series'[n + 1].time = clock
  <2>1. PICK S : S = [time : Nat, hw : [Event -> Nat]]
    OBVIOUS
  <2>2. series \in Seq(S) /\ n + 1 \in 1 .. Len(series) /\ clock \in Nat
    BY <1>5, <1>9, <2>1 DEF Types
  <2>3. series[n + 1] \in S
    BY <2>2, ElementOfSeq
  <2>4. PICK x : x = [series[n + 1] EXCEPT !.time = clock]
    OBVIOUS
  <2>5. x \in S /\ x.hw = series[n + 1].hw /\ x.time = clock
    BY <2>1, <2>2, <2>3, <2>4
  <2>6. series' = [series EXCEPT ![n + 1] = x]
    BY <1>4, <1>9, <2>4
  <2>7. /\ series' \in Seq(S) /\ Len(series') = Len(series)
        /\ \A i \in 1 .. Len(series) : series'[i] = IF i = n + 1 THEN x ELSE series[i]
    BY <2>2, <2>5, <2>6
  <2>8. /\ Len(series) = n + 1 /\ n + 1 \in 1 .. n + 1
        /\ \A i \in 1 .. n : i \in 1 .. n + 1 /\ i # n + 1
    BY <1>9
  <2>9. series'[n + 1] = x /\ \A i \in 1 .. n : series'[i] = series[i]
    BY <2>7, <2>8
  <2>10. \A i \in 1 .. n + 1 : series'[i].hw = series[i].hw
    BY <2>5, <2>7, <2>8
  <2>11. QED
    BY <2>1, <2>5, <2>7, <2>8, <2>9, <2>10
<1>11. NewSamples \in [Event -> Int]
  BY <1>4, SamplesCounted
<1>12. /\ buffer' \in [counters : [1 .. 2 -> [Event -> Int]], samples : [1 .. 2 -> [Event -> Int]],
                      front : 1 .. 2]
       /\ buffer'.front = buffer.front /\ buffer'.counters = buffer.counters
       /\ buffer'.samples[buffer.front] = NewSamples
  <2>1. samples \in [1 .. 2 -> [Event -> Int]] /\ samples[buffer.front] = NewSamples
    BY <1>2, <1>5, <1>11 DEF Types
  <2>2. QED
    BY <1>4, <1>5, <2>1 DEF Types
<1>13. n > 0 =>
         /\ s.values0 = [e \in Event |-> Stats(event_ops[e].value0, Int2Ratio(NewSamples[e]),
                                               t, stats.values0[e])]
         /\ s.values1 = [e \in Event |->
              Stats(event_ops[e].value1,
                    ExecOp1(event_ops[e].op1, buffer.samples[Other(buffer.front)][e],
                            NewSamples[e], t.current - t.previous),
                    t, stats.values1[e])]
  <2>1. n > 0 => t.count # 1
    BY <1>6, <1>9
  <2>2. QED
    BY <1>3, <2>1 DEF MeasureStats
<1>14. n = 0 => s = stats
  <2>1. n = 0 => t.count = 1
    BY <1>6, <1>9
  <2>2. QED
    BY <1>3, <2>1 DEF MeasureStats
<1>15. ASSUME n > 0
       PROVE  /\ times.count > 0 /\ times.first \in Nat \ {0} /\ times.previous \in Nat
              /\ times.first <= times.previous /\ t.first = times.first
              /\ n = 1 => times.first = times.previous
              /\ n > 1 => times.first < times.previous
  <2>1. PICK first \in Nat, previous \in Nat : first = times.first /\ previous = times.previous
    BY <1>5 DEF Types
  <2>2. latest = previous
    BY <1>4, <2>1 DEF latest
  <2>3. n = 1 => 0 < first /\ first = previous
    BY <1>5, <1>9, <2>1, <2>2 DEF TimesInv
  <2>4. n > 1 => 0 < first /\ first < previous
    BY <1>5, <1>9, <2>1, <2>2 DEF TimesInv
  <2>5. n = 1 \/ n > 1
    BY <1>9, <1>15
  <2>6. first \in Nat \ {0} /\ first <= previous
    BY <2>1, <2>3, <2>4, <2>5
  <2>7. t.first = first
    BY <1>6, <2>1, <2>6
  <2>8. QED
    BY <1>9, <1>15, <2>1, <2>3, <2>4, <2>6, <2>7
<1>16. QED
  BY <1>4, <1>6, <1>7, <1>8, <1>9, <1>10, <1>11, <1>12, <1>13, <1>14, <1>15

\* A sample is taken.
LEMMA MeasureKept == ASSUME SamplingInv, Measure PROVE SamplingInv'
<1>1. PICK t : t = [times EXCEPT !.current = clock,
                                 !.first = IF @ = 0 THEN clock ELSE @,
                                 !.count = @ + 1]
  OBVIOUS
<1>2. PICK samples : samples = [buffer.samples EXCEPT ![buffer.front] = NewSamples]
  OBVIOUS
<1>3. PICK s : s = MeasureStats(t, NewSamples)
  OBVIOUS
<1>4. /\ timer.at = "read" /\ clock > times.previous
      /\ times' = t /\ buffer' = [buffer EXCEPT !.samples = samples] /\ stats' = s
      /\ field' = MeasureUpdate(t, s, samples, timer.last)
      /\ timer' = [timer EXCEPT !.at = IF timer.last THEN "none" ELSE "sleep"]
      /\ series' = [series EXCEPT ![Len(series)].time = clock]
      /\ UNCHANGED <<event_ops, clock, hw, map>>
  BY <1>1, <1>2, <1>3 DEF Measure
<1>5. Types /\ TimesInv
  BY DEF SamplingInv
<1>6. /\ t \in [current : Nat, previous : Nat, first : Nat, count : Nat]
      /\ t.current = clock /\ t.previous = times.previous /\ t.count = times.count + 1
      /\ t.first = IF times.first = 0 THEN clock ELSE times.first
  BY <1>4, MeasureStep
<1>7. /\ timer' \in [at : {"none", "ready", "sleep", "read"}, last : BOOLEAN, made : Int]
      /\ timer'.at \in {"none", "sleep"}
  BY <1>4, MeasureStep
<1>8. latest' = clock
  BY MeasureStep
<1>9. PICK n \in Nat : n = times.count /\ Len(series) = n + 1
  BY MeasureStep
<1>10. /\ series' \in Seq([time : Nat, hw : [Event -> Nat]]) /\ Len(series') = n + 1
       /\ \A i \in 1 .. n + 1 : series'[i].hw = series[i].hw
  BY <1>9, MeasureStep
<1>11. NewSamples \in [Event -> Int]
  BY <1>4, SamplesCounted
<1>12. /\ buffer' \in [counters : [1 .. 2 -> [Event -> Int]], samples : [1 .. 2 -> [Event -> Int]],
                      front : 1 .. 2]
       /\ buffer'.front = buffer.front /\ buffer'.counters = buffer.counters
  BY <1>9, MeasureStep
<1>13. /\ s = [values0 |-> s.values0, values1 |-> s.values1, last_values1 |-> s.last_values1]
       /\ field' = [sample |-> field'.sample, final |-> field'.final, runtime |-> field'.runtime,
                    values0 |-> field'.values0, values1 |-> field'.values1]
       /\ field'.final =>
            /\ timer.last /\ field'.runtime = t.current - t.first
            /\ field'.values0 = s.values0 /\ field'.values1 = s.values1
  <2>1. s = [values0 |-> s.values0, values1 |-> s.values1, last_values1 |-> s.last_values1]
    BY <1>3, <1>5 DEF MeasureStats, Types
  <2>2. CASE ~timer.last
    <3>1. field' = [field EXCEPT !.sample = samples[map], !.final = FALSE]
      BY <1>4, <2>2 DEF MeasureUpdate
    <3>2. field = [sample |-> field.sample, final |-> field.final, runtime |-> field.runtime,
                   values0 |-> field.values0, values1 |-> field.values1]
      BY <1>5 DEF Types
    <3>3. field' = [sample |-> samples[map], final |-> FALSE, runtime |-> field.runtime,
                    values0 |-> field.values0, values1 |-> field.values1]
      BY <3>1, <3>2
    <3>4. QED
      BY <2>1, <3>3
  <2>3. CASE timer.last
    <3>1. field' = [sample |-> samples[map], final |-> TRUE, runtime |-> t.current - t.first,
                    values0 |-> s.values0, values1 |-> s.values1]
      BY <1>4, <2>3 DEF MeasureUpdate
    <3>2. QED
      BY <2>1, <2>3, <3>1
  <2>4. QED
    BY <2>2, <2>3
<1>14. Types'
  BY <1>4, <1>5, <1>6, <1>7, <1>10, <1>12, <1>13 DEF Types
<1>15. TimesInv'
  <2>1. /\ times'.count = n + 1 /\ latest' = clock /\ clock \in Nat \ {0}
        /\ times'.first = IF times.first = 0 THEN clock ELSE times.first
    BY <1>4, <1>5, <1>6, <1>8, <1>9 DEF Types
  <2>2. n + 1 = 1 => 0 < times'.first /\ times'.first = latest'
    BY <1>5, <1>9, <2>1 DEF TimesInv
  <2>3. n + 1 > 1 => 0 < times'.first /\ times'.first < latest'
    <3>1. SUFFICES ASSUME n > 0 PROVE 0 < times'.first /\ times'.first < latest'
      BY <1>9
    <3>2. latest = times.previous /\ times.previous < clock
      BY <1>4 DEF latest
    <3>3. 0 < times.first /\ times.first <= times.previous
      BY <1>5, <1>9, <3>1, <3>2 DEF TimesInv, Types
    <3>4. QED
      BY <1>5, <2>1, <3>2, <3>3 DEF Types
  <2>4. timer'.at # "read" /\ timer'.at # "ready" /\ n + 1 # 0 /\ Len(series') = n + 1
    BY <1>7, <1>9, <1>10
  <2>5. times'.count = n + 1
    BY <2>1
  <2>6. QED
    BY <2>2, <2>3, <2>4, <2>5 DEF TimesInv
<1>16. n > 0 =>
         /\ s.values0 = [e \in Event |-> Stats(event_ops[e].value0, Int2Ratio(NewSamples[e]),
                                               t, stats.values0[e])]
         /\ s.values1 = [e \in Event |->
              Stats(event_ops[e].value1,
                    ExecOp1(event_ops[e].op1, buffer.samples[Other(buffer.front)][e],
                            NewSamples[e], t.current - t.previous),
                    t, stats.values1[e])]
  BY <1>4, <1>9, MeasureStep
<1>17. n = 0 => s = stats
  BY <1>4, <1>9, MeasureStep
<1>18. ASSUME n > 0
       PROVE  /\ times.count > 0 /\ times.first \in Nat \ {0} /\ times.previous \in Nat
              /\ times.first <= times.previous /\ t.first = times.first
  BY <1>4, <1>9, <1>18, MeasureStep
<1>19. ASSUME NEW e \in Event, Accumulates(e)' PROVE CountersInv(e)'
  <2>1. CountersInv(e) /\ Accumulates(e)
    BY <1>4, <1>19 DEF SamplingInv, Accumulates
  <2>2. ASSUME NEW i \in 1 .. n + 1
        PROVE  Shown(e, i)' = Shown(e, i) /\ Counts(e, i)' = Counts(e, i)
    <3>1. series'[i].hw = series[i].hw /\ series'[1].hw = series[1].hw
      BY <1>9, <1>10
    <3>2. QED
      BY <1>4, <3>1 DEF Shown, Counts, Rounds
  <2>3. n + 1 \in 1 .. n + 1 /\ n + 1 > 0
    BY <1>9
  <2>4. /\ buffer'.counters[buffer'.front][e] = Shown(e, n + 1)'
        /\ hw'[e] - series'[n + 1].hw[e] \in 0 .. event_ops'[e].max_sample
    <3>1. /\ buffer.counters[buffer.front][e] = Shown(e, n + 1)
          /\ hw[e] - series[n + 1].hw[e] \in 0 .. event_ops[e].max_sample
      BY <1>4, <1>9, <2>1, <2>3 DEF CountersInv
    <3>2. series'[n + 1].hw = series[n + 1].hw
      BY <1>10, <2>3
    <3>3. QED
      BY <1>4, <1>12, <2>2, <2>3, <3>1, <3>2
  <2>5. ASSUME "ACC" \in event_ops[e].value0
        PROVE  s.values0[e].ACC = Int2Ratio(Counts(e, n + 1))
    <3>1. CASE n = 0
      <4>1. s.values0[e].ACC = Int2Ratio(0)
        BY <1>9, <1>17, <2>1, <2>5, <3>1 DEF CountersInv
      <4>2. Counts(e, 1) = 0
        <5>1. PICK h \in Nat, m \in Nat : h = series[1].hw[e] /\ m = event_ops[e].max_sample
          <6>1. series[1] \in [time : Nat, hw : [Event -> Nat]]
            <7>1. 1 \in 1 .. Len(series)
              BY <1>9
            <7>2. QED
              BY <1>5, <7>1, ElementOfSeq DEF Types
          <6>2. event_ops[e].max_sample \in Nat
            BY <1>5, OpsAssumption DEF Types
          <6>3. QED
            BY <6>1, <6>2
        <5>2. PICK r : r = h \div (m + 1)
          OBVIOUS
        <5>3. r \in Int
          <6>1. m + 1 \in Nat \ {0}
            BY <5>1
          <6>2. QED
            BY <5>1, <5>2, <6>1
        <5>4. Counts(e, 1) = (h - h) - (r - r)
          BY <5>1, <5>2 DEF Counts, Rounds
        <5>5. QED
          BY <5>1, <5>3, <5>4
      <4>3. QED
        BY <3>1, <4>1, <4>2
    <3>2. CASE n > 0
      <4>1. stats.values0[e].ACC = Int2Ratio(Counts(e, n))
        BY <1>9, <2>1, <2>5, <3>2 DEF CountersInv
      <4>2. s.values0[e] = Stats(event_ops[e].value0, Int2Ratio(NewSamples[e]),
                                 t, stats.values0[e])
        BY <1>16, <3>2
      <4>3. s.values0[e].ACC = Plus(Int2Ratio(Counts(e, n)), Int2Ratio(NewSamples[e]))
        BY <2>5, <4>1, <4>2, StatsOf
      <4>4. Counts(e, n) \in Int /\ Counts(e, n) + NewSamples[e] = Counts(e, n + 1)
        BY <1>4, <1>9, <2>1, <3>2, SamplesCounted
      <4>5. NewSamples[e] \in Int
        BY <1>11
      <4>6. QED
        BY <4>3, <4>4, <4>5, PlusIntegers
    <3>3. QED
      BY <1>9, <3>1, <3>2
  <2>6. "ACC" \in event_ops'[e].value0 =>
          stats'.values0[e].ACC = Int2Ratio(IF times'.count = 0 THEN 0 ELSE Counts(e, times.count)')
    <3>1. times'.count = n + 1 /\ n + 1 # 0 /\ event_ops' = event_ops /\ stats' = s
      BY <1>4, <1>6, <1>9
    <3>2. Counts(e, n + 1)' = Counts(e, n + 1)
      BY <2>2, <2>3
    <3>3. QED
      BY <2>5, <3>1, <3>2
  <2>7. timer'.at # "read" /\ Len(series') = n + 1
    BY <1>7, <1>10
  <2>8. QED
    BY <2>4, <2>6, <2>7 DEF CountersInv
<1>20. ASSUME n > 0, NEW e \in Event
       PROVE  /\ event_ops[e].op1 = "DIV_DIFF_TIME" =>
                   /\ s.values0[e].ACC[1] \in Int
                   /\ s.values0[e].ACC = Int2Ratio(s.values0[e].ACC[1])
                   /\ Is(s.values1[e].AVG, s.values0[e].ACC[1], clock - times.first)
              /\ event_ops[e].op1 = "SAMPLE1_MUL_DIFF_TIME" =>
                   /\ s.values1[e].ACC[1] \in Int
                   /\ s.values1[e].ACC = Int2Ratio(s.values1[e].ACC[1])
                   /\ Is(s.values0[e].AVG, s.values1[e].ACC[1], clock - times.first)
  <2>1. PICK x \in Int : x = NewSamples[e]
    BY <1>11
  <2>2. PICK old0, old1 : old0 = stats.values0[e] /\ old1 = stats.values1[e]
    OBVIOUS
  <2>3. PICK value1 : value1 = ExecOp1(event_ops[e].op1, buffer.samples[Other(buffer.front)][e],
                                       x, t.current - t.previous)
    OBVIOUS
  <2>4. PICK new0, new1 : new0 = s.values0[e] /\ new1 = s.values1[e]
    OBVIOUS
  <2>5. /\ new0 = Stats(event_ops[e].value0, Int2Ratio(x), t, old0)
        /\ new1 = Stats(event_ops[e].value1, value1, t, old1)
    <3>1. s.values0[e] = Stats(event_ops[e].value0, Int2Ratio(NewSamples[e]), t, stats.values0[e])
      BY <1>16, <1>20
    <3>2. s.values1[e] =
            Stats(event_ops[e].value1,
                  ExecOp1(event_ops[e].op1, buffer.samples[Other(buffer.front)][e],
                          NewSamples[e], t.current - t.previous),
                  t, stats.values1[e])
      BY <1>16, <1>20
    <3>3. QED
      BY <2>1, <2>2, <2>3, <2>4, <3>1, <3>2
  <2>6. times.count > 0 /\ times.first # 0 /\ t.first = times.first
    BY <1>18, <1>20
  <2>7. FoldsSample(e, x, t, old0, old1, value1, new0, new1)
    BY <1>6, <2>2, <2>3, <2>5, <2>6 DEF FoldsSample
  <2>8. FoldFits(e, new0, new1)
    BY <1>4, <2>6, <2>7, FoldedPower
  <2>9. QED
    BY <2>4, <2>8 DEF FoldFits
<1>21. ASSUME NEW e \in Event PROVE PowerInv(e)'
  <2>1. times'.count = n + 1 /\ stats' = s /\ event_ops' = event_ops
    BY <1>4, <1>6, <1>9
  <2>2. CASE n = 0
    <3>1. PowerInv(e) /\ times.count <= 1 /\ times'.count <= 1 /\ ~(times'.count > 1)
      BY <1>9, <2>1, <2>2 DEF SamplingInv
    <3>2. ASSUME NEW acc, NEW avg, Fits(acc, avg)
          PROVE  acc[1] \in Int /\ acc = Int2Ratio(acc[1]) /\ acc[1] = 0
      BY <3>1, <3>2 DEF Fits
    <3>3. s = stats
      BY <1>17, <2>2
    <3>4. QED
      BY <2>1, <3>1, <3>2, <3>3 DEF PowerInv, Fits
  <2>3. CASE n > 0
    <3>1. times'.count > 1 /\ ~(times'.count <= 1)
      BY <1>9, <2>1, <2>3
    <3>2. latest' - times'.first = clock - times.first
      BY <1>4, <1>8, <1>18, <2>3
    <3>3. QED
      BY <1>20, <2>1, <2>3, <3>1, <3>2 DEF PowerInv, Fits
  <2>4. QED
    BY <1>9, <2>2, <2>3
<1>22. ReportFits'
  <2>1. SUFFICES ASSUME field'.final, NEW e \in Event
        PROVE  /\ event_ops'[e].op1 = "DIV_DIFF_TIME" =>
                    Times(field'.values1[e].AVG, Int2Ratio(field'.runtime))
                      = field'.values0[e].ACC
               /\ event_ops'[e].op1 = "SAMPLE1_MUL_DIFF_TIME" =>
                    Times(field'.values0[e].AVG, Int2Ratio(field'.runtime))
                      = field'.values1[e].ACC
    BY DEF ReportFits
  <2>2. n > 0
    BY <1>4, <1>5, <1>9, <1>13, <2>1 DEF TimesInv
  <2>3. PICK r \in Nat \ {0} : r = clock - times.first
    <3>1. clock \in Nat /\ clock > times.previous
      BY <1>4, <1>5 DEF Types
    <3>2. QED
      BY <1>18, <2>2, <3>1
  <2>4. field'.runtime = r /\ field'.values0 = s.values0 /\ field'.values1 = s.values1
    BY <1>6, <1>13, <1>18, <2>1, <2>2, <2>3
  <2>5. event_ops' = event_ops
    BY <1>4
  <2>6. ASSUME event_ops[e].op1 = "DIV_DIFF_TIME"
        PROVE  Times(s.values1[e].AVG, Int2Ratio(r)) = s.values0[e].ACC
    <3>1. PICK i, avg : i = s.values0[e].ACC[1] /\ avg = s.values1[e].AVG
      OBVIOUS
    <3>2. i \in Int /\ s.values0[e].ACC = Int2Ratio(i) /\ Is(avg, i, r)
      BY <1>20, <2>2, <2>3, <2>6, <3>1
    <3>3. QED
      BY <3>1, <3>2, AverageTimesTime
  <2>7. ASSUME event_ops[e].op1 = "SAMPLE1_MUL_DIFF_TIME"
        PROVE  Times(s.values0[e].AVG, Int2Ratio(r)) = s.values1[e].ACC
    <3>1. PICK i, avg : i = s.values1[e].ACC[1] /\ avg = s.values0[e].AVG
      OBVIOUS
    <3>2. i \in Int /\ s.values1[e].ACC = Int2Ratio(i) /\ Is(avg, i, r)
      BY <1>20, <2>2, <2>3, <2>7, <3>1
    <3>3. QED
      BY <3>1, <3>2, AverageTimesTime
  <2>8. QED
    BY <2>4, <2>5, <2>6, <2>7
<1>23. QED
  BY <1>14, <1>15, <1>19, <1>21, <1>22 DEF SamplingInv

-----------------------------------------------------------------------------
(* The invariant holds, and with it what is reported.                      *)

THEOREM SamplingInvariant ==
  ASSUME ~Softfail
  PROVE  Spec => []SamplingInv
<1>1. Init => SamplingInv
  BY InitSampling
<1>2. SamplingInv /\ [Next]_vars => SamplingInv'
  <2>1. SUFFICES ASSUME SamplingInv, [Next]_vars PROVE SamplingInv'
    OBVIOUS
  <2>2. CASE Elapse
    BY <2>1, <2>2, ElapseKept
  <2>3. CASE CreateTimer
    <3>1. timer.made + 1 \in Int
      BY <2>1 DEF SamplingInv, Types
    <3>2. timer' \in [at : {"ready"}, last : BOOLEAN, made : Int]
      BY <2>3, <3>1 DEF CreateTimer
    <3>3. Clear /\ UNCHANGED <<event_ops, clock, hw, field>>
      BY <2>3 DEF CreateTimer
    <3>4. QED
      BY <2>1, <3>2, <3>3, ClearKept
  <2>4. CASE ChangeTimer
    <3>1. timer' \in [at : {"ready"}, last : BOOLEAN, made : Int]
      BY <2>1, <2>4 DEF ChangeTimer, SamplingInv, Types
    <3>2. Clear /\ UNCHANGED <<event_ops, clock, hw, field>>
      BY <2>4 DEF ChangeTimer
    <3>3. QED
      BY <2>1, <3>1, <3>2, ClearKept
  <2>5. CASE StartTimer \/ DestroyTimer
    BY <2>1, <2>5, StartKept
  <2>6. ASSUME NEW last \in BOOLEAN, SwapAndRead(last) PROVE SamplingInv'
    BY <2>1, <2>6, SwapKept
  <2>7. CASE Measure
    BY <2>1, <2>7, MeasureKept
  <2>8. CASE UNCHANGED vars
    <3>1. /\ UNCHANGED <<event_ops, clock, hw, timer, buffer, stats, times, map>>
          /\ UNCHANGED <<field, series>>
      BY <2>8 DEF vars
    <3>2. Types' /\ TimesInv'
      BY <2>1, <3>1 DEF SamplingInv, Types, TimesInv, latest
    <3>3. ASSUME NEW e \in Event
          PROVE  (Accumulates(e)' => CountersInv(e)') /\ PowerInv(e)'
      BY <2>1, <3>1 DEF SamplingInv, Accumulates, CountersInv, Shown, Counts, Rounds,
                        PowerInv, Fits, latest
    <3>4. ReportFits'
      BY <2>1, <3>1 DEF SamplingInv, ReportFits
    <3>5. QED
      BY <3>2, <3>3, <3>4 DEF SamplingInv
  <2>9. QED
    BY <2>1, <2>2, <2>3, <2>4, <2>5, <2>6, <2>7, <2>8 DEF Next
<1>3. QED
  BY <1>1, <1>2, PTL DEF Spec

\* The energy that is reported is what the counters advanced from the first
\* sample to the last (less one for each wrap), and the average power over the
\* runtime is the energy, for energy counters and for power sensors; if no
\* read fails.
THEOREM EnergyIsReported ==
  ASSUME ~Softfail
  PROVE  Spec => []EnergyReported
<1>1. SamplingInv => EnergyReported
  <2>1. SUFFICES ASSUME SamplingInv PROVE EnergyReported
    OBVIOUS
  <2>2. ASSUME Done, Len(series) >= 1, NEW e \in Event,
               Accumulates(e), "ACC" \in event_ops[e].value0
        PROVE  stats.values0[e].ACC =
                 Int2Ratio((series[Len(series)].hw[e] - series[1].hw[e])
                           - (Rounds(e, Len(series)) - Rounds(e, 1)))
    <3>1. CountersInv(e)
      BY <2>1, <2>2 DEF SamplingInv
    <3>2. Len(series) = times.count /\ times.count # 0
      BY <2>1, <2>2 DEF SamplingInv, TimesInv, Types, Done
    <3>3. QED
      BY <2>2, <3>1, <3>2 DEF CountersInv, Counts
  <2>3. EnergyIsCounted
    BY <2>2 DEF EnergyIsCounted
  <2>4. QED
    BY <2>1, <2>3 DEF EnergyReported, SamplingInv
<1>2. QED
  BY <1>1, SamplingInvariant, PTL

-----------------------------------------------------------------------------
(* Ratios in lowest terms are equal when they are the same number.         *)

LEMMA Least ==
  ASSUME NEW T \in SUBSET Nat, T # {}
  PROVE  \E m \in T : \A k \in T : m <= k
<1> DEFINE R == OpToRel(<, Nat)
<1>1. IsWellFoundedOn(R, Nat)
  BY NatLessThanWellFounded
<1>2. \A x, y \in Nat : x < y => <<x, y>> \in R
  BY DEF OpToRel
<1> HIDE DEF R
<1>3. PICK m \in T : \A y \in T : <<y, m>> \notin R
  BY <1>1, WFMin
<1>4. \A k \in T : ~(k < m)
  <2>1. SUFFICES ASSUME NEW k \in T, k < m PROVE FALSE
    OBVIOUS
  <2>2. k \in Nat /\ m \in Nat
    OBVIOUS
  <2>3. <<k, m>> \in R
    BY <1>2, <2>1, <2>2
  <2>4. QED
    BY <1>3, <2>3
<1>5. QED
  BY <1>4

\* Division of any number by a positive one.
LEMMA Rest ==
  ASSUME NEW a \in Int, NEW m \in Nat \ {0}
  PROVE  a \div m \in Int /\ a % m \in 0 .. m - 1 /\ a % m = a - (a \div m) * m
<1>1. a % m = a - (a \div m) * m
  BY SMTT(30)
<1>2. a \div m \in Int /\ a % m \in 0 .. m - 1
  OBVIOUS
<1>3. QED
  BY <1>1, <1>2

\* The least positive combination of two numbers divides what combines.
Combines(n, d, k) == \E x, y \in Int : k = n * x + d * y
LEMMA LeastDivides ==
  ASSUME NEW n \in Int, NEW d \in Int, NEW g \in Nat \ {0}, Combines(n, d, g),
         \A k \in Nat \ {0} : Combines(n, d, k) => g <= k,
         NEW a \in Int, Combines(n, d, a)
  PROVE  a % g = 0
<1>1. PICK q \in Int, r \in 0 .. g - 1 : q = a \div g /\ r = a % g /\ r = a - q * g
  BY Rest
<1>2. PICK x \in Int, y \in Int : g = n * x + d * y
  BY DEF Combines
<1>3. PICK v \in Int, w \in Int : a = n * v + d * w
  BY DEF Combines
<1>4. r = n * (v - q * x) + d * (w - q * y)
  <2>1. r = (n * v + d * w) - q * (n * x + d * y)
    BY <1>1, <1>2, <1>3
  <2>2. q * (n * x + d * y) = n * (q * x) + d * (q * y)
    OBVIOUS
  <2>3. n * (v - q * x) = n * v - n * (q * x) /\ d * (w - q * y) = d * w - d * (q * y)
    OBVIOUS
  <2>4. QED
    BY <2>1, <2>2, <2>3
<1>5. Combines(n, d, r)
  <2>1. v - q * x \in Int /\ w - q * y \in Int
    OBVIOUS
  <2>2. QED
    BY <1>4, <2>1 DEF Combines
<1>6. r = 0
  <2>1. r \in Nat /\ r < g
    BY <1>1
  <2>2. QED
    BY <1>5, <2>1
<1>7. QED
  BY <1>1, <1>6

\* A ratio with no common divisor.
Reduced(r) ==
  r \in Int \X (Nat \ {0}) /\ Combines(r[1], r[2], 1)

LEMMA LowestTerms ==
  ASSUME NEW n \in Int, NEW d \in Nat \ {0}
  PROVE  Reduced(Ratio(n, d))
<1> DEFINE T == {k \in 1 .. d : n % k = 0 /\ d % k = 0}
           C == {k \in Nat \ {0} : Combines(n, d, k)}
<1>1. 1 \in T
  OBVIOUS
<1>2. PICK m : m = Max(T)
  OBVIOUS
<1>3. m \in T /\ \A k \in T : k <= m
  <2>1. T \in SUBSET (0 .. d) /\ T # {}
    BY <1>1
  <2>2. QED
    BY <1>2, <2>1, GreatestThere
<1>4. Ratio(n, d) = <<n \div m, d \div m>>
  BY <1>2 DEF Ratio
<1>5. m \in Nat \ {0} /\ n % m = 0 /\ d % m = 0
  BY <1>3
<1>6. PICK p \in Int, q \in Int : /\ p = n \div m /\ p * m = n
                                  /\ q = d \div m /\ q * m = d
  BY <1>5, Divided
<1>7. q \in Nat \ {0}
  BY <1>5, <1>6
<1>8. Combines(n, d, n) /\ Combines(n, d, d)
  <2>1. n = n * 1 + d * 0 /\ d = n * 0 + d * 1
    OBVIOUS
  <2>2. QED
    BY <2>1 DEF Combines
<1>9. PICK g \in C : \A k \in C : g <= k
  <2>1. d \in C
    BY <1>8
  <2>2. C \in SUBSET Nat
    OBVIOUS
  <2>3. QED
    BY <2>1, <2>2, Least
<1>10. n % g = 0 /\ d % g = 0
  BY <1>8, <1>9, LeastDivides
<1>11. g <= m
  <2>1. g \in Nat \ {0}
    OBVIOUS
  <2>2. PICK k \in Int : k * g = d
    <3>1. d \div g \in Int /\ (d \div g) * g = d
      BY <1>10, <2>1, Divided
    <3>2. QED
      BY <3>1
  <2>3. g <= d
    BY <2>1, <2>2
  <2>4. g \in T
    BY <1>10, <2>1, <2>3
  <2>5. QED
    BY <1>3, <2>4
<1>12. PICK x \in Int, y \in Int : g = n * x + d * y
  BY <1>9 DEF Combines
<1>13. PICK u \in Int : u = p * x + q * y
  OBVIOUS
<1>14. g = u * m
  <2>1. m \in Int /\ p \in Int /\ q \in Int /\ x \in Int /\ y \in Int
    BY <1>5, <1>6, <1>12
  <2>2. n * x = (p * x) * m
    <3>1. n * x = (p * m) * x
      BY <1>6
    <3>2. QED
      BY <2>1, <3>1
  <2>3. d * y = (q * y) * m
    <3>1. d * y = (q * m) * y
      BY <1>6
    <3>2. QED
      BY <2>1, <3>1
  <2>4. (p * x) * m + (q * y) * m = (p * x + q * y) * m
    BY <2>1
  <2>5. QED
    BY <1>12, <1>13, <2>2, <2>3, <2>4
<1>15. u = 1
  <2>1. g \in Nat \ {0} /\ m \in Nat \ {0} /\ u * m <= m /\ u * m > 0
    BY <1>5, <1>11, <1>14
  <2>2. QED
    BY <2>1
<1>16. QED
  BY <1>4, <1>6, <1>7, <1>13, <1>15 DEF Reduced, Combines

LEMMA IntegersReduced == ASSUME NEW n \in Int PROVE Reduced(Int2Ratio(n))
<1>1. 1 = n * 0 + 1 * 1
  OBVIOUS
<1>2. QED
  BY <1>1 DEF Reduced, Combines, Int2Ratio

\* What divides a product and nothing of one factor divides the other one.
Divides(d, n) == \E k \in Int : n = d * k
SameProducts(a1, a2, b1, b2) == a1 * b2 = b1 * a2
LEMMA DenominatorDivides ==
  ASSUME NEW a1 \in Int, NEW a2 \in Int, NEW b1 \in Int, NEW b2 \in Int,
         Combines(a1, a2, 1), SameProducts(a1, a2, b1, b2)
  PROVE  Divides(a2, b2)
<1> USE DEF SameProducts
<1>1. PICK x \in Int, y \in Int : 1 = a1 * x + a2 * y
  BY DEF Combines
<1>2. b2 = b2 * (a1 * x + a2 * y)
  BY <1>1
<1>3. b2 * (a1 * x + a2 * y) = (a1 * b2) * x + a2 * (b2 * y)
  OBVIOUS
<1>4. (a1 * b2) * x = a2 * (b1 * x)
  <2>1. (a1 * b2) * x = (b1 * a2) * x
    OBVIOUS
  <2>2. QED
    BY <2>1
<1>5. a2 * (b1 * x) + a2 * (b2 * y) = a2 * (b1 * x + b2 * y)
  OBVIOUS
<1>6. b1 * x + b2 * y \in Int
  OBVIOUS
<1>7. QED
  BY <1>2, <1>3, <1>4, <1>5, <1>6 DEF Divides

LEMMA SameRatio ==
  ASSUME NEW a, NEW b, Reduced(a), Reduced(b), a[1] * b[2] = b[1] * a[2]
  PROVE  a = b
<1>1. PICK a1 \in Int, a2 \in Nat \ {0} : a = <<a1, a2>> /\ Combines(a1, a2, 1)
  BY DEF Reduced
<1>2. PICK b1 \in Int, b2 \in Nat \ {0} : b = <<b1, b2>> /\ Combines(b1, b2, 1)
  BY DEF Reduced
<1>3. a1 * b2 = b1 * a2
  BY <1>1, <1>2
<1>4. a1 \in Int /\ a2 \in Int /\ b1 \in Int /\ b2 \in Int
  BY <1>1, <1>2
<1>5. PICK k \in Int : b2 = a2 * k
  <2>1. SameProducts(a1, a2, b1, b2)
    BY <1>3 DEF SameProducts
  <2>2. Divides(a2, b2)
    BY <1>1, <1>4, <2>1, DenominatorDivides
  <2>3. QED
    BY <2>2 DEF Divides
<1>6. PICK l \in Int : a2 = b2 * l
  <2>1. SameProducts(b1, b2, a1, a2)
    BY <1>3 DEF SameProducts
  <2>2. Divides(b2, a2)
    BY <1>2, <1>4, <2>1, DenominatorDivides
  <2>3. QED
    BY <2>2 DEF Divides
<1>7. a2 = b2
  <2>1. k > 0 /\ l > 0
    BY <1>5, <1>6
  <2>2. b2 >= a2
    BY <1>5, <2>1
  <2>3. a2 >= b2
    BY <1>6, <2>1
  <2>4. QED
    BY <2>2, <2>3
<1>8. a1 = b1
  <2>1. a1 * a2 = b1 * a2
    BY <1>3, <1>7
  <2>2. QED
    BY <2>1, Cancel
<1>9. QED
  BY <1>1, <1>2, <1>7, <1>8

-----------------------------------------------------------------------------
(* Totals: the recursion has a solution, it is the only one, and it takes  *)
(* one value after the other.                                              *)

Totals(f, v, n) ==
  f = [i \in 1 .. n |-> IF i = 1 THEN Int2Ratio(0) ELSE Plus(f[i - 1], v[i])]

LEMMA TotalsThere ==
  ASSUME NEW v, NEW n \in Nat \ {0}
  PROVE  \E f : Totals(f, v, n)
<1> DEFINE T == {k \in Nat \ {0} : ~\E f : Totals(f, v, k)}
<1>1. SUFFICES ASSUME T # {} PROVE FALSE
  OBVIOUS
<1>2. PICK m \in T : \A k \in T : m <= k
  <2>1. T \in SUBSET Nat
    OBVIOUS
  <2>2. QED
    BY <1>1, <2>1, Least
<1>3. m \in Nat \ {0} /\ ~\E f : Totals(f, v, m)
  OBVIOUS
<1>4. CASE m = 1
  <2>1. PICK f : f = [i \in 1 .. 1 |-> Int2Ratio(0)]
    OBVIOUS
  <2>2. f = [i \in 1 .. 1 |-> IF i = 1 THEN Int2Ratio(0) ELSE Plus(f[i - 1], v[i])]
    BY <2>1
  <2>3. QED
    BY <1>3, <1>4, <2>2 DEF Totals
<1>5. CASE m > 1
  <2>1. m - 1 \in Nat \ {0} /\ m - 1 \notin T
    BY <1>2, <1>3, <1>5
  <2>2. PICK f : Totals(f, v, m - 1)
    BY <2>1
  <2>3. PICK g : g = [i \in 1 .. m |-> IF i = m THEN Plus(f[m - 1], v[m]) ELSE f[i]]
    OBVIOUS
  <2>4. ASSUME NEW i \in 1 .. m
        PROVE  g[i] = IF i = 1 THEN Int2Ratio(0) ELSE Plus(g[i - 1], v[i])
    <3>1. CASE i = 1
      BY <1>3, <1>5, <2>1, <2>2, <2>3, <3>1 DEF Totals
    <3>2. CASE i = m
      <4>1. i # 1 /\ i - 1 \in 1 .. m /\ i - 1 # m /\ i - 1 = m - 1
        BY <1>3, <1>5, <3>2
      <4>2. g[i - 1] = f[m - 1]
        BY <2>3, <4>1
      <4>3. QED
        BY <2>3, <3>2, <4>1, <4>2
    <3>3. CASE i # 1 /\ i # m
      <4>1. i \in 1 .. m - 1 /\ i - 1 \in 1 .. m /\ i - 1 # m
        BY <1>3, <3>3
      <4>2. g[i] = f[i] /\ g[i - 1] = f[i - 1]
        BY <2>3, <3>3, <4>1
      <4>3. f[i] = Plus(f[i - 1], v[i])
        BY <2>2, <3>3, <4>1 DEF Totals
      <4>4. QED
        BY <3>3, <4>2, <4>3
    <3>4. QED
      BY <3>1, <3>2, <3>3
  <2>5. g = [i \in 1 .. m |-> IF i = 1 THEN Int2Ratio(0) ELSE Plus(g[i - 1], v[i])]
    BY <2>3, <2>4
  <2>6. QED
    BY <1>3, <2>5 DEF Totals
<1>6. QED
  BY <1>3, <1>4, <1>5

LEMMA TotalsAgree ==
  ASSUME NEW v, NEW w, NEW f, NEW g, NEW n \in Nat, NEW k \in Nat, n <= k,
         Totals(f, v, n), Totals(g, w, k), \A i \in 2 .. n : v[i] = w[i]
  PROVE  \A i \in 1 .. n : f[i] = g[i]
<1> DEFINE T == {i \in 1 .. n : f[i] # g[i]}
<1>1. SUFFICES ASSUME T # {} PROVE FALSE
  OBVIOUS
<1>2. PICK m \in T : \A i \in T : m <= i
  <2>1. T \in SUBSET Nat
    OBVIOUS
  <2>2. QED
    BY <1>1, <2>1, Least
<1>3. m \in 1 .. n /\ m \in 1 .. k /\ f[m] # g[m]
  OBVIOUS
<1>4. m # 1
  BY <1>3 DEF Totals
<1>5. m - 1 \in 1 .. n /\ m - 1 \notin T /\ m \in 2 .. n
  BY <1>2, <1>3, <1>4
<1>6. f[m - 1] = g[m - 1] /\ v[m] = w[m]
  BY <1>5
<1>7. f[m] = Plus(f[m - 1], v[m]) /\ g[m] = Plus(g[m - 1], w[m])
  BY <1>3, <1>4 DEF Totals
<1>8. QED
  BY <1>3, <1>6, <1>7

LEMMA TotalIs ==
  ASSUME NEW v, NEW n \in Nat \ {0}
  PROVE  \E f : Totals(f, v, n) /\ Total(v, n) = f[n]
<1>1. PICK f : f = CHOOSE g : Totals(g, v, n)
  OBVIOUS
<1>2. Totals(f, v, n)
  BY <1>1, TotalsThere
<1>3. Total(v, n) = f[n]
  BY <1>1 DEF Total, Totals
<1>4. QED
  BY <1>2, <1>3

LEMMA TotalSteps ==
  ASSUME NEW v, NEW n \in Nat \ {0}
  PROVE  Total(v, 1) = Int2Ratio(0) /\ Total(v, n + 1) = Plus(Total(v, n), v[n + 1])
<1>1. PICK f : Totals(f, v, 1) /\ Total(v, 1) = f[1]
  BY TotalIs
<1>2. Total(v, 1) = Int2Ratio(0)
  BY <1>1 DEF Totals
<1>3. PICK g : Totals(g, v, n) /\ Total(v, n) = g[n]
  BY TotalIs
<1>4. PICK h : Totals(h, v, n + 1) /\ Total(v, n + 1) = h[n + 1]
  <2>1. n + 1 \in Nat \ {0}
    OBVIOUS
  <2>2. QED
    BY <2>1, TotalIs
<1>5. \A i \in 1 .. n : g[i] = h[i]
  <2>1. n \in Nat /\ n + 1 \in Nat /\ n <= n + 1
    OBVIOUS
  <2>2. QED
    BY <1>3, <1>4, <2>1, TotalsAgree
<1>6. h[n + 1] = Plus(h[n], v[n + 1])
  <2>1. n + 1 \in 1 .. n + 1 /\ n + 1 # 1 /\ n + 1 - 1 = n
    OBVIOUS
  <2>2. QED
    BY <1>4, <2>1 DEF Totals
<1>7. QED
  BY <1>2, <1>3, <1>4, <1>5, <1>6

LEMMA SameTotal ==
  ASSUME NEW v, NEW w, NEW n \in Nat \ {0}, \A i \in 2 .. n : v[i] = w[i]
  PROVE  Total(v, n) = Total(w, n)
<1>1. PICK f : Totals(f, v, n) /\ Total(v, n) = f[n]
  BY TotalIs
<1>2. PICK g : Totals(g, w, n) /\ Total(w, n) = g[n]
  BY TotalIs
<1>3. \A i \in 1 .. n : f[i] = g[i]
  BY <1>1, <1>2, TotalsAgree
<1>4. QED
  BY <1>1, <1>2, <1>3

-----------------------------------------------------------------------------
(* Sums and averages of any ratios.                                        *)

IsRatio(r) == r \in Int \X (Nat \ {0})

LEMMA Scaled ==
  ASSUME NEW r, NEW n \in Int, NEW d \in Nat \ {0}, NEW k \in Nat \ {0}, Is(r, n, d)
  PROVE  Is(r, n * k, d * k)
<1>1. PICK p \in Int, q \in Nat \ {0} : r = <<p, q>> /\ p * d = n * q
  BY DEF Is
<1>2. p * (d * k) = (n * k) * q
  <2>1. p * (d * k) = (p * d) * k
    BY <1>1
  <2>2. (p * d) * k = (n * q) * k
    BY <1>1
  <2>3. (n * q) * k = (n * k) * q
    BY <1>1
  <2>4. QED
    BY <2>1, <2>2, <2>3
<1>3. QED
  BY <1>1, <1>2 DEF Is

LEMMA PlusRatios ==
  ASSUME NEW a, NEW b, NEW n \in Int, NEW m \in Int, NEW d \in Nat \ {0}, NEW e \in Nat \ {0},
         Is(a, n, d), Is(b, m, e)
  PROVE  Is(Plus(a, b), n * e + m * d, d * e)
<1>1. Is(a, n * e, d * e) /\ Is(b, m * d, e * d)
  BY Scaled
<1>2. PICK i \in Int, j \in Int, k \in Nat \ {0} : i = n * e /\ j = m * d /\ k = d * e /\ k = e * d
  <2>1. n * e \in Int /\ m * d \in Int /\ d * e \in Nat \ {0} /\ d * e = e * d
    OBVIOUS
  <2>2. QED
    BY <2>1
<1>3. Is(a, i, k) /\ Is(b, j, k)
  BY <1>1, <1>2
<1>4. Is(Plus(a, b), i + j, k)
  BY <1>3, PlusIs
<1>5. QED
  BY <1>2, <1>4

\* What is p by q in time t is any other form of p by q in time t.
LEMMA Transported ==
  ASSUME NEW r, NEW w, NEW p \in Int, NEW q \in Nat \ {0}, NEW t \in Nat \ {0},
         Is(r, p, q * t), Is(w, p, q)
  PROVE  Is(r, w[1], w[2] * t)
<1>1. PICK r1 \in Int, r2 \in Nat \ {0} : r = <<r1, r2>> /\ r1 * (q * t) = p * r2
  BY DEF Is
<1>2. PICK w1 \in Int, w2 \in Nat \ {0} : w = <<w1, w2>> /\ w1 * q = p * w2
  BY DEF Is
<1>3. (r1 * (w2 * t)) * q = (w1 * r2) * q
  <2>1. (r1 * (w2 * t)) * q = (r1 * (q * t)) * w2
    BY <1>1, <1>2
  <2>2. (r1 * (q * t)) * w2 = (p * r2) * w2
    BY <1>1
  <2>3. (p * r2) * w2 = (p * w2) * r2
    BY <1>1, <1>2
  <2>4. (p * w2) * r2 = (w1 * q) * r2
    BY <1>2
  <2>5. (w1 * q) * r2 = (w1 * r2) * q
    BY <1>1, <1>2
  <2>6. QED
    BY <2>1, <2>2, <2>3, <2>4, <2>5
<1>4. r1 * (w2 * t) = w1 * r2
  <2>1. r1 * (w2 * t) \in Int /\ w1 * r2 \in Int
    BY <1>1, <1>2
  <2>2. QED
    BY <1>3, <2>1, Cancel
<1>5. QED
  BY <1>1, <1>2, <1>4 DEF Is

LEMMA ItselfIs == ASSUME NEW r, IsRatio(r) PROVE Is(r, r[1], r[2])
BY DEF Is, IsRatio

LEMMA PlusReduced ==
  ASSUME NEW a, NEW b, IsRatio(a), IsRatio(b)
  PROVE  Reduced(Plus(a, b)) /\ IsRatio(Plus(a, b))
<1>1. PICK a1 \in Int, a2 \in Nat \ {0} : a = <<a1, a2>>
  BY DEF IsRatio
<1>2. PICK b1 \in Int, b2 \in Nat \ {0} : b = <<b1, b2>>
  BY DEF IsRatio
<1>3. PICK n \in Int, d \in Nat \ {0} : Plus(a, b) = Ratio(n, d)
  <2>1. a1 * b2 + b1 * a2 \in Int /\ a2 * b2 \in Nat \ {0}
    BY <1>1, <1>2
  <2>2. Plus(a, b) = Ratio(a1 * b2 + b1 * a2, a2 * b2)
    BY <1>1, <1>2 DEF Plus
  <2>3. QED
    BY <2>1, <2>2
<1>4. QED
  BY <1>3, LowestTerms DEF Reduced, IsRatio

LEMMA TimesReduced ==
  ASSUME NEW a, NEW b, IsRatio(a), IsRatio(b)
  PROVE  Reduced(Times(a, b)) /\ IsRatio(Times(a, b))
<1>1. PICK a1 \in Int, a2 \in Nat \ {0} : a = <<a1, a2>>
  BY DEF IsRatio
<1>2. PICK b1 \in Int, b2 \in Nat \ {0} : b = <<b1, b2>>
  BY DEF IsRatio
<1>3. PICK n \in Int, d \in Nat \ {0} : Times(a, b) = Ratio(n, d)
  <2>1. a1 * b1 \in Int /\ a2 * b2 \in Nat \ {0}
    BY <1>1, <1>2
  <2>2. Times(a, b) = Ratio(a1 * b1, a2 * b2)
    BY <1>1, <1>2 DEF Times
  <2>3. QED
    BY <2>1, <2>2
<1>4. QED
  BY <1>3, LowestTerms DEF Reduced, IsRatio

\* A value times the time it stands for.
LEMMA TimesTime ==
  ASSUME NEW v1 \in Int, NEW v2 \in Nat \ {0}, NEW t \in Nat \ {0}
  PROVE  Is(Times(<<v1, v2>>, Int2Ratio(t)), v1 * t, v2)
<1>1. Is(<<v1, v2>>, v1, v2)
  BY DEF Is
<1>2. Is(Int2Ratio(t), t, 1)
  BY DEF Is, Int2Ratio
<1>3. Is(Times(<<v1, v2>>, Int2Ratio(t)), v1 * t, v2 * 1)
  <2>1. t \in Int /\ 1 \in Nat \ {0}
    OBVIOUS
  <2>2. QED
    BY <1>1, <1>2, <2>1, TimesIs
<1>4. v2 * 1 = v2
  OBVIOUS
<1>5. QED
  BY <1>3, <1>4

\* The sum of weighted values is the average times the whole time: at first,
LEMMA FirstWeighted ==
  ASSUME NEW value, IsRatio(value), NEW t \in Nat \ {0}, NEW w,
         w = Plus(Int2Ratio(0), Times(value, Int2Ratio(t)))
  PROVE  Is(value, w[1], w[2] * t)
<1>1. PICK v1 \in Int, v2 \in Nat \ {0} : value = <<v1, v2>>
  BY DEF IsRatio
<1>2. PICK x : x = Times(value, Int2Ratio(t))
  OBVIOUS
<1>3. PICK y \in Int : y = v1 * t
  BY <1>1
<1>4. Is(x, y, v2)
  BY <1>1, <1>2, <1>3, TimesTime
<1>5. Is(Int2Ratio(0), 0, v2)
  BY <1>1 DEF Is, Int2Ratio
<1>6. Is(w, y, v2)
  <2>1. Is(Plus(Int2Ratio(0), x), 0 + y, v2)
    BY <1>4, <1>5, PlusIs
  <2>2. 0 + y = y
    OBVIOUS
  <2>3. QED
    BY <1>2, <2>1, <2>2
<1>7. Is(value, y, v2 * t)
  <2>1. Is(value, v1 * t, v2 * t)
    <3>1. Is(value, v1, v2)
      BY <1>1 DEF Is
    <3>2. QED
      BY <1>1, <3>1, Scaled
  <2>2. QED
    BY <1>3, <2>1
<1>8. QED
  BY <1>1, <1>6, <1>7, Transported

\* and when a value is added.
LEMMA NextWeighted ==
  ASSUME NEW old, NEW value, IsRatio(value), NEW w, IsRatio(w), NEW x,
         NEW last \in Nat \ {0}, NEW weight \in Nat \ {0}, NEW new \in Nat \ {0}, NEW sum,
         Is(old, w[1], w[2] * last), x = Times(value, Int2Ratio(weight)),
         sum = Plus(w, x)
  PROVE  Is(Plus(Times(old, Ratio(last, new)), Times(value, Ratio(weight, new))),
            sum[1], sum[2] * new)
<1>1. PICK p \in Int, q \in Nat \ {0} : w = <<p, q>>
  BY DEF IsRatio
<1>2. PICK v1 \in Int, v2 \in Nat \ {0} : value = <<v1, v2>>
  BY DEF IsRatio
<1>3. Is(x, v1 * weight, v2)
  BY <1>2, TimesTime
<1>4. PICK y \in Int, z \in Nat \ {0} : x = <<y, z>>
  BY <1>3 DEF Is
<1>5. PICK a, b : a = Times(old, Ratio(last, new)) /\ b = Times(value, Ratio(weight, new))
  OBVIOUS
<1>6. Is(Ratio(last, new), last, new) /\ Is(Ratio(weight, new), weight, new)
  <2>1. last \in Int /\ weight \in Int
    OBVIOUS
  <2>2. QED
    BY <2>1, RatioIs
<1>7. Is(a, p, q * new)
  <2>1. q * last \in Nat \ {0} /\ last \in Int /\ q * new \in Nat \ {0}
    BY <1>1
  <2>2. Is(old, p, q * last)
    BY <1>1
  <2>3. Is(a, p * last, (q * last) * new)
    BY <1>1, <1>5, <1>6, <2>1, <2>2, TimesIs
  <2>4. (q * last) * new = (q * new) * last
    BY <1>1
  <2>5. QED
    BY <1>1, <2>1, <2>3, <2>4, LessTerms
<1>8. Is(b, y, z * new)
  <2>1. Is(value, v1, v2) /\ weight \in Int
    BY <1>2 DEF Is
  <2>2. Is(b, v1 * weight, v2 * new)
    BY <1>2, <1>5, <1>6, <2>1, TimesIs
  <2>3. PICK n \in Int : n = v1 * weight
    BY <1>2
  <2>4. Is(b, n, v2 * new) /\ Is(x, n, v2)
    BY <1>3, <2>2, <2>3
  <2>5. Is(b, x[1], x[2] * new)
    BY <1>2, <2>4, Transported
  <2>6. QED
    BY <1>4, <2>5
<1>9. PICK n \in Int, d \in Nat \ {0} : n = p * z + y * q /\ d = q * z
  <2>1. p * z + y * q \in Int /\ q * z \in Nat \ {0}
    BY <1>1, <1>4
  <2>2. QED
    BY <2>1
<1>10. Is(sum, n, d)
  <2>1. Is(w, p, q) /\ Is(x, y, z)
    BY <1>1, <1>4 DEF Is
  <2>2. Is(sum, p * z + y * q, q * z)
    BY <1>1, <1>4, <2>1, PlusRatios
  <2>3. QED
    BY <1>9, <2>2
<1>11. Is(Plus(a, b), n, d * new)
  <2>1. q * new \in Nat \ {0} /\ z * new \in Nat \ {0}
    BY <1>1, <1>4
  <2>2. Is(a, p * z, (q * new) * z)
    BY <1>1, <1>4, <1>7, <2>1, Scaled
  <2>3. Is(b, y * q, (z * new) * q)
    BY <1>1, <1>4, <1>8, <2>1, Scaled
  <2>4. (q * new) * z = d * new /\ (z * new) * q = d * new
    BY <1>1, <1>4, <1>9
  <2>5. PICK i \in Int, j \in Int, k \in Nat \ {0} : i = p * z /\ j = y * q /\ k = d * new
    <3>1. p * z \in Int /\ y * q \in Int /\ d * new \in Nat \ {0}
      BY <1>1, <1>4, <1>9
    <3>2. QED
      BY <3>1
  <2>6. Is(a, i, k) /\ Is(b, j, k)
    BY <2>2, <2>3, <2>4, <2>5
  <2>7. Is(Plus(a, b), i + j, k)
    BY <2>5, <2>6, PlusIs
  <2>8. QED
    BY <1>9, <2>5, <2>7
<1>12. Is(Plus(a, b), sum[1], sum[2] * new)
  BY <1>9, <1>10, <1>11, Transported
<1>13. QED
  BY <1>5, <1>12

-----------------------------------------------------------------------------
(* Minima and maxima.                                                      *)

LEMMA LessLess ==
  ASSUME NEW a, NEW b, NEW c, IsRatio(a), IsRatio(b), IsRatio(c)
  PROVE  /\ ~Less(a, a)
         /\ Less(a, b) /\ ~Less(c, b) => ~Less(c, a)
         /\ Less(a, b) /\ ~Less(a, c) => ~Less(b, c)
<1>1. PICK a1 \in Int, a2 \in Nat \ {0} : a = <<a1, a2>>
  BY DEF IsRatio
<1>2. PICK b1 \in Int, b2 \in Nat \ {0} : b = <<b1, b2>>
  BY DEF IsRatio
<1>3. PICK c1 \in Int, c2 \in Nat \ {0} : c = <<c1, c2>>
  BY DEF IsRatio
<1>4. /\ Less(a, b) <=> a1 * b2 < b1 * a2
      /\ Less(c, b) <=> c1 * b2 < b1 * c2
      /\ Less(c, a) <=> c1 * a2 < a1 * c2
      /\ Less(a, c) <=> a1 * c2 < c1 * a2
      /\ Less(b, c) <=> b1 * c2 < c1 * b2
  BY <1>1, <1>2, <1>3 DEF Less
<1>5. ~Less(a, a)
  BY <1>1 DEF Less
<1>6. ASSUME a1 * b2 < b1 * a2 PROVE (a1 * c2) * b2 < (b1 * c2) * a2
  <2>1. (a1 * b2) * c2 < (b1 * a2) * c2
    BY <1>6
  <2>2. (a1 * b2) * c2 = (a1 * c2) * b2 /\ (b1 * a2) * c2 = (b1 * c2) * a2
    OBVIOUS
  <2>3. QED
    BY <2>1, <2>2
<1>7. ASSUME a1 * b2 < b1 * a2, c1 * b2 >= b1 * c2 PROVE ~(c1 * a2 < a1 * c2)
  <2>1. SUFFICES ASSUME c1 * a2 < a1 * c2 PROVE FALSE
    OBVIOUS
  <2>2. (c1 * a2) * b2 < (a1 * c2) * b2
    BY <2>1
  <2>3. (c1 * b2) * a2 >= (b1 * c2) * a2
    BY <1>7
  <2>4. (c1 * b2) * a2 = (c1 * a2) * b2
    OBVIOUS
  <2>5. QED
    BY <1>6, <1>7, <2>2, <2>3, <2>4
<1>8. ASSUME a1 * b2 < b1 * a2, a1 * c2 >= c1 * a2 PROVE ~(b1 * c2 < c1 * b2)
  <2>1. SUFFICES ASSUME b1 * c2 < c1 * b2 PROVE FALSE
    OBVIOUS
  <2>2. (b1 * c2) * a2 < (c1 * b2) * a2
    BY <2>1
  <2>3. (a1 * c2) * b2 >= (c1 * a2) * b2
    BY <1>8
  <2>4. (c1 * b2) * a2 = (c1 * a2) * b2
    OBVIOUS
  <2>5. QED
    BY <1>6, <1>8, <2>2, <2>3, <2>4
<1>9. QED
  BY <1>4, <1>5, <1>7, <1>8

LEMMA LessThanMax == ASSUME NEW a, IsRatio(a) PROVE Less(a, LDBL_MAX)
<1>1. PICK a1 \in Int, a2 \in Nat \ {0} : a = <<a1, a2>>
  BY DEF IsRatio
<1>2. QED
  BY <1>1 DEF Less, LDBL_MAX

\* The least and the greatest of values 2 to n; the greatest begins at 0.
LeastOf(low, v, n) ==
  /\ \A i \in 2 .. n : ~Less(v[i], low)
  /\ IF n = 1 THEN low = LDBL_MAX ELSE \E i \in 2 .. n : low = v[i]
GreatestOf(high, v, n) ==
  /\ \A i \in 2 .. n : ~Less(high, v[i])
  /\ high = Int2Ratio(0) \/ \E i \in 2 .. n : high = v[i]

LEMMA LeastFolds ==
  ASSUME NEW n \in Nat \ {0}, NEW v, \A i \in 2 .. n + 1 : IsRatio(v[i]),
         NEW low, LeastOf(low, v, n)
  PROVE  LeastOf(IF Less(v[n + 1], low) THEN v[n + 1] ELSE low, v, n + 1)
<1>1. n + 1 \in 2 .. n + 1 /\ n + 1 # 1 /\ \A i \in 2 .. n + 1 : i = n + 1 \/ i \in 2 .. n
  OBVIOUS
<1>2. IsRatio(v[n + 1]) /\ (n # 1 => IsRatio(low))
  BY <1>1 DEF LeastOf
<1>3. CASE Less(v[n + 1], low)
  <2>1. ~Less(v[n + 1], v[n + 1])
    BY <1>2, LessLess
  <2>2. ASSUME NEW i \in 2 .. n PROVE ~Less(v[i], v[n + 1])
    <3>1. n # 1 /\ IsRatio(v[i]) /\ ~Less(v[i], low)
      BY DEF LeastOf
    <3>2. QED
      BY <1>2, <1>3, <3>1, LessLess
  <2>3. QED
    BY <1>1, <1>3, <2>1, <2>2 DEF LeastOf
<1>4. CASE ~Less(v[n + 1], low)
  <2>1. n # 1
    BY <1>2, <1>4, LessThanMax DEF LeastOf
  <2>2. QED
    BY <1>1, <1>4, <2>1 DEF LeastOf
<1>5. QED
  BY <1>3, <1>4

LEMMA GreatestFolds ==
  ASSUME NEW n \in Nat \ {0}, NEW v, \A i \in 2 .. n + 1 : IsRatio(v[i]),
         NEW high, GreatestOf(high, v, n)
  PROVE  GreatestOf(IF Less(high, v[n + 1]) THEN v[n + 1] ELSE high, v, n + 1)
<1>1. n + 1 \in 2 .. n + 1 /\ \A i \in 2 .. n + 1 : i = n + 1 \/ i \in 2 .. n
  OBVIOUS
<1>2. IsRatio(v[n + 1]) /\ IsRatio(high)
  <2>1. IsRatio(Int2Ratio(0))
    BY DEF IsRatio, Int2Ratio
  <2>2. QED
    BY <1>1, <2>1 DEF GreatestOf
<1>3. CASE Less(high, v[n + 1])
  <2>1. ~Less(v[n + 1], v[n + 1])
    BY <1>2, LessLess
  <2>2. ASSUME NEW i \in 2 .. n PROVE ~Less(v[n + 1], v[i])
    <3>1. IsRatio(v[i]) /\ ~Less(high, v[i])
      BY DEF GreatestOf
    <3>2. QED
      BY <1>2, <1>3, <3>1, LessLess
  <2>3. QED
    BY <1>1, <1>3, <2>1, <2>2 DEF GreatestOf
<1>4. CASE ~Less(high, v[n + 1])
  BY <1>1, <1>4 DEF GreatestOf
<1>5. QED
  BY <1>3, <1>4

-----------------------------------------------------------------------------
(* The statistics of values 2 to n, which stand for the times d, r in all. *)

Weights(v, d, n) == [i \in 2 .. n |-> Times(v[i], Int2Ratio(d[i]))]
StatsRight(asked, s, v, d, n, r) ==
  /\ Reduced(Total(Weights(v, d, n), n))
  /\ "ACC" \in asked => s.ACC = Total(v, n)
  /\ "AVG" \in asked /\ n > 1 =>
       Is(s.AVG, Total(Weights(v, d, n), n)[1], Total(Weights(v, d, n), n)[2] * r)
  /\ "MIN" \in asked => LeastOf(s.MIN, v, n)
  /\ "MAX" \in asked => GreatestOf(s.MAX, v, n)

\* Before the first value.
LEMMA NoStatsRight ==
  ASSUME NEW asked, NEW v, NEW d
  PROVE  StatsRight(asked, NoStats, v, d, 1, 0)
<1>1. \A w : Total(w, 1) = Int2Ratio(0)
  BY TotalSteps
<1>2. Reduced(Int2Ratio(0))
  BY IntegersReduced
<1>3. LeastOf(LDBL_MAX, v, 1) /\ GreatestOf(Int2Ratio(0), v, 1)
  BY DEF LeastOf, GreatestOf
<1>4. QED
  BY <1>1, <1>2, <1>3 DEF StatsRight, NoStats

\* Only the values and times up to n matter.
LEMMA StatsSame ==
  ASSUME NEW asked, NEW s, NEW v, NEW w, NEW d, NEW g, NEW n \in Nat \ {0}, NEW r,
         \A i \in 2 .. n : v[i] = w[i] /\ d[i] = g[i],
         StatsRight(asked, s, v, d, n, r)
  PROVE  StatsRight(asked, s, w, g, n, r)
<1>1. Weights(v, d, n) = Weights(w, g, n)
  BY DEF Weights
<1>2. Total(v, n) = Total(w, n)
  BY SameTotal
<1>3. \A x : LeastOf(x, v, n) => LeastOf(x, w, n)
  BY DEF LeastOf
<1>4. \A x : GreatestOf(x, v, n) => GreatestOf(x, w, n)
  BY DEF GreatestOf
<1>5. QED
  BY <1>1, <1>2, <1>3, <1>4 DEF StatsRight

LEMMA WeightsStep ==
  ASSUME NEW v, NEW d, NEW n \in Nat \ {0}
  PROVE  Total(Weights(v, d, n + 1), n + 1)
           = Plus(Total(Weights(v, d, n), n), Times(v[n + 1], Int2Ratio(d[n + 1])))
<1>1. n + 1 \in 2 .. n + 1 /\ \A i \in 2 .. n : i \in 2 .. n + 1
  OBVIOUS
<1>2. \A i \in 2 .. n : Weights(v, d, n + 1)[i] = Weights(v, d, n)[i]
  BY <1>1 DEF Weights
<1>3. Total(Weights(v, d, n + 1), n) = Total(Weights(v, d, n), n)
  BY <1>2, SameTotal
<1>4. Weights(v, d, n + 1)[n + 1] = Times(v[n + 1], Int2Ratio(d[n + 1]))
  BY <1>1 DEF Weights
<1>5. QED
  BY <1>3, <1>4, TotalSteps

\* A value is folded in at the times t.
LEMMA StatsFold ==
  ASSUME NEW asked, NEW v, NEW d, NEW n \in Nat \ {0}, NEW r \in Nat, NEW old, NEW t,
         \A i \in 2 .. n + 1 : IsRatio(v[i]),
         d[n + 1] \in Nat \ {0}, n > 1 => r # 0,
         t.count = n + 1, t.current - t.previous = d[n + 1],
         t.previous - t.first = r, t.current - t.first = r + d[n + 1],
         n = 1 => r = 0,
         StatsRight(asked, old, v, d, n, r)
  PROVE  StatsRight(asked, Stats(asked, v[n + 1], t, old), v, d, n + 1, r + d[n + 1])
<1>1. PICK value, new : value = v[n + 1] /\ new = Stats(asked, value, t, old)
  OBVIOUS
<1>2. IsRatio(value)
  <2>1. n + 1 \in 2 .. n + 1
    OBVIOUS
  <2>2. QED
    BY <1>1, <2>1
<1>3. PICK time \in Nat \ {0} : time = d[n + 1]
  OBVIOUS
<1>4. PICK w : w = Total(Weights(v, d, n), n)
  OBVIOUS
<1>5. PICK x : x = Times(value, Int2Ratio(time))
  OBVIOUS
<1>6. PICK sum : sum = Total(Weights(v, d, n + 1), n + 1)
  OBVIOUS
<1>7. sum = Plus(w, x)
  BY <1>1, <1>3, <1>4, <1>5, <1>6, WeightsStep
<1>8. Reduced(w) /\ IsRatio(w)
  BY <1>4 DEF StatsRight, Reduced, IsRatio
<1>9. Reduced(sum)
  <2>1. IsRatio(Int2Ratio(time))
    BY <1>3 DEF IsRatio, Int2Ratio
  <2>2. IsRatio(x)
    BY <1>2, <1>5, <2>1, TimesReduced
  <2>3. QED
    BY <1>7, <1>8, <2>2, PlusReduced
<1>10. ASSUME "ACC" \in asked PROVE new.ACC = Total(v, n + 1)
  <2>1. new.ACC = Plus(old.ACC, value)
    BY <1>1, <1>10, StatsOf
  <2>2. old.ACC = Total(v, n)
    BY <1>10 DEF StatsRight
  <2>3. QED
    BY <1>1, <2>1, <2>2, TotalSteps
<1>11. ASSUME "AVG" \in asked PROVE Is(new.AVG, sum[1], sum[2] * (r + time))
  <2>1. new.AVG = Average(old.AVG, value, time, r, r + time, n + 1)
    BY <1>1, <1>3, <1>11, StatsOf
  <2>2. CASE n = 1
    <3>1. new.AVG = value
      BY <2>1, <2>2 DEF Average
    <3>2. w = Int2Ratio(0)
      BY <1>4, <2>2, TotalSteps
    <3>3. Is(value, sum[1], sum[2] * time)
      BY <1>2, <1>5, <1>7, <3>2, FirstWeighted
    <3>4. r + time = time
      BY <2>2
    <3>5. QED
      BY <3>1, <3>3, <3>4
  <2>3. CASE n > 1
    <3>1. PICK last \in Nat \ {0}, all \in Nat \ {0} : last = r /\ all = r + time
      BY <2>3
    <3>2. new.AVG = Plus(Times(old.AVG, Ratio(last, all)), Times(value, Ratio(time, all)))
      BY <2>1, <2>3, <3>1 DEF Average
    <3>3. PICK avg : avg = old.AVG
      OBVIOUS
    <3>4. Is(avg, w[1], w[2] * last)
      BY <1>4, <1>11, <2>3, <3>1, <3>3 DEF StatsRight
    <3>5. Is(Plus(Times(avg, Ratio(last, all)), Times(value, Ratio(time, all))),
             sum[1], sum[2] * all)
      BY <1>2, <1>5, <1>7, <1>8, <3>4, NextWeighted
    <3>6. QED
      BY <3>1, <3>2, <3>3, <3>5
  <2>4. QED
    BY <2>2, <2>3
<1>12. ASSUME "MIN" \in asked PROVE LeastOf(new.MIN, v, n + 1)
  <2>1. LeastOf(old.MIN, v, n)
    BY <1>12 DEF StatsRight
  <2>2. new.MIN = IF Less(value, old.MIN) THEN value ELSE old.MIN
    BY <1>1, <1>12 DEF Stats
  <2>3. QED
    BY <1>1, <2>1, <2>2, LeastFolds
<1>13. ASSUME "MAX" \in asked PROVE GreatestOf(new.MAX, v, n + 1)
  <2>1. GreatestOf(old.MAX, v, n)
    BY <1>13 DEF StatsRight
  <2>2. new.MAX = IF Less(old.MAX, value) THEN value ELSE old.MAX
    BY <1>1, <1>13 DEF Stats
  <2>3. QED
    BY <1>1, <2>1, <2>2, GreatestFolds
<1>14. StatsRight(asked, new, v, d, n + 1, r + time)
  BY <1>6, <1>9, <1>10, <1>11, <1>12, <1>13 DEF StatsRight
<1>15. QED
  BY <1>1, <1>3, <1>14

\* The average times the whole time is the sum of the weighted values.
LEMMA AverageRight ==
  ASSUME NEW avg, NEW w, Reduced(w), NEW r \in Nat \ {0}, Is(avg, w[1], w[2] * r)
  PROVE  Times(avg, Int2Ratio(r)) = w
<1>1. PICK p \in Int, q \in Nat \ {0} : w = <<p, q>>
  BY DEF Reduced
<1>2. PICK x : x = Times(avg, Int2Ratio(r))
  OBVIOUS
<1>3. IsRatio(avg) /\ IsRatio(Int2Ratio(r)) /\ Is(Int2Ratio(r), r, 1)
  BY DEF Is, IsRatio, Int2Ratio
<1>4. Reduced(x)
  BY <1>2, <1>3, TimesReduced
<1>5. Is(x, p, q)
  <2>1. PICK d \in Nat \ {0} : d = q * r
    OBVIOUS
  <2>2. Is(avg, p, d) /\ r \in Int /\ 1 \in Nat \ {0}
    BY <1>1, <2>1
  <2>3. Is(x, p * r, d * 1)
    BY <1>2, <1>3, <2>2, TimesIs
  <2>4. d * 1 = q * r
    BY <2>1
  <2>5. Is(x, p * r, q * r)
    BY <2>3, <2>4
  <2>6. QED
    BY <2>5, LessTerms
<1>6. x[1] * w[2] = w[1] * x[2]
  BY <1>1, <1>5 DEF Is
<1>7. x = w
  BY <1>4, <1>6, SameRatio
<1>8. QED
  BY <1>2, <1>7

-----------------------------------------------------------------------------
(* The invariant of the statistics.                                        *)

\* The times of the samples, of which the first and the last are kept.
SeriesInv ==
  LET n == times.count IN
  /\ n > 0 => series[1].time = times.first /\ series[n].time = latest
  /\ \A i \in 2 .. n : series[i - 1].time < series[i].time

\* The buffers hold the last two samples of a sensor.
SensorInv(e) ==
  LET n == times.count
      past == IF timer.at = "read" THEN Other(buffer.front) ELSE buffer.front
  IN /\ timer.at \in {"sleep", "read"} /\ n > 0 => buffer.samples[past][e] = series[n].hw[e]
     /\ timer.at = "read" => buffer.counters[buffer.front][e] = series[n + 1].hw[e]

\* The values of samples 2 to n, and how long each accounts for.
Firsts(e, n) == [i \in 2 .. n |-> Int2Ratio(True0(e, i))]
Seconds(e, n) == [i \in 2 .. n |-> True1(e, i)]
Spans(n) == [i \in 2 .. n |-> Span(i)]
SecondIsExact(e) == event_ops[e].op1 = "DIV_DIFF_TIME" \/ ~Accumulates(e)
EventStats(e, n, r) ==
  /\ StatsRight(event_ops[e].value0, stats.values0[e], Firsts(e, n), Spans(n), n, r)
  /\ SecondIsExact(e) =>
       StatsRight(event_ops[e].value1, stats.values1[e], Seconds(e, n), Spans(n), n, r)

StatisticsInv ==
  /\ SeriesInv
  /\ \A e \in Event :
       /\ ~Accumulates(e) => SensorInv(e)
       /\ times.count <= 1 => stats.values0[e] = NoStats /\ stats.values1[e] = NoStats
       /\ times.count > 1 => EventStats(e, times.count, latest - times.first)

LEMMA InitStatistics == Init => StatisticsInv
<1> SUFFICES ASSUME Init PROVE StatisticsInv
  OBVIOUS
<1>1. times.count = 0 /\ timer.at = "none"
  BY DEF Init
<1>2. \A e \in Event : stats.values0[e] = NoStats /\ stats.values1[e] = NoStats
  BY DEF Init, Cleared
<1>3. SeriesInv /\ \A e \in Event : SensorInv(e)
  BY <1>1 DEF SeriesInv, SensorInv
<1>4. QED
  BY <1>1, <1>2, <1>3 DEF StatisticsInv

\* The samples stay what they were, and so do their values.
LEMMA ValuesKept ==
  ASSUME NEW n \in Nat, UNCHANGED event_ops,
         \A i \in 1 .. n : series'[i].hw = series[i].hw, NEW e \in Event
  PROVE  /\ UNCHANGED Accumulates(e)
         /\ \A i \in 2 .. n : UNCHANGED True0(e, i)
         /\ n > 0 /\ ~Accumulates(e) => UNCHANGED True0(e, 1)
         /\ Firsts(e, n)' = Firsts(e, n)
<1>1. UNCHANGED Accumulates(e)
  BY DEF Accumulates
<1>2. ASSUME NEW i \in 2 .. n PROVE UNCHANGED True0(e, i)
  <2>1. i \in 1 .. n /\ i - 1 \in 1 .. n
    OBVIOUS
  <2>2. series'[i].hw = series[i].hw /\ series'[i - 1].hw = series[i - 1].hw
    BY <2>1
  <2>3. QED
    BY <1>1, <2>2 DEF True0, Rounds
<1>3. n > 0 /\ ~Accumulates(e) => UNCHANGED True0(e, 1)
  BY <1>1 DEF True0
<1>4. Firsts(e, n)' = Firsts(e, n)
  BY <1>2 DEF Firsts
<1>5. QED
  BY <1>1, <1>2, <1>3, <1>4

LEMMA TimesKept ==
  ASSUME NEW n \in Nat, UNCHANGED event_ops,
         \A i \in 1 .. n : series'[i].hw = series[i].hw /\ series'[i].time = series[i].time,
         NEW e \in Event
  PROVE  /\ Spans(n)' = Spans(n)
         /\ SecondIsExact(e)' <=> SecondIsExact(e)
         /\ SecondIsExact(e) => Seconds(e, n)' = Seconds(e, n)
<1>1. /\ UNCHANGED Accumulates(e)
      /\ \A i \in 2 .. n : UNCHANGED True0(e, i)
      /\ n > 0 /\ ~Accumulates(e) => UNCHANGED True0(e, 1)
  BY ValuesKept
<1>2. ASSUME NEW i \in 2 .. n PROVE UNCHANGED Span(i)
  <2>1. i \in 1 .. n /\ i - 1 \in 1 .. n
    OBVIOUS
  <2>2. QED
    BY <2>1 DEF Span
<1>3. ASSUME NEW i \in 2 .. n PROVE UNCHANGED True1(e, i)
  <2>1. n > 0 /\ (i - 1 = 1 \/ i - 1 \in 2 .. n)
    OBVIOUS
  <2>2. ~Accumulates(e) => UNCHANGED True0(e, i - 1)
    BY <1>1, <2>1
  <2>3. QED
    BY <1>1, <1>2, <2>2 DEF True1
<1>4. QED
  BY <1>1, <1>2, <1>3 DEF Spans, Seconds, SecondIsExact

\* Nothing is folded in, and what the statistics are about stays.
LEMMA EventStatsKept ==
  ASSUME StatisticsInv, Types, UNCHANGED <<event_ops, stats>>,
         times'.count = times.count, times'.first = times.first, latest' = latest,
         \A i \in 1 .. times.count : series'[i] = series[i]
  PROVE  /\ SeriesInv'
         /\ \A e \in Event :
              /\ times'.count <= 1 => stats'.values0[e] = NoStats /\ stats'.values1[e] = NoStats
              /\ times'.count > 1 => EventStats(e, times.count, latest - times.first)'
<1>1. PICK n \in Nat : n = times.count
  BY DEF Types
<1>2. SeriesInv'
  <2>1. n > 0 => 1 \in 1 .. n /\ n \in 1 .. n
    OBVIOUS
  <2>2. n > 0 => series'[1] = series[1] /\ series'[n] = series[n]
    BY <1>1, <2>1
  <2>3. \A i \in 2 .. n : i \in 1 .. n /\ i - 1 \in 1 .. n
    OBVIOUS
  <2>4. \A i \in 2 .. n : series'[i] = series[i] /\ series'[i - 1] = series[i - 1]
    BY <1>1, <2>3
  <2>5. SeriesInv
    BY DEF StatisticsInv
  <2>6. QED
    BY <1>1, <2>2, <2>4, <2>5 DEF SeriesInv
<1>3. ASSUME NEW e \in Event, n > 1 PROVE EventStats(e, n, latest - times.first)'
  <2>1. EventStats(e, n, latest - times.first)
    BY <1>1, <1>3 DEF StatisticsInv
  <2>2. \A i \in 1 .. n : series'[i].hw = series[i].hw /\ series'[i].time = series[i].time
    BY <1>1
  <2>3. Firsts(e, n)' = Firsts(e, n)
    BY <2>2, ValuesKept
  <2>4. /\ Spans(n)' = Spans(n) /\ (SecondIsExact(e)' <=> SecondIsExact(e))
        /\ SecondIsExact(e) => Seconds(e, n)' = Seconds(e, n)
    BY <2>2, TimesKept
  <2>5. PICK r : r = latest - times.first /\ r = (latest - times.first)'
    OBVIOUS
  <2>6. /\ StatsRight(event_ops[e].value0, stats.values0[e], Firsts(e, n), Spans(n), n, r)
        /\ SecondIsExact(e) =>
             StatsRight(event_ops[e].value1, stats.values1[e], Seconds(e, n), Spans(n), n, r)
    BY <2>1, <2>5 DEF EventStats
  <2>7. /\ StatsRight(event_ops'[e].value0, stats'.values0[e], Firsts(e, n)', Spans(n)', n, r)
        /\ SecondIsExact(e)' =>
             StatsRight(event_ops'[e].value1, stats'.values1[e], Seconds(e, n)', Spans(n)', n, r)
    BY <2>3, <2>4, <2>6
  <2>8. QED
    BY <2>5, <2>7 DEF EventStats
<1>4. ASSUME NEW e \in Event, n <= 1
      PROVE  stats'.values0[e] = NoStats /\ stats'.values1[e] = NoStats
  BY <1>1, <1>4 DEF StatisticsInv
<1>5. QED
  BY <1>1, <1>2, <1>3, <1>4

\* Time goes by, the timer starts or is destroyed, or nothing happens.
LEMMA StatisticsStay ==
  ASSUME StatisticsInv, SamplingInv,
         \/ Elapse \/ StartTimer \/ DestroyTimer \/ UNCHANGED vars
  PROVE  StatisticsInv'
<1>1. Types /\ TimesInv
  BY DEF SamplingInv
<1>2. /\ UNCHANGED <<event_ops, buffer, stats, times, series>>
      /\ \/ UNCHANGED timer
         \/ timer.at = "ready" /\ timer' = [timer EXCEPT !.at = "sleep"]
         \/ timer.at = "sleep" /\ timer' = [timer EXCEPT !.at = "none"]
  BY DEF Elapse, StartTimer, DestroyTimer, vars
<1>3. \/ timer'.at = timer.at
      \/ timer.at = "ready" /\ timer'.at = "sleep"
      \/ timer.at = "sleep" /\ timer'.at = "none"
  BY <1>1, <1>2 DEF Types
<1>4. latest' = latest
  BY <1>2, <1>3 DEF latest
<1>5. ASSUME NEW e \in Event, ~Accumulates(e)' PROVE SensorInv(e)'
  <2>1. SensorInv(e)
    BY <1>2, <1>5 DEF StatisticsInv, Accumulates
  <2>2. timer.at = "ready" => ~(times.count > 0)
    BY <1>1 DEF TimesInv
  <2>3. QED
    BY <1>2, <1>3, <2>1, <2>2 DEF SensorInv
<1>6. QED
  BY <1>1, <1>2, <1>4, <1>5, EventStatsKept DEF StatisticsInv

\* A reset clears the statistics.
LEMMA StatisticsCleared ==
  ASSUME SamplingInv, Clear, timer'.at = "ready" PROVE StatisticsInv'
<1>1. Types
  BY DEF SamplingInv
<1>2. /\ times' = [times EXCEPT !.first = 0, !.previous = 0, !.count = 0]
      /\ stats' = [stats EXCEPT !.values0 = Cleared, !.values1 = Cleared]
  BY DEF Clear, ClearTimes, ClearStats
<1>3. times'.count = 0
  BY <1>1, <1>2 DEF Types
<1>4. stats'.values0 = Cleared /\ stats'.values1 = Cleared
  <2>1. PICK a, b, c : stats = [values0 |-> a, values1 |-> b, last_values1 |-> c]
    BY <1>1 DEF Types
  <2>2. QED
    BY <1>2, <2>1
<1>5. \A e \in Event : stats'.values0[e] = NoStats /\ stats'.values1[e] = NoStats
  BY <1>4 DEF Cleared
<1>6. SeriesInv' /\ \A e \in Event : SensorInv(e)'
  BY <1>3 DEF SeriesInv, SensorInv
<1>7. QED
  BY <1>3, <1>5, <1>6 DEF StatisticsInv

\* The buffers are swapped, and the sensors read.
LEMMA StatisticsSwapped ==
  ASSUME StatisticsInv, SamplingInv, ~Softfail, NEW last \in BOOLEAN, SwapAndRead(last)
  PROVE  StatisticsInv'
<1>1. Types /\ TimesInv
  BY DEF SamplingInv
<1>2. PICK front, new : front = Other(buffer.front) /\ new = [e \in Event |-> PapiRead(e)]
  OBVIOUS
<1>3. /\ UNCHANGED <<event_ops, stats>> /\ timer.at = "sleep"
      /\ buffer' = [buffer EXCEPT !.front = front, !.counters[front] = new]
      /\ timer' = [timer EXCEPT !.at = "read", !.last = last]
      /\ times' = [times EXCEPT !.previous = times.current, !.current = times.previous]
      /\ series' = Append(series, [time |-> 0, hw |-> hw])
  <2>1. PICK failed \in {Softfail, FALSE} :
          buffer' = [buffer EXCEPT !.front = front,
                                   !.counters[front] = IF failed THEN @ ELSE new]
    BY <1>2 DEF SwapAndRead
  <2>2. failed = FALSE
    BY <2>1, SoftfailAssumption
  <2>3. buffer' = [buffer EXCEPT !.front = front, !.counters[front] = new]
    BY <2>1, <2>2
  <2>4. QED
    BY <2>3 DEF SwapAndRead
<1>4. front \in 1 .. 2 /\ Other(front) = buffer.front
  BY <1>1, <1>2 DEF Types, Other
<1>5. timer'.at = "read"
  BY <1>1, <1>3 DEF Types
<1>6. /\ times'.previous = times.current /\ times'.first = times.first
      /\ times'.count = times.count
  BY <1>1, <1>3 DEF Types
<1>7. latest' = latest
  BY <1>3, <1>5, <1>6 DEF latest
<1>8. PICK n \in Nat : n = times.count /\ Len(series) = n
  BY <1>1, <1>3 DEF Types, TimesInv
<1>9. series'[n + 1].hw = hw /\ \A i \in 1 .. n : series'[i] = series[i]
  <2>1. PICK x, s, u : x = [time |-> 0, hw |-> hw] /\ s = series /\ u = series'
    OBVIOUS
  <2>2. PICK S : S = [time : Nat, hw : [Event -> Nat]]
    OBVIOUS
  <2>3. x \in S /\ s \in Seq(S) /\ Len(s) = n /\ u = Append(s, x)
    BY <1>1, <1>3, <1>8, <2>1, <2>2 DEF Types
  <2>4. u[n + 1] = x /\ \A i \in 1 .. n : u[i] = s[i]
    BY <2>3
  <2>5. x.hw = hw
    BY <2>1
  <2>6. QED
    BY <2>1, <2>4, <2>5
<1>10. /\ buffer'.front = front /\ buffer'.counters[front] = new
       /\ buffer'.samples = buffer.samples
  BY <1>1, <1>3, <1>4 DEF Types
<1>11. ASSUME NEW e \in Event, ~Accumulates(e)' PROVE SensorInv(e)'
  <2>1. SensorInv(e) /\ ~Accumulates(e)
    BY <1>3, <1>11 DEF StatisticsInv, Accumulates
  <2>2. new[e] = hw[e]
    BY <1>2, <2>1 DEF PapiRead
  <2>3. n > 0 => buffer.samples[buffer.front][e] = series[n].hw[e]
    BY <1>3, <1>8, <2>1 DEF SensorInv
  <2>4. n > 0 => buffer'.samples[Other(buffer'.front)][e] = series'[n].hw[e]
    BY <1>4, <1>9, <1>10, <2>3
  <2>5. buffer'.counters[buffer'.front][e] = series'[n + 1].hw[e]
    BY <1>9, <1>10, <2>2
  <2>6. QED
    BY <1>5, <1>6, <1>8, <2>4, <2>5 DEF SensorInv
<1>12. QED
  BY <1>1, <1>3, <1>6, <1>7, <1>8, <1>9, <1>11, EventStatsKept DEF StatisticsInv

LEMMA ExecIsRatio ==
  ASSUME NEW op1 \in {"NOP", "SAMPLE_DIFF", "SAMPLE1_MUL_DIFF_TIME",
                      "AVG_SAMPLE_MUL_DIFF_TIME", "DIV_DIFF_TIME"},
         NEW sample0 \in Int, NEW sample1 \in Int, NEW dt \in Nat \ {0}
  PROVE  IsRatio(ExecOp1(op1, sample0, sample1, dt))
<1>1. ASSUME NEW x \in Int PROVE IsRatio(Int2Ratio(x))
  BY DEF IsRatio, Int2Ratio
<1>2. ASSUME NEW x \in Int, NEW d \in Nat \ {0} PROVE IsRatio(Ratio(x, d))
  BY LowestTerms DEF Reduced, IsRatio
<1>3. /\ sample1 - sample0 \in Int /\ sample1 * dt \in Int /\ (sample0 + sample1) * dt \in Int
      /\ 0 \in Int /\ 2 \in Nat \ {0}
  OBVIOUS
<1>4. /\ IsRatio(Int2Ratio(sample1 - sample0)) /\ IsRatio(Int2Ratio(sample1 * dt))
      /\ IsRatio(Ratio((sample0 + sample1) * dt, 2)) /\ IsRatio(Ratio(sample1, dt))
      /\ IsRatio(Int2Ratio(0))
  BY <1>1, <1>2, <1>3
<1>5. QED
  BY <1>4 DEF ExecOp1

\* The statistics of n samples become those of n + 1.
FoldsNext(asked, v, w, d, g, n, r, dt, old, t, value) ==
  /\ n \in Nat \ {0} /\ r \in Nat /\ dt \in Nat \ {0}
  /\ \A i \in 2 .. n + 1 : IsRatio(v[i])
  /\ \A i \in 2 .. n : w[i] = v[i] /\ g[i] = d[i]
  /\ value = v[n + 1] /\ d[n + 1] = dt
  /\ t.count = n + 1 /\ t.current - t.previous = dt
  /\ t.previous - t.first = r /\ t.current - t.first = r + dt
  /\ n = 1 => r = 0 /\ old = NoStats
  /\ n > 1 => r # 0 /\ StatsRight(asked, old, w, g, n, r)

LEMMA FoldOnce ==
  ASSUME NEW asked, NEW v, NEW w, NEW d, NEW g, NEW n, NEW r, NEW dt, NEW old, NEW t,
         NEW value, FoldsNext(asked, v, w, d, g, n, r, dt, old, t, value)
  PROVE  StatsRight(asked, Stats(asked, value, t, old), v, d, n + 1, r + dt)
<1> USE DEF FoldsNext
<1>1. StatsRight(asked, old, v, d, n, r)
  <2>1. CASE n = 1
    BY <2>1, NoStatsRight
  <2>2. CASE n > 1
    BY <2>2, StatsSame
  <2>3. QED
    BY <2>1, <2>2
<1>2. StatsRight(asked, Stats(asked, v[n + 1], t, old), v, d, n + 1, r + d[n + 1])
  BY <1>1, StatsFold
<1>3. QED
  BY <1>2

\* The new samples are the true ones.
LEMMA NewSamplesTrue ==
  ASSUME SamplingInv, StatisticsInv, timer.at = "read", NEW e \in Event
  PROVE  /\ \A i \in 2 .. times.count + 1 : True0(e, i) \in Int
         /\ ~Accumulates(e) => \A i \in 1 .. times.count + 1 : True0(e, i) \in Int
         /\ times.count > 0 => NewSamples[e] = True0(e, times.count + 1)
         /\ ~Accumulates(e) => NewSamples[e] = series[times.count + 1].hw[e]
<1>1. Types /\ TimesInv
  BY DEF SamplingInv
<1>2. PICK n \in Nat : n = times.count /\ Len(series) = n + 1
  BY <1>1 DEF Types, TimesInv
<1>3. \A i \in 1 .. n + 1 : series[i].hw[e] \in Nat
  <2>1. series \in Seq([time : Nat, hw : [Event -> Nat]])
    BY <1>1 DEF Types
  <2>2. \A i \in 1 .. n + 1 : series[i] \in [time : Nat, hw : [Event -> Nat]]
    BY <1>2, <2>1, ElementOfSeq
  <2>3. QED
    BY <2>2
<1>4. \A i \in 1 .. n + 1 : Rounds(e, i) \in Int
  <2>1. event_ops[e].max_sample \in Nat
    BY <1>1, OpsAssumption DEF Types
  <2>2. PICK m \in Nat \ {0} : m = event_ops[e].max_sample + 1
    BY <2>1
  <2>3. \A x \in Nat : x \div m \in Int
    OBVIOUS
  <2>4. QED
    BY <1>3, <2>2, <2>3 DEF Rounds
<1>5. \A i \in 2 .. n + 1 : True0(e, i) \in Int
  <2>1. SUFFICES ASSUME NEW i \in 2 .. n + 1 PROVE True0(e, i) \in Int
    OBVIOUS
  <2>2. i \in 1 .. n + 1 /\ i - 1 \in 1 .. n + 1
    OBVIOUS
  <2>3. /\ series[i].hw[e] \in Int /\ series[i - 1].hw[e] \in Int
        /\ Rounds(e, i) \in Int /\ Rounds(e, i - 1) \in Int
    BY <1>3, <1>4, <2>2
  <2>4. QED
    BY <2>3 DEF True0
<1>6. ~Accumulates(e) => \A i \in 1 .. n + 1 : True0(e, i) \in Int
  BY <1>3 DEF True0
<1>7. ASSUME ~Accumulates(e)
      PROVE  NewSamples[e] = series[n + 1].hw[e] /\ NewSamples[e] = True0(e, n + 1)
  <2>1. NewSamples[e] = buffer.counters[buffer.front][e]
    BY <1>7 DEF NewSamples, FixOverflow
  <2>2. buffer.counters[buffer.front][e] = series[n + 1].hw[e]
    BY <1>2, <1>7 DEF StatisticsInv, SensorInv
  <2>3. QED
    BY <1>7, <2>1, <2>2 DEF True0
<1>8. ASSUME n > 0, Accumulates(e) PROVE NewSamples[e] = True0(e, n + 1)
  <2>1. Counts(e, n) + NewSamples[e] = Counts(e, n + 1) /\ NewSamples[e] \in Int
    BY <1>2, <1>8, SamplesCounted
  <2>2. n \in 1 .. n + 1 /\ n + 1 \in 1 .. n + 1 /\ 1 \in 1 .. n + 1 /\ n + 1 - 1 = n
    BY <1>8
  <2>3. PICK a \in Int, b \in Int, first \in Int, qa \in Int, qb \in Int, q1 \in Int :
          /\ a = series[n].hw[e] /\ b = series[n + 1].hw[e] /\ first = series[1].hw[e]
          /\ qa = Rounds(e, n) /\ qb = Rounds(e, n + 1) /\ q1 = Rounds(e, 1)
    <3>1. /\ series[n].hw[e] \in Int /\ series[n + 1].hw[e] \in Int /\ series[1].hw[e] \in Int
          /\ Rounds(e, n) \in Int /\ Rounds(e, n + 1) \in Int /\ Rounds(e, 1) \in Int
      BY <1>3, <1>4, <2>2
    <3>2. QED
      BY <3>1
  <2>4. PICK x \in Int : x = NewSamples[e]
    BY <2>1
  <2>5. ((a - first) - (qa - q1)) + x = (b - first) - (qb - q1)
    BY <2>1, <2>3, <2>4 DEF Counts
  <2>6. x = (b - a) - (qb - qa)
    BY <2>5
  <2>7. True0(e, n + 1) = (b - a) - (qb - qa)
    BY <1>8, <2>2, <2>3 DEF True0
  <2>8. QED
    BY <2>4, <2>6, <2>7
<1>9. QED
  BY <1>2, <1>5, <1>6, <1>7, <1>8

\* A sample is folded into the statistics.
LEMMA StatisticsMeasured ==
  ASSUME StatisticsInv, SamplingInv, Measure PROVE StatisticsInv'
<1>1. Types /\ TimesInv
  BY DEF SamplingInv
<1>2. PICK n \in Nat : n = times.count
  BY <1>1 DEF Types
<1>3. /\ timer.at = "read" /\ clock > times.previous /\ clock \in Nat
      /\ UNCHANGED event_ops
      /\ times'.current = clock /\ times'.previous = times.previous /\ times'.count = n + 1
      /\ times'.first = IF times.first = 0 THEN clock ELSE times.first
      /\ timer'.at \in {"none", "sleep"} /\ latest' = clock
  BY <1>1, <1>2, MeasureStep DEF Types
<1>4. /\ \A i \in 1 .. n + 1 : series'[i].hw = series[i].hw
      /\ \A i \in 1 .. n : series'[i] = series[i]
      /\ series'[n + 1].time = clock
      /\ NewSamples \in [Event -> Int]
      /\ buffer'.front = buffer.front /\ buffer'.samples[buffer.front] = NewSamples
      /\ n = 0 => stats' = stats
  BY <1>2, MeasureStep
<1>5. latest = times.previous /\ SeriesInv
  BY <1>3 DEF latest, StatisticsInv
<1>6. n > 0 => series[n].time = times.previous /\ times'.first = times.first
  BY <1>2, <1>5, MeasureStep DEF SeriesInv
<1>7. SeriesInv'
  <2>1. ASSUME n = 0 PROVE SeriesInv'
    <3>1. times.first = 0 /\ n + 1 = 1
      BY <1>1, <1>2, <2>1 DEF TimesInv
    <3>2. series'[1].time = clock /\ times'.first = clock /\ times'.count = 1
      BY <1>3, <1>4, <3>1
    <3>3. QED
      BY <1>3, <3>2 DEF SeriesInv
  <2>2. ASSUME n > 0 PROVE SeriesInv'
    <3>1. 1 \in 1 .. n /\ n \in 1 .. n /\ n + 1 - 1 = n
      BY <2>2
    <3>2. series'[1].time = times'.first
      BY <1>2, <1>4, <1>5, <1>6, <2>2, <3>1 DEF SeriesInv
    <3>3. series'[n].time < series'[n + 1].time
      BY <1>3, <1>4, <1>6, <2>2, <3>1
    <3>4. ASSUME NEW i \in 2 .. n PROVE series'[i - 1].time < series'[i].time
      <4>1. i \in 1 .. n /\ i - 1 \in 1 .. n
        OBVIOUS
      <4>2. series[i - 1].time < series[i].time
        BY <1>2, <1>5 DEF SeriesInv
      <4>3. QED
        BY <1>4, <4>1, <4>2
    <3>5. \A i \in 2 .. n + 1 : i = n + 1 \/ i \in 2 .. n
      OBVIOUS
    <3>6. \A i \in 2 .. n + 1 : series'[i - 1].time < series'[i].time
      BY <3>1, <3>3, <3>4, <3>5
    <3>7. QED
      BY <1>3, <1>4, <3>2, <3>6 DEF SeriesInv
  <2>3. QED
    BY <2>1, <2>2
<1>8. ASSUME NEW e \in Event, ~Accumulates(e)' PROVE SensorInv(e)'
  <2>1. ~Accumulates(e)
    BY <1>3, <1>8 DEF Accumulates
  <2>2. NewSamples[e] = series[n + 1].hw[e]
    BY <1>2, <1>3, <2>1, NewSamplesTrue
  <2>3. n + 1 \in 1 .. n + 1
    OBVIOUS
  <2>4. buffer'.samples[buffer'.front][e] = series'[n + 1].hw[e]
    BY <1>4, <2>2, <2>3
  <2>5. QED
    BY <1>3, <2>4 DEF SensorInv
<1>9. ASSUME NEW e \in Event, n = 0
      PROVE  stats'.values0[e] = NoStats /\ stats'.values1[e] = NoStats
  <2>1. times.count <= 1 /\ stats' = stats
    BY <1>2, <1>4, <1>9
  <2>2. stats.values0[e] = NoStats /\ stats.values1[e] = NoStats
    BY <2>1 DEF StatisticsInv
  <2>3. QED
    BY <2>1, <2>2
<1>10. ASSUME NEW e \in Event, n > 0 PROVE EventStats(e, n + 1, clock - times.first)'
  <2>1. PICK first \in Nat, previous \in Nat, now \in Nat :
          first = times.first /\ previous = times.previous /\ now = clock
    BY <1>1, <1>3 DEF Types
  <2>2. /\ previous < now /\ first <= previous /\ times'.first = first
        /\ n = 1 => first = previous
        /\ n > 1 => first < previous
    BY <1>2, <1>3, <1>10, <2>1, MeasureStep
  <2>3. PICK r \in Nat, dt \in Nat \ {0} :
          /\ r = previous - first /\ dt = now - previous /\ r + dt = now - first
          /\ n = 1 => r = 0
          /\ n > 1 => r # 0
    BY <2>1, <2>2
  <2>4. PICK t : t = times'
    OBVIOUS
  <2>5. /\ t.count = n + 1 /\ t.current - t.previous = dt /\ t.previous - t.first = r
        /\ t.current - t.first = r + dt
    BY <1>3, <2>1, <2>2, <2>3, <2>4
  <2>6. n \in 1 .. n /\ n + 1 \in 2 .. n + 1 /\ n + 1 - 1 = n /\ \A i \in 2 .. n : i \in 2 .. n + 1
    BY <1>10
  <2>7. /\ Accumulates(e)' = Accumulates(e)
        /\ \A i \in 2 .. n + 1 : True0(e, i)' = True0(e, i)
        /\ ~Accumulates(e) => True0(e, 1)' = True0(e, 1)
        /\ Firsts(e, n + 1)' = Firsts(e, n + 1)
    <3>1. n + 1 \in Nat /\ n + 1 > 0
      OBVIOUS
    <3>2. QED
      BY <1>3, <1>4, <3>1, ValuesKept
  <2>8. /\ Spans(n)' = Spans(n) /\ (SecondIsExact(e)' <=> SecondIsExact(e))
        /\ SecondIsExact(e) => Seconds(e, n)' = Seconds(e, n)
    <3>1. \A i \in 1 .. n : series'[i].hw = series[i].hw /\ series'[i].time = series[i].time
      BY <1>4
    <3>2. QED
      BY <1>3, <3>1, TimesKept
  <2>9. PICK v, w, u, x, d, g :
          /\ v = Firsts(e, n + 1) /\ w = Firsts(e, n)
          /\ u = Seconds(e, n + 1)' /\ x = Seconds(e, n)'
          /\ d = Spans(n + 1)' /\ g = Spans(n)
    OBVIOUS
  <2>10. \A i \in 2 .. n : w[i] = v[i] /\ x[i] = u[i]
    BY <2>6, <2>9 DEF Firsts, Seconds
  <2>11. d[n + 1] = dt /\ \A i \in 2 .. n : g[i] = d[i]
    <3>1. d[n + 1] = dt
      <4>1. d[n + 1] = series'[n + 1].time - series'[n].time
        BY <2>6, <2>9 DEF Spans, Span
      <4>2. series'[n].time = previous
        BY <1>4, <1>6, <1>10, <2>1, <2>6
      <4>3. series'[n + 1].time = now
        BY <1>4, <2>1
      <4>4. QED
        BY <2>3, <4>1, <4>2, <4>3
    <3>2. \A i \in 2 .. n : d[i] = Spans(n)'[i]
      BY <2>6, <2>9 DEF Spans
    <3>3. QED
      BY <2>8, <2>9, <3>1, <3>2
  <2>12. NewSamples[e] = True0(e, n + 1) /\ \A i \in 2 .. n + 1 : True0(e, i) \in Int
    BY <1>2, <1>3, <1>10, NewSamplesTrue
  <2>13. v[n + 1] = Int2Ratio(NewSamples[e]) /\ \A i \in 2 .. n + 1 : IsRatio(v[i])
    <3>1. \A i \in 2 .. n + 1 : v[i] = Int2Ratio(True0(e, i))
      BY <2>9 DEF Firsts
    <3>2. \A y \in Int : IsRatio(Int2Ratio(y))
      BY DEF IsRatio, Int2Ratio
    <3>3. QED
      BY <2>6, <2>12, <3>1, <3>2
  <2>14. \A i \in 2 .. n + 1 :
           u[i] = ExecOp1(event_ops[e].op1, IF Accumulates(e) THEN 0 ELSE True0(e, i - 1),
                          True0(e, i), Span(i)')
    <3>1. SUFFICES ASSUME NEW i \in 2 .. n + 1
                   PROVE  u[i] = ExecOp1(event_ops[e].op1,
                                         IF Accumulates(e) THEN 0 ELSE True0(e, i - 1),
                                         True0(e, i), Span(i)')
      OBVIOUS
    <3>2. i - 1 = 1 \/ i - 1 \in 2 .. n + 1
      OBVIOUS
    <3>3. ~Accumulates(e) => True0(e, i - 1)' = True0(e, i - 1)
      BY <2>7, <3>2
    <3>4. True0(e, i)' = True0(e, i)
      BY <2>7
    <3>5. u[i] = True1(e, i)'
      BY <2>9 DEF Seconds
    <3>6. QED
      BY <1>3, <2>7, <3>3, <3>4, <3>5 DEF True1
  <2>15. \A i \in 2 .. n + 1 : Span(i)' \in Nat \ {0}
    <3>1. series' \in Seq([time : Nat, hw : [Event -> Nat]]) /\ Len(series') = n + 1
      BY <1>2, MeasureStep
    <3>2. SUFFICES ASSUME NEW i \in 2 .. n + 1 PROVE Span(i)' \in Nat \ {0}
      OBVIOUS
    <3>3. i \in 1 .. n + 1 /\ i - 1 \in 1 .. n + 1
      OBVIOUS
    <3>4. series'[i].time \in Nat /\ series'[i - 1].time \in Nat
      <4>1. \A j \in 1 .. n + 1 : series'[j] \in [time : Nat, hw : [Event -> Nat]]
        BY <3>1, ElementOfSeq
      <4>2. QED
        BY <3>3, <4>1
    <3>5. series'[i - 1].time < series'[i].time
      BY <1>3, <1>7 DEF SeriesInv
    <3>6. QED
      BY <3>4, <3>5 DEF Span
  <2>16. \A i \in 2 .. n + 1 : IsRatio(u[i])
    <3>1. SUFFICES ASSUME NEW i \in 2 .. n + 1 PROVE IsRatio(u[i])
      OBVIOUS
    <3>2. PICK op1 : op1 = event_ops[e].op1
      OBVIOUS
    <3>3. op1 \in {"NOP", "SAMPLE_DIFF", "SAMPLE1_MUL_DIFF_TIME",
                   "AVG_SAMPLE_MUL_DIFF_TIME", "DIV_DIFF_TIME"}
      BY <1>1, <3>2, OpsAssumption DEF Types
    <3>4. i - 1 \in 1 .. n + 1
      OBVIOUS
    <3>5. ~Accumulates(e) => True0(e, i - 1) \in Int
      BY <1>2, <1>3, <3>4, NewSamplesTrue
    <3>6. PICK a \in Int, b \in Int, c \in Nat \ {0} :
            /\ a = IF Accumulates(e) THEN 0 ELSE True0(e, i - 1)
            /\ b = True0(e, i) /\ c = Span(i)'
      BY <2>12, <2>15, <3>5
    <3>7. IsRatio(ExecOp1(op1, a, b, c))
      BY <3>3, ExecIsRatio
    <3>8. QED
      BY <2>14, <3>2, <3>6, <3>7
  <2>17. PICK old0, old1, new0, new1, value1 :
           /\ old0 = stats.values0[e] /\ old1 = stats.values1[e]
           /\ new0 = stats'.values0[e] /\ new1 = stats'.values1[e]
           /\ value1 = ExecOp1(event_ops[e].op1, buffer.samples[Other(buffer.front)][e],
                               NewSamples[e], t.current - t.previous)
    OBVIOUS
  <2>18. /\ new0 = Stats(event_ops[e].value0, Int2Ratio(NewSamples[e]), t, old0)
         /\ new1 = Stats(event_ops[e].value1, value1, t, old1)
    BY <1>2, <1>10, <2>4, <2>17, MeasureStep
  <2>19. /\ n = 1 => old0 = NoStats /\ old1 = NoStats
         /\ n > 1 => /\ StatsRight(event_ops[e].value0, old0, w, g, n, r)
                     /\ SecondIsExact(e) => StatsRight(event_ops[e].value1, old1, x, g, n, r)
    <3>1. n = 1 => old0 = NoStats /\ old1 = NoStats
      BY <1>2, <2>17 DEF StatisticsInv
    <3>2. n > 1 => EventStats(e, n, r)
      BY <1>2, <1>5, <2>1, <2>3 DEF StatisticsInv
    <3>3. QED
      BY <2>8, <2>9, <2>17, <3>1, <3>2 DEF EventStats
  <2>20. n \in Nat \ {0}
    BY <1>10
  <2>21. StatsRight(event_ops[e].value0, new0, v, d, n + 1, r + dt)
    <3>1. PICK asked, value : asked = event_ops[e].value0 /\ value = Int2Ratio(NewSamples[e])
      OBVIOUS
    <3>2. FoldsNext(asked, v, w, d, g, n, r, dt, old0, t, value)
      BY <2>3, <2>5, <2>10, <2>11, <2>13, <2>19, <2>20, <3>1 DEF FoldsNext
    <3>3. QED
      BY <2>18, <3>1, <3>2, FoldOnce
  <2>22. ASSUME SecondIsExact(e)
         PROVE  StatsRight(event_ops[e].value1, new1, u, d, n + 1, r + dt)
    <3>1. value1 = u[n + 1]
      <4>1. Span(n + 1)' = dt
        BY <2>6, <2>9, <2>11 DEF Spans
      <4>2. u[n + 1] = ExecOp1(event_ops[e].op1, IF Accumulates(e) THEN 0 ELSE True0(e, n),
                               NewSamples[e], dt)
        BY <2>6, <2>12, <2>14, <4>1
      <4>3. value1 = ExecOp1(event_ops[e].op1, buffer.samples[Other(buffer.front)][e],
                             NewSamples[e], dt)
        BY <2>5, <2>17
      <4>4. CASE ~Accumulates(e)
        <5>1. buffer.samples[Other(buffer.front)][e] = series[n].hw[e]
          BY <1>2, <1>3, <1>10, <4>4 DEF StatisticsInv, SensorInv
        <5>2. True0(e, n) = series[n].hw[e]
          BY <4>4 DEF True0
        <5>3. QED
          BY <4>2, <4>3, <4>4, <5>1, <5>2
      <4>5. CASE event_ops[e].op1 = "DIV_DIFF_TIME"
        BY <4>2, <4>3, <4>5 DEF ExecOp1
      <4>6. QED
        BY <2>22, <4>4, <4>5 DEF SecondIsExact
    <3>2. PICK asked : asked = event_ops[e].value1
      OBVIOUS
    <3>3. FoldsNext(asked, u, x, d, g, n, r, dt, old1, t, value1)
      BY <2>3, <2>5, <2>10, <2>11, <2>16, <2>19, <2>20, <2>22, <3>1, <3>2 DEF FoldsNext
    <3>4. QED
      BY <2>18, <3>2, <3>3, FoldOnce
  <2>23. r + dt = (clock - times.first)'
    BY <1>3, <2>1, <2>2, <2>3, MeasureStep
  <2>24. EventStats(e, n + 1, clock - times.first)'
    BY <1>3, <2>7, <2>8, <2>9, <2>17, <2>21, <2>22, <2>23 DEF EventStats
  <2>25. QED
    BY <2>24
<1>11. QED
  <2>1. clock' = clock
    BY <1>2, MeasureStep
  <2>2. times'.count = n + 1 /\ latest' = clock' /\ (n + 1 <= 1 => n = 0) /\ (n + 1 > 1 => n > 0)
    BY <1>3, <2>1
  <2>3. ASSUME NEW e \in Event, times'.count > 1
        PROVE  EventStats(e, times.count, latest - times.first)'
    BY <1>10, <2>2, <2>3
  <2>4. QED
    BY <1>7, <1>8, <1>9, <2>2, <2>3 DEF StatisticsInv

-----------------------------------------------------------------------------
(* The statistics are right.                                               *)

LEMMA StatisticsInvariant ==
  ASSUME ~Softfail
  PROVE  Spec => []StatisticsInv
<1>1. Init => StatisticsInv
  BY InitStatistics
<1>2. StatisticsInv /\ SamplingInv /\ [Next]_vars => StatisticsInv'
  <2>1. SUFFICES ASSUME StatisticsInv, SamplingInv, [Next]_vars PROVE StatisticsInv'
    OBVIOUS
  <2>2. CASE Elapse \/ StartTimer \/ DestroyTimer \/ UNCHANGED vars
    BY <2>1, <2>2, StatisticsStay
  <2>3. CASE CreateTimer \/ ChangeTimer
    <3>1. Clear /\ timer'.at = "ready"
      BY <2>3 DEF CreateTimer, ChangeTimer
    <3>2. QED
      BY <2>1, <3>1, StatisticsCleared
  <2>4. ASSUME NEW last \in BOOLEAN, SwapAndRead(last) PROVE StatisticsInv'
    BY <2>1, <2>4, StatisticsSwapped
  <2>5. CASE Measure
    BY <2>1, <2>5, StatisticsMeasured
  <2>6. QED
    BY <2>1, <2>2, <2>3, <2>4, <2>5 DEF Next
<1>3. QED
  BY <1>1, <1>2, SamplingInvariant, PTL DEF Spec

\* Right statistics of n samples are those that are asked for.
LEMMA RightAreAsked ==
  ASSUME NEW asked, NEW s, NEW v, NEW n \in Nat, n > 1, NEW r \in Nat \ {0},
         n = Len(series), r = Runtime,
         StatsRight(asked, s, v, Spans(n), n, r)
  PROVE  AreStatistics(asked, s, v)
<1>1. Counted = 2 .. n
  BY DEF Counted
<1>2. PICK w : w = Total(Weighted(v), n)
  OBVIOUS
<1>3. Weights(v, Spans(n), n) = Weighted(v)
  BY <1>1 DEF Weights, Weighted, Spans
<1>4. Reduced(w)
  BY <1>2, <1>3 DEF StatsRight
<1>5. ASSUME "AVG" \in asked PROVE Times(s.AVG, Int2Ratio(r)) = w
  <2>1. PICK avg : avg = s.AVG
    OBVIOUS
  <2>2. Is(avg, w[1], w[2] * r)
    BY <1>2, <1>3, <1>5, <2>1 DEF StatsRight
  <2>3. QED
    BY <1>4, <2>1, <2>2, AverageRight
<1>6. QED
  BY <1>1, <1>2, <1>5 DEF AreStatistics, StatsRight, LeastOf, GreatestOf

\* After every sample the statistics that are asked for are those of the
\* samples since the timer was created, the average weighted with the time each
\* sample accounts for, if no read fails (apapi.c:744, readme.md:45).
THEOREM StatisticsAreRight ==
  ASSUME ~Softfail
  PROVE  Spec => []StatisticsOfMeasurement
<1>1. SamplingInv /\ StatisticsInv => StatisticsOfMeasurement
  <2>1. SUFFICES ASSUME SamplingInv, StatisticsInv, Done, Len(series) >= 2, NEW e \in Event
        PROVE  /\ AreStatistics(event_ops[e].value0, stats.values0[e], Values0(e))
               /\ SecondIsExact(e) =>
                    AreStatistics(event_ops[e].value1, stats.values1[e], Values1(e))
    BY DEF StatisticsOfMeasurement, SecondIsExact
  <2>2. Types /\ TimesInv /\ SeriesInv
    BY <2>1 DEF SamplingInv, StatisticsInv
  <2>3. PICK n \in Nat : n = times.count /\ n = Len(series) /\ n > 1
    BY <2>1, <2>2 DEF Types, TimesInv, Done
  <2>4. PICK r \in Nat \ {0} : r = latest - times.first
    <3>1. times.first < latest /\ times.first \in Nat /\ latest \in Nat
      BY <2>2, <2>3 DEF TimesInv, Types, latest
    <3>2. QED
      BY <3>1
  <2>5. r = Runtime
    BY <2>2, <2>3, <2>4 DEF SeriesInv, Runtime
  <2>6. EventStats(e, n, r)
    BY <2>1, <2>3, <2>4 DEF StatisticsInv
  <2>7. Firsts(e, n) = Values0(e) /\ Seconds(e, n) = Values1(e)
    BY <2>3 DEF Firsts, Seconds, Values0, Values1, Counted
  <2>8. QED
    BY <2>3, <2>5, <2>6, <2>7, RightAreAsked DEF EventStats
<1>2. QED
  BY <1>1, SamplingInvariant, StatisticsInvariant, PTL
=============================================================================
