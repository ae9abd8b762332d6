--------------------------- MODULE ClientTextProofs ---------------------------
(***************************************************************************)
(* Proofs about the texts of the client: what HttpRequest makes of a URL   *)
(* and a body, and the id that linux_command makes of an address.          *)
(*                                                                         *)
(* A text is a sequence of any length.  What a recursive function computes *)
(* of it, strlen() and the hash, is shown step by step from the function   *)
(* itself, and where strstr() finds a text from the places it is not at.   *)
(***************************************************************************)
EXTENDS HttpMessage, MacHash, FiniteOrder, SequenceTheorems, TLAPS

-----------------------------------------------------------------------------
\* The number of digits of a numeral that atoi() reads.
LEMMA DigitsFacts ==
  ASSUME NEW n \in 0 .. MaxNumber
  PROVE  /\ Digits(n) \in Nat /\ Digits(n) >= 1
         /\ n < 100000 => Digits(n) <= 5
<1> DEFINE IsDigits(d) == n < 10 ^ d /\ (d = 1 \/ n >= 10 ^ (d - 1))
<1>1. n \in Nat /\ n < 10 ^ 9
  <2>1. MaxNumber \in Nat /\ MaxNumber < 10 ^ 9
    BY SMT DEF MaxNumber
  <2>2. n \in Nat /\ n <= MaxNumber
    BY <2>1
  <2>3. 10 ^ 9 \in Nat
    BY SMT
  <2>4. QED
    BY <2>1, <2>2, <2>3
<1>2. \E d \in 1 .. 9 : IsDigits(d)
  <2>1. CASE n < 10 ^ 1
    BY <2>1
  <2>2. CASE n >= 10 ^ 1 /\ n < 10 ^ 2
    BY <2>2
  <2>3. CASE n >= 10 ^ 2 /\ n < 10 ^ 3
    BY <2>3
  <2>4. CASE n >= 10 ^ 3 /\ n < 10 ^ 4
    BY <2>4
  <2>5. CASE n >= 10 ^ 4 /\ n < 10 ^ 5
    BY <2>5
  <2>6. CASE n >= 10 ^ 5 /\ n < 10 ^ 6
    BY <2>6
  <2>7. CASE n >= 10 ^ 6 /\ n < 10 ^ 7
    BY <2>7
  <2>8. CASE n >= 10 ^ 7 /\ n < 10 ^ 8
    BY <2>8
  <2>9. CASE n >= 10 ^ 8 /\ n < 10 ^ 9
    BY <2>9
  <2>10. QED
    BY <1>1, <2>1, <2>2, <2>3, <2>4, <2>5, <2>6, <2>7, <2>8, <2>9
<1>3. Digits(n) \in 1 .. 9 /\ IsDigits(Digits(n))
  <2>1. Digits(n) = CHOOSE d \in 1 .. 9 : IsDigits(d)
    BY DEF Digits
  <2> HIDE DEF IsDigits
  <2>2. QED
    BY <1>2, <2>1
<1>4. ASSUME n < 100000 PROVE Digits(n) <= 5
  <2>1. /\ ~IsDigits(6) /\ ~IsDigits(7) /\ ~IsDigits(8) /\ ~IsDigits(9)
    BY <1>1, <1>4, SMT
  <2> HIDE DEF IsDigits
  <2>2. QED
    BY <1>3, <2>1
<1>5. QED
  BY <1>3, <1>4

LEMMA WidthFacts ==
  ASSUME NEW t \in Token
  PROVE  Width(t) \in Nat /\ Width(t) >= 1
<1>1. CASE t \in [c : {"word"}, n : Nat \ {0}]
  BY <1>1 DEF Width
<1>2. CASE t \in [c : {"number"}, n : 0 .. MaxNumber]
  BY <1>2, DigitsFacts DEF Width
<1>3. CASE t \in {Http, Https, Slash, Colon, Dot}
  BY <1>3 DEF Width, Http, Https, Slash, Colon, Dot
<1>4. QED
  BY <1>1, <1>2, <1>3 DEF Token

\* P adds up the widths of the tokens of s.
AddsUp(s, P) ==
  /\ P \in [0 .. Len(s) -> Nat]
  /\ P[0] = 0
  /\ \A k \in 1 .. Len(s) : P[k] = P[k - 1] + Width(s[k])

LEMMA SumExists ==
  ASSUME NEW s \in Seq(Token)
  PROVE  \E P : AddsUp(s, P)
<1> DEFINE n == Len(s)
           step == [x \in Nat \X (1 .. n) |-> x[1] + Width(s[x[2]])]
<1>1. n \in Nat /\ \A k \in 1 .. n : Width(s[k]) \in Nat
  BY WidthFacts
<1>2. step \in [Nat \X (1 .. n) -> Nat]
  <2>1. ASSUME NEW x \in Nat \X (1 .. n) PROVE x[1] + Width(s[x[2]]) \in Nat
    BY <1>1
  <2>2. QED
    BY <2>1
<1>3. HasRecursiveFunction(Nat, 0, n, step)
  <2> HIDE DEF step, n
  <2>1. QED
    BY <1>1, <1>2, RecursiveFunction
<1>4. PICK P \in [0 .. n -> Nat] :
        P[0] = 0 /\ \A k \in 1 .. n : P[k] = step[<<P[k - 1], k>>]
  BY <1>3 DEF HasRecursiveFunction
<1>5. ASSUME NEW k \in 1 .. n PROVE P[k] = P[k - 1] + Width(s[k])
  <2> HIDE DEF step, n
  <2>1. k - 1 \in 0 .. n
    BY <1>1
  <2>2. P[k - 1] \in Nat
    BY <2>1
  <2>3. <<P[k - 1], k>> \in Nat \X (1 .. n)
    BY <2>2
  <2>4. P[k] = step[<<P[k - 1], k>>]
    BY <1>4
  <2>5. QED
    BY <2>3, <2>4 DEF step
<1> HIDE DEF step
<1>6. QED
  BY <1>4, <1>5 DEF AddsUp

LEMMA SumIsStrLen ==
  ASSUME NEW s \in Seq(Token), NEW P, AddsUp(s, P)
  PROVE  StrLen(s) = P[Len(s)]
<1> DEFINE n == Len(s)
           IsSum(f) == f = [k \in 0 .. n |->
                              IF k = 0 THEN 0 ELSE f[k - 1] + Width(s[k])]
           sum == CHOOSE f : IsSum(f)
<1>1. n \in Nat
  OBVIOUS
<1>2. IsSum(P)
  <2> DEFINE row(k) == IF k = 0 THEN 0 ELSE P[k - 1] + Width(s[k])
  <2>1. \A k \in 0 .. n : P[k] = row(k)
    BY <1>1 DEF AddsUp
  <2>2. P \in [0 .. n -> Nat]
    BY DEF AddsUp
  <2> HIDE DEF row
  <2>3. P = [k \in 0 .. n |-> row(k)]
    BY <2>1, <2>2
  <2>4. QED
    BY <2>3 DEF row
<1>3. IsSum(sum)
  <2> HIDE DEF IsSum
  <2>1. QED
    BY <1>2
<1>4. StrLen(s) = sum[n]
  BY DEF StrLen
<1> HIDE DEF sum
<1>5. sum[0] = 0 /\ \A k \in 1 .. n : sum[k] = sum[k - 1] + Width(s[k])
  <2>1. sum = [k \in 0 .. n |-> IF k = 0 THEN 0 ELSE sum[k - 1] + Width(s[k])]
    BY <1>3
  <2>2. 0 \in 0 .. n /\ \A k \in 1 .. n : k \in 0 .. n /\ k # 0
    BY <1>1
  <2> HIDE DEF n
  <2>3. QED
    BY <2>1, <2>2
<1>6. \A k \in 0 .. n : sum[k] = P[k]
  <2> DEFINE Q == {k \in Nat : k <= n => sum[k] = P[k]}
  <2>1. 0 \in Q
    BY <1>5 DEF AddsUp
  <2>2. ASSUME NEW k \in Nat, k \in Q PROVE k + 1 \in Q
    <3> SUFFICES ASSUME k + 1 <= n PROVE sum[k + 1] = P[k + 1]
      OBVIOUS
    <3>1. sum[k] = P[k] /\ k + 1 \in 1 .. n /\ (k + 1) - 1 = k
      BY <1>1, <2>2
    <3>2. sum[k + 1] = sum[k] + Width(s[k + 1])
      BY <1>5, <3>1
    <3>3. P[k + 1] = P[k] + Width(s[k + 1])
      BY <3>1 DEF AddsUp
    <3>4. QED
      BY <3>1, <3>2, <3>3
  <2>3. Nat \subseteq Q
    <3> HIDE DEF Q
    <3>1. QED
      BY <2>1, <2>2, SetInduction
  <2>4. QED
    BY <1>1, <2>3
<1>7. QED
  BY <1>1, <1>4, <1>6

\* The sums grow by at least one with each token.
LEMMA SumGrows ==
  ASSUME NEW s \in Seq(Token), NEW P, AddsUp(s, P),
         NEW m \in 0 .. Len(s), NEW n \in m .. Len(s)
  PROVE  P[m] \in Nat /\ P[n] \in Nat /\ P[n] - P[m] >= n - m
<1> DEFINE Q == {k \in Nat : m + k <= Len(s) => P[m + k] - P[m] >= k}
<1>1. Len(s) \in Nat /\ \A k \in 0 .. Len(s) : P[k] \in Nat
  BY DEF AddsUp
<1>2. 0 \in Q
  BY <1>1
<1>3. ASSUME NEW k \in Nat, k \in Q PROVE k + 1 \in Q
  <2> SUFFICES ASSUME m + (k + 1) <= Len(s) PROVE P[m + (k + 1)] - P[m] >= k + 1
    OBVIOUS
  <2>1. /\ P[m + k] - P[m] >= k /\ m + (k + 1) \in 1 .. Len(s)
        /\ (m + (k + 1)) - 1 = m + k /\ m + k \in 0 .. Len(s)
    BY <1>1, <1>3
  <2>2. P[m + (k + 1)] = P[m + k] + Width(s[m + (k + 1)])
    BY <2>1 DEF AddsUp
  <2>3. Width(s[m + (k + 1)]) \in Nat /\ Width(s[m + (k + 1)]) >= 1
    BY <2>1, WidthFacts, ElementOfSeq
  <2>4. P[m + k] \in Nat /\ P[m] \in Nat
    BY <1>1, <2>1
  <2>5. QED
    BY <2>1, <2>2, <2>3, <2>4
<1>4. Nat \subseteq Q
  <2> HIDE DEF Q
  <2>1. QED
    BY <1>2, <1>3, SetInduction
<1>5. n - m \in Q /\ m + (n - m) = n
  BY <1>1, <1>4
<1>6. QED
  BY <1>1, <1>5

\* The length of a part of a text, by the sums of the whole.
LEMMA PartLength ==
  ASSUME NEW s \in Seq(Token), NEW P, AddsUp(s, P),
         NEW m \in 1 .. Len(s) + 1, NEW n \in (m - 1) .. Len(s)
  PROVE  /\ SubSeq(s, m, n) \in Seq(Token)
         /\ StrLen(SubSeq(s, m, n)) = P[n] - P[m - 1]
<1> DEFINE part == SubSeq(s, m, n)
           Q == [k \in 0 .. n - m + 1 |-> P[m - 1 + k] - P[m - 1]]
<1>1. Len(s) \in Nat /\ \A k \in 0 .. Len(s) : P[k] \in Nat
  BY DEF AddsUp
<1>2. \A i \in m .. n : s[i] \in Token
  BY <1>1, ElementOfSeq
<1>3. /\ part \in Seq(Token) /\ Len(part) = n - m + 1
      /\ \A i \in 1 .. n - m + 1 : part[i] = s[m + i - 1]
  <2>1. m \in Int /\ n \in Int /\ n - m + 1 = IF m <= n THEN n - m + 1 ELSE 0
    BY <1>1
  <2>2. QED
    BY <1>2, <2>1, SubSeqProperties
<1> HIDE DEF part
<1>4. AddsUp(part, Q)
  <2>1. Q \in [0 .. n - m + 1 -> Nat]
    <3>1. ASSUME NEW k \in 0 .. n - m + 1 PROVE P[m - 1 + k] - P[m - 1] \in Nat
      <4>1. /\ m - 1 \in 0 .. Len(s) /\ m - 1 + k \in (m - 1) .. Len(s)
        BY <1>1
      <4>2. /\ P[m - 1] \in Nat /\ P[m - 1 + k] \in Nat
            /\ P[m - 1 + k] - P[m - 1] >= (m - 1 + k) - (m - 1)
        BY <4>1, SumGrows
      <4>3. QED
        BY <1>1, <4>2
    <3>2. QED
      BY <3>1
  <2>2. Q[0] = 0
    <3>1. m - 1 + 0 = m - 1 /\ m - 1 \in 0 .. Len(s) /\ 0 \in 0 .. n - m + 1
      BY <1>1
    <3>2. QED
      BY <1>1, <3>1
  <2>3. ASSUME NEW k \in 1 .. n - m + 1 PROVE Q[k] = Q[k - 1] + Width(part[k])
    <3>1. /\ m - 1 + k \in 1 .. Len(s) /\ m - 1 + (k - 1) = (m - 1 + k) - 1
          /\ k \in 0 .. n - m + 1 /\ k - 1 \in 0 .. n - m + 1
          /\ m + k - 1 = m - 1 + k
          /\ m - 1 \in 0 .. Len(s) /\ (m - 1 + k) - 1 \in 0 .. Len(s)
      BY <1>1
    <3>2. P[m - 1 + k] = P[(m - 1 + k) - 1] + Width(s[m - 1 + k])
      BY <3>1 DEF AddsUp
    <3>3. part[k] = s[m - 1 + k]
      BY <1>3, <3>1
    <3>4. Width(s[m - 1 + k]) \in Nat
      BY <3>1, WidthFacts, ElementOfSeq
    <3>5. Q[k] = P[m - 1 + k] - P[m - 1] /\ Q[k - 1] = P[(m - 1 + k) - 1] - P[m - 1]
      BY <3>1
    <3> HIDE DEF Q
    <3>6. P[m - 1 + k] \in Nat /\ P[(m - 1 + k) - 1] \in Nat /\ P[m - 1] \in Nat
      BY <1>1, <3>1
    <3>7. P[m - 1 + k] - P[m - 1] =
            (P[(m - 1 + k) - 1] - P[m - 1]) + Width(s[m - 1 + k])
      BY <3>2, <3>4, <3>6
    <3>8. QED
      BY <3>3, <3>5, <3>7, Zenon
  <2> HIDE DEF Q
  <2>4. QED
    BY <1>3, <2>1, <2>2, <2>3 DEF AddsUp
<1>5. StrLen(part) = Q[n - m + 1]
  <2> HIDE DEF Q
  <2>1. QED
    BY <1>3, <1>4, SumIsStrLen
<1>6. n - m + 1 \in 0 .. n - m + 1 /\ m - 1 + (n - m + 1) = n
  BY <1>1
<1>7. StrLen(part) = P[n] - P[m - 1]
  BY <1>5, <1>6
<1>8. QED
  BY <1>3, <1>7 DEF part
-----------------------------------------------------------------------------
\* Where a token stands, and where four tokens stand in a row.
LEMMA OccurrencesOfOne ==
  ASSUME NEW s \in Seq(Token), NEW t \in Token
  PROVE  Occurrences(s, <<t>>) = {i \in 1 .. Len(s) : s[i] = t}
<1>1. Len(<<t>>) = 1 /\ Len(s) \in Nat
  OBVIOUS
<1>2. ASSUME NEW i \in 1 .. Len(s)
      PROVE  SubSeq(s, i, i + 1 - 1) = <<t>> <=> s[i] = t
  <2>1. i + 1 - 1 = i /\ \A j \in i .. i : s[j] \in Token
    BY ElementOfSeq
  <2>2. /\ SubSeq(s, i, i) \in Seq(Token) /\ Len(SubSeq(s, i, i)) = 1
        /\ SubSeq(s, i, i)[1] = s[i]
    <3>1. /\ SubSeq(s, i, i) \in Seq(Token)
          /\ Len(SubSeq(s, i, i)) = (IF i <= i THEN i - i + 1 ELSE 0)
          /\ \A j \in 1 .. i - i + 1 : SubSeq(s, i, i)[j] = s[i + j - 1]
      BY <2>1, SubSeqProperties
    <3>2. 1 \in 1 .. i - i + 1 /\ i + 1 - 1 = i /\ i <= i /\ i - i + 1 = 1
      OBVIOUS
    <3>3. QED
      BY <3>1, <3>2
  <2>3. <<t>> \in Seq(Token) /\ Len(<<t>>) = 1 /\ <<t>>[1] = t
    OBVIOUS
  <2>4. ASSUME s[i] = t PROVE SubSeq(s, i, i) = <<t>>
    <3>1. \A j \in 1 .. 1 : SubSeq(s, i, i)[j] = <<t>>[j]
      BY <2>2, <2>3, <2>4
    <3>2. QED
      BY <2>2, <2>3, <3>1, SeqEqual
  <2>5. QED
    BY <2>1, <2>2, <2>3, <2>4
<1>3. 1 .. Len(s) - 1 + 1 = 1 .. Len(s)
  BY <1>1
<1>4. Occurrences(s, <<t>>) = {i \in 1 .. Len(s) : SubSeq(s, i, i + 1 - 1) = <<t>>}
  BY <1>1, <1>3 DEF Occurrences
<1>5. QED
  BY <1>2, <1>4

LEMMA OccurrencesOfFour ==
  ASSUME NEW s \in Seq(Token), NEW a \in Token, NEW b \in Token,
         NEW c \in Token, NEW d \in Token
  PROVE  Occurrences(s, <<a, b, c, d>>) =
           {i \in 1 .. Len(s) - 3 :
              s[i] = a /\ s[i + 1] = b /\ s[i + 2] = c /\ s[i + 3] = d}
<1> DEFINE x == <<a, b, c, d>>
<1>1. /\ x \in Seq(Token) /\ Len(x) = 4 /\ Len(s) \in Nat
      /\ x[1] = a /\ x[2] = b /\ x[3] = c /\ x[4] = d
  OBVIOUS
<1> HIDE DEF x
<1>2. ASSUME NEW i \in 1 .. Len(s) - 3
      PROVE  SubSeq(s, i, i + 4 - 1) = x
               <=> s[i] = a /\ s[i + 1] = b /\ s[i + 2] = c /\ s[i + 3] = d
  <2> DEFINE y == SubSeq(s, i, i + 3)
  <2>1. /\ i \in Int /\ i + 3 \in Int /\ i + 4 - 1 = i + 3 /\ i <= i + 3
        /\ i + 3 - i + 1 = 4
        /\ \A j \in i .. i + 3 : j \in 1 .. Len(s)
    BY <1>1
  <2>2. \A j \in i .. i + 3 : s[j] \in Token
    BY <2>1, ElementOfSeq
  <2>3. /\ y \in Seq(Token) /\ Len(y) = 4
        /\ \A j \in 1 .. 4 : y[j] = s[i + j - 1]
    <3>1. /\ y \in Seq(Token)
          /\ Len(y) = (IF i <= i + 3 THEN i + 3 - i + 1 ELSE 0)
          /\ \A j \in 1 .. i + 3 - i + 1 : y[j] = s[i + j - 1]
      BY <2>1, <2>2, SubSeqProperties
    <3> HIDE DEF y
    <3>2. QED
      BY <2>1, <3>1
  <2>4. /\ y[1] = s[i] /\ y[2] = s[i + 1] /\ y[3] = s[i + 2] /\ y[4] = s[i + 3]
    <3>1. /\ 1 \in 1 .. 4 /\ 2 \in 1 .. 4 /\ 3 \in 1 .. 4 /\ 4 \in 1 .. 4
          /\ i + 1 - 1 = i /\ i + 2 - 1 = i + 1 /\ i + 3 - 1 = i + 2 /\ i + 4 - 1 = i + 3
      OBVIOUS
    <3> HIDE DEF y
    <3>2. /\ y[1] = s[i + 1 - 1] /\ y[2] = s[i + 2 - 1]
          /\ y[3] = s[i + 3 - 1] /\ y[4] = s[i + 4 - 1]
      BY <2>3, <3>1
    <3>3. QED
      BY <3>1, <3>2
  <2> HIDE DEF y
  <2>5. ASSUME s[i] = a, s[i + 1] = b, s[i + 2] = c, s[i + 3] = d PROVE y = x
    <3>1. \A j \in 1 .. 4 : j = 1 \/ j = 2 \/ j = 3 \/ j = 4
      OBVIOUS
    <3>2. \A j \in 1 .. 4 : y[j] = x[j]
      BY <1>1, <2>4, <2>5, <3>1
    <3>3. QED
      BY <1>1, <2>3, <3>2, SeqEqual
  <2>6. SubSeq(s, i, i + 4 - 1) = y
    BY <2>1 DEF y
  <2>7. QED
    BY <1>1, <2>4, <2>5, <2>6
<1>3. 1 .. Len(s) - 4 + 1 = 1 .. Len(s) - 3
  BY <1>1
<1>4. Occurrences(s, x) = {i \in 1 .. Len(s) - 3 : SubSeq(s, i, i + 4 - 1) = x}
  BY <1>1, <1>3 DEF Occurrences
<1>5. Occurrences(s, x) = {i \in 1 .. Len(s) - 3 :
              s[i] = a /\ s[i + 1] = b /\ s[i + 2] = c /\ s[i + 3] = d}
  BY <1>2, <1>4
<1>6. QED
  BY <1>5 DEF x

\* strstr() gives the first occurrence, where there is one.
LEMMA StartIsFirst ==
  ASSUME NEW s, Len(s) \in Nat, NEW x, Len(x) \in Nat, Occurrences(s, x) # {}
  PROVE  /\ Start(s, x) \in Occurrences(s, x)
         /\ \A j \in Occurrences(s, x) : Start(s, x) <= j
<1> DEFINE First(i) == \A j \in Occurrences(s, x) : i <= j
<1>1. Occurrences(s, x) \subseteq Nat
  BY DEF Occurrences
<1>2. \E i \in Occurrences(s, x) : First(i)
  BY <1>1, LeastNatural
<1>3. Start(s, x) = CHOOSE i \in Occurrences(s, x) : First(i)
  BY DEF Start
<1> HIDE DEF First
<1>4. Start(s, x) \in Occurrences(s, x) /\ First(Start(s, x))
  BY <1>2, <1>3
<1>5. QED
  BY <1>4 DEF First

\* The tokens of a text that is put together, one by one.
LEMMA AroundElements ==
  ASSUME NEW a \in Seq(Token), NEW b \in Seq(Token), NEW t \in Token,
         NEW s, s = (a \o <<t>>) \o b
  PROVE  /\ s \in Seq(Token) /\ Len(s) = Len(a) + 1 + Len(b)
         /\ \A i \in 1 .. Len(a) : s[i] = a[i]
         /\ s[Len(a) + 1] = t
         /\ \A i \in 1 .. Len(b) : s[Len(a) + 1 + i] = b[i]
<1> DEFINE n == Len(a) + 1
<1>1. /\ <<t>> \in Seq(Token) /\ Len(<<t>>) = 1 /\ <<t>>[1] = t
      /\ Len(a) \in Nat /\ Len(b) \in Nat
  OBVIOUS
<1>2. /\ a \o <<t>> \in Seq(Token) /\ Len(a \o <<t>>) = n
      /\ \A i \in 1 .. n : (a \o <<t>>)[i] = IF i <= Len(a) THEN a[i] ELSE t
  <2>1. /\ a \o <<t>> \in Seq(Token) /\ Len(a \o <<t>>) = Len(a) + Len(<<t>>)
        /\ \A i \in 1 .. Len(a) + Len(<<t>>) :
             (a \o <<t>>)[i] = IF i <= Len(a) THEN a[i] ELSE <<t>>[i - Len(a)]
    BY <1>1, ConcatProperties
  <2>2. \A i \in 1 .. n : ~(i <= Len(a)) => i - Len(a) = 1
    BY <1>1
  <2>3. QED
    BY <1>1, <2>1, <2>2
<1>3. /\ s \in Seq(Token) /\ Len(s) = n + Len(b)
      /\ \A i \in 1 .. n + Len(b) :
           s[i] = IF i <= n THEN (a \o <<t>>)[i] ELSE b[i - n]
  BY <1>2, ConcatProperties
<1>4. ASSUME NEW i \in 1 .. Len(a) PROVE s[i] = a[i]
  <2>1. i \in 1 .. n /\ i \in 1 .. n + Len(b) /\ i <= n
    BY <1>1
  <2>2. QED
    BY <1>2, <1>3, <2>1
<1>5. s[n] = t
  <2>1. n \in 1 .. n /\ n \in 1 .. n + Len(b) /\ n <= n /\ ~(n <= Len(a))
    BY <1>1
  <2>2. QED
    BY <1>2, <1>3, <2>1
<1>6. ASSUME NEW i \in 1 .. Len(b) PROVE s[n + i] = b[i]
  <2>1. n + i \in 1 .. n + Len(b) /\ ~(n + i <= n) /\ (n + i) - n = i
    BY <1>1
  <2>2. QED
    BY <1>3, <2>1
<1>7. QED
  BY <1>3, <1>4, <1>5, <1>6

\* A text around the first t in it.
SplitAt(s, t, a, b) ==
  s \in Seq(Token) /\ t \in ToSet(s) /\ Before(s, t) = a /\ Past(s, t) = b

LEMMA AroundToken ==
  ASSUME NEW a \in Seq(Token), NEW b \in Seq(Token), NEW t \in Token,
         t \notin ToSet(a), NEW s, s = (a \o <<t>>) \o b
  PROVE  SplitAt(s, t, a, b)
<1> DEFINE n == Len(a) + 1
<1>1. /\ Len(<<t>>) = 1 /\ Len(a) \in Nat /\ Len(b) \in Nat
  OBVIOUS
<1>2. \A i \in 1 .. Len(a) : a[i] # t
  <2>1. DOMAIN a = 1 .. Len(a)
    BY LenProperties
  <2>2. QED
    BY <2>1 DEF ToSet
<1>3. s \in Seq(Token) /\ Len(s) = n + Len(b)
  BY AroundElements
<1>4. /\ \A i \in 1 .. Len(a) : s[i] = a[i] /\ s[i] # t
      /\ s[n] = t
      /\ \A i \in 1 .. Len(b) : s[n + i] = b[i]
  BY <1>2, AroundElements
<1>5. Occurrences(s, <<t>>) = {i \in 1 .. Len(s) : s[i] = t}
  BY <1>3, OccurrencesOfOne
<1>6. n \in Occurrences(s, <<t>>)
  <2>1. n \in 1 .. Len(s)
    BY <1>1, <1>3
  <2> HIDE DEF n
  <2>2. QED
    BY <1>4, <1>5, <2>1
<1>7. Start(s, <<t>>) = n
  <2>1. /\ Start(s, <<t>>) \in Occurrences(s, <<t>>) /\ Start(s, <<t>>) <= n
    <3>1. Len(s) \in Nat /\ Len(<<t>>) \in Nat /\ Occurrences(s, <<t>>) # {}
      BY <1>1, <1>3, <1>6
    <3> HIDE DEF n
    <3>2. QED
      BY <1>6, <3>1, StartIsFirst
  <2>2. ASSUME Start(s, <<t>>) < n PROVE FALSE
    <3>1. Start(s, <<t>>) \in 1 .. Len(a) /\ s[Start(s, <<t>>)] = t
      BY <1>1, <1>5, <2>1, <2>2
    <3>2. QED
      BY <1>4, <3>1
  <2>3. Start(s, <<t>>) \in Nat
    BY <1>5, <2>1
  <2>4. QED
    BY <1>1, <2>1, <2>2, <2>3
<1>8. t \in ToSet(s)
  <2>1. n \in 1 .. Len(s) /\ DOMAIN s = 1 .. Len(s)
    BY <1>1, <1>3, LenProperties
  <2>2. QED
    BY <1>4, <2>1 DEF ToSet
<1>9. Before(s, t) = a
  <2>1. /\ n - 1 = Len(a) /\ \A i \in 1 .. Len(a) : s[i] \in Token
    BY <1>1, <1>4, ElementOfSeq
  <2>2. /\ SubSeq(s, 1, Len(a)) \in Seq(Token) /\ Len(SubSeq(s, 1, Len(a))) = Len(a)
        /\ \A i \in 1 .. Len(a) : SubSeq(s, 1, Len(a))[i] = a[i]
    <3>1. /\ SubSeq(s, 1, Len(a)) \in Seq(Token)
          /\ Len(SubSeq(s, 1, Len(a))) = IF 1 <= Len(a) THEN Len(a) - 1 + 1 ELSE 0
          /\ \A i \in 1 .. Len(a) - 1 + 1 : SubSeq(s, 1, Len(a))[i] = s[1 + i - 1]
      BY <1>1, <2>1, SubSeqProperties
    <3>2. /\ (IF 1 <= Len(a) THEN Len(a) - 1 + 1 ELSE 0) = Len(a)
          /\ Len(a) - 1 + 1 = Len(a) /\ \A i \in 1 .. Len(a) : 1 + i - 1 = i
      BY <1>1
    <3>3. QED
      BY <1>4, <3>1, <3>2
  <2>3. SubSeq(s, 1, Len(a)) = a
    BY <2>2, SeqEqual
  <2>4. QED
    BY <1>7, <1>8, <2>1, <2>3 DEF Before
<1>10. Past(s, t) = b
  <2>1. /\ \A i \in n + 1 .. Len(s) : s[i] \in Token
        /\ n + 1 \in Int /\ Len(s) \in Int
    BY <1>1, <1>3, ElementOfSeq
  <2>2. /\ SubSeq(s, n + 1, Len(s)) \in Seq(Token)
        /\ Len(SubSeq(s, n + 1, Len(s))) = Len(b)
        /\ \A i \in 1 .. Len(b) : SubSeq(s, n + 1, Len(s))[i] = b[i]
    <3>1. /\ SubSeq(s, n + 1, Len(s)) \in Seq(Token)
          /\ Len(SubSeq(s, n + 1, Len(s))) =
               (IF n + 1 <= Len(s) THEN Len(s) - (n + 1) + 1 ELSE 0)
          /\ \A i \in 1 .. Len(s) - (n + 1) + 1 :
               SubSeq(s, n + 1, Len(s))[i] = s[(n + 1) + i - 1]
      BY <2>1, SubSeqProperties
    <3>2. /\ (IF n + 1 <= Len(s) THEN Len(s) - (n + 1) + 1 ELSE 0) = Len(b)
          /\ Len(s) - (n + 1) + 1 = Len(b)
          /\ \A i \in 1 .. Len(b) : (n + 1) + i - 1 = n + i
      BY <1>1, <1>3
    <3>3. QED
      BY <1>4, <3>1, <3>2
  <2>3. SubSeq(s, n + 1, Len(s)) = b
    BY <2>2, SeqEqual
  <2>4. QED
    BY <1>1, <1>7, <1>8, <2>3 DEF Past, Behind
<1>11. QED
  BY <1>3, <1>8, <1>9, <1>10 DEF SplitAt

-----------------------------------------------------------------------------
\* A scheme, as it is looked for, and a URL that begins with it.
SchemeText(c) == <<c, Colon, Slash, Slash>>

LEMMA FixedTokens ==
  /\ Slash \in Token /\ Colon \in Token /\ Http \in Token /\ Https \in Token
  /\ Slash # Colon /\ Http # Slash /\ Https # Slash /\ Http # Https
  /\ Http # Colon /\ Https # Colon
  /\ \A n : Number(n) # Slash /\ Number(n) # Colon
  /\ \A n \in 0 .. MaxNumber : Number(n) \in Token
  BY DEF Token, Slash, Colon, Http, Https, Dot, Number

\* Where a scheme is found in a text.
FoundAt(s, c, i) ==
  /\ i \in 1 .. Len(s) - 3 /\ Len(s) \in Nat
  /\ s[i] = c /\ s[i + 1] = Colon /\ s[i + 2] = Slash /\ s[i + 3] = Slash

LEMMA SchemeAt ==
  ASSUME NEW s \in Seq(Token), NEW c \in Token, NEW i \in Occurrences(s, SchemeText(c))
  PROVE  FoundAt(s, c, i)
<1>1. Occurrences(s, SchemeText(c)) =
        {j \in 1 .. Len(s) - 3 :
           s[j] = c /\ s[j + 1] = Colon /\ s[j + 2] = Slash /\ s[j + 3] = Slash}
  BY FixedTokens, OccurrencesOfFour DEF SchemeText
<1>2. QED
  BY <1>1 DEF FoundAt

LEMMA SchemeIsAt ==
  ASSUME NEW s \in Seq(Token), NEW c \in Token, NEW i \in 1 .. Len(s) - 3,
         s[i] = c, s[i + 1] = Colon, s[i + 2] = Slash, s[i + 3] = Slash
  PROVE  i \in Occurrences(s, SchemeText(c))
<1>1. Occurrences(s, SchemeText(c)) =
        {j \in 1 .. Len(s) - 3 :
           s[j] = c /\ s[j + 1] = Colon /\ s[j + 2] = Slash /\ s[j + 3] = Slash}
  BY FixedTokens, OccurrencesOfFour DEF SchemeText
<1>2. QED
  BY <1>1

\* A text behind a scheme, token by token.
BeginsWith(s, c, u) ==
  /\ s \in Seq(Token) /\ Len(s) = 4 + Len(u) /\ Len(u) \in Nat
  /\ s[1] = c /\ s[2] = Colon /\ s[3] = Slash /\ s[4] = Slash
  /\ \A i \in 1 .. Len(u) : s[4 + i] = u[i]

LEMMA SchemeElements ==
  ASSUME NEW c \in Token, NEW u \in Seq(Token), NEW s, s = SchemeText(c) \o u
  PROVE  BeginsWith(s, c, u)
<1> DEFINE x == SchemeText(c)
<1>1. /\ x \in Seq(Token) /\ Len(x) = 4 /\ Len(u) \in Nat
      /\ x[1] = c /\ x[2] = Colon /\ x[3] = Slash /\ x[4] = Slash
  BY FixedTokens DEF SchemeText
<1> HIDE DEF x
<1>2. /\ x \o u \in Seq(Token) /\ Len(x \o u) = Len(x) + Len(u)
      /\ \A i \in 1 .. Len(x) + Len(u) :
           (x \o u)[i] = IF i <= Len(x) THEN x[i] ELSE u[i - Len(x)]
  BY <1>1, ConcatProperties
<1>3. s = x \o u
  BY DEF x
<1>4. /\ s \in Seq(Token) /\ Len(s) = 4 + Len(u)
      /\ \A i \in 1 .. 4 + Len(u) : s[i] = IF i <= 4 THEN x[i] ELSE u[i - 4]
  BY <1>1, <1>2, <1>3
<1>5. s[1] = x[1] /\ s[2] = x[2] /\ s[3] = x[3] /\ s[4] = x[4]
  <2>1. /\ 1 \in 1 .. 4 + Len(u) /\ 2 \in 1 .. 4 + Len(u)
        /\ 3 \in 1 .. 4 + Len(u) /\ 4 \in 1 .. 4 + Len(u)
        /\ 1 <= 4 /\ 2 <= 4 /\ 3 <= 4 /\ 4 <= 4
    BY <1>1
  <2>2. QED
    BY <1>4, <2>1
<1>6. ASSUME NEW i \in 1 .. Len(u) PROVE s[4 + i] = u[i]
  <2>1. 4 + i \in 1 .. 4 + Len(u) /\ ~(4 + i <= 4) /\ (4 + i) - 4 = i
    BY <1>1
  <2>2. QED
    BY <1>4, <2>1
<1>7. QED
  BY <1>1, <1>4, <1>5, <1>6 DEF BeginsWith

\* Behind the scheme that a URL begins with stands the rest.
LEMMA BehindScheme ==
  ASSUME NEW c \in Token, NEW u \in Seq(Token), NEW s, s = SchemeText(c) \o u
  PROVE  Occurrences(s, SchemeText(c)) # {} /\ Behind(s, SchemeText(c)) = u
<1>1. /\ s \in Seq(Token) /\ Len(s) = 4 + Len(u) /\ Len(u) \in Nat
      /\ s[1] = c /\ s[2] = Colon /\ s[3] = Slash /\ s[4] = Slash
      /\ \A i \in 1 .. Len(u) : s[4 + i] = u[i]
  <2>1. BeginsWith(s, c, u)
    BY SchemeElements
  <2>2. QED
    BY <2>1 DEF BeginsWith
<1>2. 1 \in Occurrences(s, SchemeText(c))
  <2>1. 1 \in 1 .. Len(s) - 3 /\ 1 + 1 = 2 /\ 1 + 2 = 3 /\ 1 + 3 = 4
    BY <1>1
  <2>2. QED
    BY <1>1, <2>1, SchemeIsAt
<1>3. Len(SchemeText(c)) = 4
  BY DEF SchemeText
<1>4. Start(s, SchemeText(c)) = 1
  <2>1. Len(s) \in Nat /\ Len(SchemeText(c)) \in Nat
    BY <1>1, <1>3
  <2>2. /\ Start(s, SchemeText(c)) \in Occurrences(s, SchemeText(c))
        /\ Start(s, SchemeText(c)) <= 1
    BY <1>2, <2>1, StartIsFirst
  <2>3. Start(s, SchemeText(c)) \in 1 .. Len(s) - 3
    BY <1>1, <2>2, SchemeAt DEF FoundAt
  <2>4. QED
    BY <1>1, <2>2, <2>3
<1>5. \A i \in 5 .. Len(s) : s[i] \in Token
  BY <1>1, ElementOfSeq
<1>6. /\ SubSeq(s, 5, Len(s)) \in Seq(Token)
      /\ Len(SubSeq(s, 5, Len(s))) = (IF 5 <= Len(s) THEN Len(s) - 5 + 1 ELSE 0)
      /\ \A i \in 1 .. Len(s) - 5 + 1 : SubSeq(s, 5, Len(s))[i] = s[5 + i - 1]
  <2>1. 5 \in Int /\ Len(s) \in Int
    BY <1>1
  <2>2. QED
    BY <1>5, <2>1, SubSeqProperties
<1>7. /\ (IF 5 <= Len(s) THEN Len(s) - 5 + 1 ELSE 0) = Len(u)
      /\ Len(s) - 5 + 1 = Len(u)
      /\ \A i \in 1 .. Len(u) : 5 + i - 1 = 4 + i
  BY <1>1
<1>8. \A i \in 1 .. Len(u) : SubSeq(s, 5, Len(s))[i] = u[i]
  BY <1>1, <1>6, <1>7
<1>9. SubSeq(s, 5, Len(s)) = u
  BY <1>6, <1>7, <1>8, SeqEqual
<1>10. Behind(s, SchemeText(c)) = u
  BY <1>3, <1>4, <1>9 DEF Behind
<1>11. QED
  BY <1>2, <1>10

\* In a host and port no scheme is found, and behind them only one of the path:
\* it would begin there with the first slash, or end with it.
LEMMA SchemeInPath ==
  ASSUME NEW a \in Seq(Token), Slash \notin ToSet(a),
         Len(a) # 0 => a[Len(a)] # Colon,
         NEW c \in Token, c # Slash, NEW b \in Seq(Token),
         Occurrences(b, SchemeText(c)) = {},
         NEW s, s = (a \o <<Slash>>) \o b
  PROVE  Occurrences(s, SchemeText(c)) = {}
<1> SUFFICES ASSUME NEW i \in Occurrences(s, SchemeText(c)) PROVE FALSE
  OBVIOUS
<1>1. /\ s \in Seq(Token) /\ Len(s) = Len(a) + 1 + Len(b)
      /\ \A j \in 1 .. Len(a) : s[j] = a[j]
      /\ s[Len(a) + 1] = Slash
      /\ \A j \in 1 .. Len(b) : s[Len(a) + 1 + j] = b[j]
  BY FixedTokens, AroundElements
<1>2. /\ i \in 1 .. Len(s) - 3
      /\ s[i] = c /\ s[i + 1] = Colon /\ s[i + 2] = Slash /\ s[i + 3] = Slash
  <2>1. s \in Seq(Token)
    BY <1>1
  <2>2. FoundAt(s, c, i)
    BY <2>1, SchemeAt
  <2>3. QED
    BY <2>2 DEF FoundAt
<1>3. Len(a) \in Nat /\ Len(b) \in Nat
  OBVIOUS
<1>4. \A j \in 1 .. Len(a) : s[j] # Slash
  <2>1. DOMAIN a = 1 .. Len(a)
    BY LenProperties
  <2>2. QED
    BY <1>1, <2>1 DEF ToSet
<1>5. i + 2 > Len(a)
  <2>1. i + 2 \in Nat /\ i + 2 >= 1
    BY <1>1, <1>2, <1>3
  <2>2. i + 2 \notin 1 .. Len(a)
    BY <1>2, <1>4
  <2>3. QED
    BY <1>3, <2>1, <2>2
<1>6. i + 2 # Len(a) + 1
  <2> SUFFICES ASSUME i + 2 = Len(a) + 1 PROVE FALSE
    OBVIOUS
  <2>1. i + 1 = Len(a) /\ Len(a) \in 1 .. Len(a) /\ Len(a) # 0
    BY <1>1, <1>2, <1>3
  <2>2. a[Len(a)] = Colon
    BY <1>1, <1>2, <2>1
  <2>3. QED
    BY <2>1, <2>2
<1>7. i + 1 # Len(a) + 1
  BY <1>1, <1>2, FixedTokens
<1>8. i # Len(a) + 1
  BY <1>1, <1>2
<1>9. i > Len(a) + 1
  <2>1. i \in Nat
    BY <1>1, <1>2, <1>3
  <2>2. QED
    BY <1>3, <1>5, <1>6, <1>7, <1>8, <2>1
<1> DEFINE j == i - (Len(a) + 1)
<1>10. /\ j \in 1 .. Len(b) - 3
       /\ j \in 1 .. Len(b) /\ j + 1 \in 1 .. Len(b)
       /\ j + 2 \in 1 .. Len(b) /\ j + 3 \in 1 .. Len(b)
       /\ Len(a) + 1 + j = i /\ Len(a) + 1 + (j + 1) = i + 1
       /\ Len(a) + 1 + (j + 2) = i + 2 /\ Len(a) + 1 + (j + 3) = i + 3
  BY <1>1, <1>2, <1>3, <1>9
<1> HIDE DEF j
<1>11. b[j] = c /\ b[j + 1] = Colon /\ b[j + 2] = Slash /\ b[j + 3] = Slash
  BY <1>1, <1>2, <1>10
<1>12. j \in Occurrences(b, SchemeText(c))
  BY <1>10, <1>11, SchemeIsAt
<1>13. QED
  BY <1>12

LEMMA NoSchemeWithoutSlash ==
  ASSUME NEW a \in Seq(Token), Slash \notin ToSet(a), NEW c \in Token
  PROVE  Occurrences(a, SchemeText(c)) = {}
<1> SUFFICES ASSUME NEW i \in Occurrences(a, SchemeText(c)) PROVE FALSE
  OBVIOUS
<1>1. i \in 1 .. Len(a) - 3 /\ Len(a) \in Nat /\ a[i + 2] = Slash
  BY SchemeAt DEF FoundAt
<1>2. i + 2 \in 1 .. Len(a) /\ DOMAIN a = 1 .. Len(a)
  BY <1>1, LenProperties
<1>3. QED
  BY <1>1, <1>2 DEF ToSet

LEMMA NoHttpBehindHttps ==
  ASSUME NEW u \in Seq(Token), Occurrences(u, SchemeText(Http)) = {},
         NEW s, s = SchemeText(Https) \o u
  PROVE  Occurrences(s, SchemeText(Http)) = {}
<1> SUFFICES ASSUME NEW i \in Occurrences(s, SchemeText(Http)) PROVE FALSE
  OBVIOUS
<1>1. /\ s \in Seq(Token) /\ Len(s) = 4 + Len(u) /\ Len(u) \in Nat
      /\ s[1] = Https /\ s[2] = Colon /\ s[3] = Slash /\ s[4] = Slash
      /\ \A k \in 1 .. Len(u) : s[4 + k] = u[k]
  <2>1. BeginsWith(s, Https, u)
    BY FixedTokens, SchemeElements
  <2>2. QED
    BY <2>1 DEF BeginsWith
<1>2. /\ i \in 1 .. Len(s) - 3
      /\ s[i] = Http /\ s[i + 1] = Colon /\ s[i + 2] = Slash /\ s[i + 3] = Slash
  <2>1. FoundAt(s, Http, i)
    BY <1>1, FixedTokens, SchemeAt
  <2>2. QED
    BY <2>1 DEF FoundAt
<1>3. i # 1 /\ i # 2 /\ i # 3 /\ i # 4
  BY <1>1, <1>2, FixedTokens
<1> DEFINE j == i - 4
<1>4. /\ j \in 1 .. Len(u) - 3
      /\ j \in 1 .. Len(u) /\ j + 1 \in 1 .. Len(u)
      /\ j + 2 \in 1 .. Len(u) /\ j + 3 \in 1 .. Len(u)
      /\ 4 + j = i /\ 4 + (j + 1) = i + 1 /\ 4 + (j + 2) = i + 2 /\ 4 + (j + 3) = i + 3
  BY <1>1, <1>2, <1>3
<1> HIDE DEF j
<1>5. u[j] = Http /\ u[j + 1] = Colon /\ u[j + 2] = Slash /\ u[j + 3] = Slash
  BY <1>1, <1>2, <1>4
<1>6. j \in Occurrences(u, SchemeText(Http))
  BY <1>4, <1>5, FixedTokens, SchemeIsAt
<1>7. QED
  BY <1>6

-----------------------------------------------------------------------------
\* The URL of its parts: what stands before the first slash behind the scheme,
\* and from there on.
PortText(p)  == IF p.port = None THEN <<>> ELSE <<Colon, Number(p.port)>>
Authority(p) == p.host \o PortText(p)
Rest(p)      == IF p.path = None THEN <<>> ELSE <<Slash>> \o p.path

\* No scheme in the path is found before the one in front: not Misleading.
Clear(p) ==
  /\ p.scheme # "http" /\ p.path # None => Occurrences(p.path, SchemeText(Http)) = {}
  /\ p.scheme = None /\ p.path # None => Occurrences(p.path, SchemeText(Https)) = {}

LEMMA PartsFacts ==
  ASSUME NEW p \in Parts
  PROVE  /\ p.scheme \in {"http", "https", None}
         /\ p.host \in Seq(Token) /\ p.host # <<>> /\ p.host # None
         /\ Slash \notin ToSet(p.host) /\ Colon \notin ToSet(p.host)
         /\ p.port # None => p.port \in 0 .. MaxNumber
         /\ p.path # None => p.path \in Seq(Token)
  BY MessageAssumption

LEMMA InToSet ==
  ASSUME NEW s \in Seq(Token), NEW t
  PROVE  t \in ToSet(s) <=> \E i \in 1 .. Len(s) : s[i] = t
<1>1. DOMAIN s = 1 .. Len(s)
  BY LenProperties
<1>2. QED
  BY <1>1 DEF ToSet

LEMMA AuthorityFacts ==
  ASSUME NEW p \in Parts
  PROVE  /\ PortText(p) \in Seq(Token)
         /\ Authority(p) \in Seq(Token)
         /\ Slash \notin ToSet(Authority(p))
         /\ Authority(p)[Len(Authority(p))] # Colon
         /\ Before(Authority(p), Colon) = p.host
         /\ p.port = None => Colon \notin ToSet(Authority(p))
         /\ p.port # None => /\ Colon \in ToSet(Authority(p))
                            /\ Past(Authority(p), Colon) = <<Number(p.port)>>
<1>1. /\ p.host \in Seq(Token) /\ p.host # <<>>
      /\ Slash \notin ToSet(p.host) /\ Colon \notin ToSet(p.host)
      /\ p.port # None => p.port \in 0 .. MaxNumber
  BY PartsFacts
<1>2. Len(p.host) \in Nat /\ Len(p.host) # 0
  BY <1>1, EmptySeq
<1>3. CASE p.port = None
  <2>1. Authority(p) = p.host /\ PortText(p) = <<>>
    BY <1>1, <1>3, ConcatEmptySeq DEF Authority, PortText
  <2>2. Len(p.host) \in 1 .. Len(p.host)
    BY <1>2
  <2>3. p.host[Len(p.host)] # Colon
    BY <1>1, <2>2, InToSet
  <2>4. Before(p.host, Colon) = p.host
    BY <1>1 DEF Before
  <2>5. <<>> \in Seq(Token)
    OBVIOUS
  <2>6. QED
    BY <1>1, <1>3, <2>1, <2>3, <2>4, <2>5
<1>4. CASE p.port # None
  <2> DEFINE q == Number(p.port)
             s == (p.host \o <<Colon>>) \o <<q>>
  <2>1. q \in Token /\ q # Slash /\ q # Colon /\ Colon \in Token
    BY <1>1, <1>4, FixedTokens
  <2>2. /\ <<Colon>> \in Seq(Token) /\ <<q>> \in Seq(Token)
        /\ Len(<<q>>) = 1 /\ <<q>>[1] = q
    <3> HIDE DEF q
    <3>1. QED
      BY <2>1
  <2>3. PortText(p) = <<Colon>> \o <<q>>
    BY <1>4 DEF PortText
  <2>4. Authority(p) = s
    BY <1>1, <2>2, <2>3, ConcatAssociative DEF Authority
  <2> HIDE DEF q
  <2>5. /\ s \in Seq(Token) /\ Len(s) = Len(p.host) + 1 + Len(<<q>>)
        /\ \A i \in 1 .. Len(p.host) : s[i] = p.host[i]
        /\ s[Len(p.host) + 1] = Colon
        /\ \A i \in 1 .. Len(<<q>>) : s[Len(p.host) + 1 + i] = <<q>>[i]
    BY <1>1, <2>1, <2>2, AroundElements
  <2>6. /\ Colon \in ToSet(s) /\ Before(s, Colon) = p.host
        /\ Past(s, Colon) = <<q>>
    <3>1. s = (p.host \o <<Colon>>) \o <<q>>
      OBVIOUS
    <3> HIDE DEF s
    <3>2. SplitAt(s, Colon, p.host, <<q>>)
      BY <1>1, <2>1, <2>2, <3>1, AroundToken
    <3>3. QED
      BY <3>2 DEF SplitAt
  <2> HIDE DEF s
  <2>7. Len(s) = Len(p.host) + 2 /\ s[Len(s)] = q
    <3>1. /\ Len(s) = Len(p.host) + 2 /\ 1 \in 1 .. Len(<<q>>)
          /\ Len(p.host) + 1 + 1 = Len(s)
      BY <1>2, <2>2, <2>5
    <3>2. s[Len(p.host) + 1 + 1] = q
      BY <2>2, <2>5, <3>1
    <3>3. QED
      BY <3>1, <3>2
  <2>8. Slash \notin ToSet(s)
    <3> SUFFICES ASSUME NEW i \in 1 .. Len(s), s[i] = Slash PROVE FALSE
      BY <2>5, InToSet
    <3>1. i \in 1 .. Len(p.host) \/ i = Len(p.host) + 1 \/ i = Len(s)
      BY <1>2, <2>7
    <3>2. i \notin 1 .. Len(p.host)
      BY <1>1, <2>5, InToSet
    <3>3. i # Len(p.host) + 1
      BY <2>5, FixedTokens
    <3>4. i # Len(s)
      BY <2>1, <2>7
    <3>5. QED
      BY <3>1, <3>2, <3>3, <3>4
  <2>9. PortText(p) \in Seq(Token)
    BY <2>2, <2>3, ConcatProperties
  <2>10. QED
    BY <1>4, <2>1, <2>4, <2>5, <2>6, <2>7, <2>8, <2>9 DEF q
<1>5. QED
  BY <1>3, <1>4

\* The parts, in the order they are looked for.
LEMMA UrlText ==
  ASSUME NEW p \in Parts
  PROVE  /\ Authority(p) \o Rest(p) \in Seq(Token)
         /\ p.scheme = "http" => Url(p) = SchemeText(Http) \o (Authority(p) \o Rest(p))
         /\ p.scheme = "https" => Url(p) = SchemeText(Https) \o (Authority(p) \o Rest(p))
         /\ p.scheme = None => Url(p) = Authority(p) \o Rest(p)
<1> DEFINE front == CASE p.scheme = "http"  -> <<Http, Colon, Slash, Slash>>
                      [] p.scheme = "https" -> <<Https, Colon, Slash, Slash>>
                      [] p.scheme = None    -> <<>>
           a == p.host
           b == PortText(p)
           c == Rest(p)
<1>1. p.scheme \in {"http", "https", None} /\ None \notin {"http", "https"}
  BY PartsFacts, MessageAssumption
<1>2. /\ p.scheme = "http" => front = SchemeText(Http)
      /\ p.scheme = "https" => front = SchemeText(Https)
      /\ p.scheme = None => front = <<>>
  BY <1>1 DEF SchemeText
<1>3. front \in Seq(Token)
  <2>1. /\ SchemeText(Http) \in Seq(Token) /\ SchemeText(Https) \in Seq(Token)
        /\ <<>> \in Seq(Token)
    BY FixedTokens DEF SchemeText
  <2> HIDE DEF front
  <2>2. QED
    BY <1>1, <1>2, <2>1
<1>4. a \in Seq(Token) /\ b \in Seq(Token)
  BY PartsFacts, AuthorityFacts
<1>5. c \in Seq(Token)
  <2>1. <<>> \in Seq(Token) /\ <<Slash>> \in Seq(Token)
    BY FixedTokens
  <2>2. p.path # None => p.path \in Seq(Token)
    BY PartsFacts
  <2>3. QED
    BY <2>1, <2>2, ConcatProperties DEF Rest
<1>6. Url(p) = ((front \o a) \o b) \o c
  BY DEF Url, PortText, Rest
<1>7. Authority(p) = a \o b
  BY DEF Authority
<1> HIDE DEF front, a, b, c
<1>8. a \o b \in Seq(Token) /\ (a \o b) \o c \in Seq(Token)
  BY <1>4, <1>5, ConcatProperties
<1>9. ((front \o a) \o b) \o c = front \o ((a \o b) \o c)
  <2>1. (front \o a) \o b = front \o (a \o b)
    BY <1>3, <1>4, ConcatAssociative
  <2>2. (front \o (a \o b)) \o c = front \o ((a \o b) \o c)
    <3> DEFINE ab == a \o b
    <3>1. ab \in Seq(Token)
      BY <1>8
    <3> HIDE DEF ab
    <3>2. (front \o ab) \o c = front \o (ab \o c)
      BY <1>3, <1>5, <3>1, ConcatAssociative
    <3>3. QED
      BY <3>2 DEF ab
  <2>3. QED
    BY <2>1, <2>2
<1>10. <<>> \o ((a \o b) \o c) = (a \o b) \o c
  BY <1>8, ConcatEmptySeq
<1>11. Rest(p) = c
  BY DEF c
<1>12. QED
  BY <1>2, <1>6, <1>7, <1>8, <1>9, <1>10, <1>11

LEMMA AppendSlash ==
  ASSUME NEW a \in Seq(Token), NEW b \in Seq(Token)
  PROVE  a \o (<<Slash>> \o b) = (a \o <<Slash>>) \o b
<1>1. <<Slash>> \in Seq(Token)
  BY FixedTokens
<1>2. QED
  BY <1>1, ConcatAssociative

\* What is behind the scheme has none, of a kind that the path has not.
LEMMA NoSchemeBehind ==
  ASSUME NEW p \in Parts, NEW c \in Token, c # Slash,
         p.path # None => Occurrences(p.path, SchemeText(c)) = {}
  PROVE  Occurrences(Authority(p) \o Rest(p), SchemeText(c)) = {}
<1> DEFINE a == Authority(p)
<1>1. a \in Seq(Token) /\ Slash \notin ToSet(a) /\ a[Len(a)] # Colon
  BY AuthorityFacts
<1>2. CASE p.path = None
  <2>1. a \o Rest(p) = a
    BY <1>1, <1>2, ConcatEmptySeq DEF Rest
  <2>2. Occurrences(a, SchemeText(c)) = {}
    <3> HIDE DEF a
    <3>1. QED
      BY <1>1, NoSchemeWithoutSlash
  <2>3. QED
    BY <2>1, <2>2
<1>3. CASE p.path # None
  <2>1. p.path \in Seq(Token) /\ <<Slash>> \in Seq(Token)
    BY <1>3, PartsFacts, FixedTokens
  <2>2. a \o Rest(p) = (a \o <<Slash>>) \o p.path
    <3>1. Rest(p) = <<Slash>> \o p.path
      BY <1>3 DEF Rest
    <3> HIDE DEF a
    <3>2. a \o (<<Slash>> \o p.path) = (a \o <<Slash>>) \o p.path
      BY <1>1, <2>1, AppendSlash
    <3>3. QED
      BY <3>1, <3>2
  <2>3. Occurrences(p.path, SchemeText(c)) = {}
    BY <1>3
  <2> HIDE DEF a
  <2>4. Occurrences((a \o <<Slash>>) \o p.path, SchemeText(c)) = {}
    BY <1>1, <2>1, <2>3, SchemeInPath
  <2>5. QED
    BY <2>2, <2>4 DEF a
<1>4. QED
  BY <1>2, <1>3

LEMMA UrlAfterScheme ==
  ASSUME NEW p \in Parts, Clear(p)
  PROVE  AfterScheme(Url(p)) = Authority(p) \o Rest(p)
<1> DEFINE u == Authority(p) \o Rest(p)
           s == Url(p)
<1>1. /\ u \in Seq(Token)
      /\ p.scheme = "http" => s = SchemeText(Http) \o u
      /\ p.scheme = "https" => s = SchemeText(Https) \o u
      /\ p.scheme = None => s = u
  BY UrlText
<1>2. /\ p.scheme # "http" => Occurrences(u, SchemeText(Http)) = {}
      /\ p.scheme = None => Occurrences(u, SchemeText(Https)) = {}
  BY FixedTokens, NoSchemeBehind DEF Clear
<1>3. p.scheme \in {"http", "https", None} /\ None \notin {"http", "https"}
  BY PartsFacts, MessageAssumption
<1>4. AfterScheme(s) = IF Occurrences(s, SchemeText(Http)) # {}
                         THEN Behind(s, SchemeText(Http))
                         ELSE IF Occurrences(s, SchemeText(Https)) # {}
                                THEN Behind(s, SchemeText(Https))
                                ELSE s
  BY DEF AfterScheme, SchemeText
<1> HIDE DEF u, s
<1>5. CASE p.scheme = "http"
  <2>1. /\ Occurrences(s, SchemeText(Http)) # {}
        /\ Behind(s, SchemeText(Http)) = u
    BY <1>1, <1>5, FixedTokens, BehindScheme
  <2>2. QED
    BY <1>4, <2>1 DEF u, s
<1>6. CASE p.scheme = "https"
  <2>1. /\ Occurrences(s, SchemeText(Https)) # {}
        /\ Behind(s, SchemeText(Https)) = u
    BY <1>1, <1>6, FixedTokens, BehindScheme
  <2>2. Occurrences(s, SchemeText(Http)) = {}
    BY <1>1, <1>2, <1>6, NoHttpBehindHttps
  <2>3. QED
    BY <1>4, <2>1, <2>2 DEF u, s
<1>7. CASE p.scheme = None
  <2>1. s = u
    BY <1>1, <1>7
  <2>2. Occurrences(s, SchemeText(Http)) = {} /\ Occurrences(s, SchemeText(Https)) = {}
    BY <1>2, <1>3, <1>7, <2>1
  <2>3. QED
    BY <1>4, <2>1, <2>2 DEF u, s
<1>8. QED
  BY <1>3, <1>5, <1>6, <1>7

\* The functions that parse a URL give its parts back.
LEMMA UrlParsed ==
  ASSUME NEW p \in Parts, Clear(p)
  PROVE  /\ GetHostAddrFromUrl(Url(p)) = Authority(p)
         /\ GetParamFromUrl(Url(p)) = IF p.path = None THEN <<>> ELSE p.path
<1> DEFINE a == Authority(p)
           u == a \o Rest(p)
<1>1. GetHostAddrFromUrl(Url(p)) = Before(u, Slash) /\ GetParamFromUrl(Url(p)) = Past(u, Slash)
  BY UrlAfterScheme DEF GetHostAddrFromUrl, GetParamFromUrl
<1>2. a \in Seq(Token) /\ Slash \notin ToSet(a)
  BY AuthorityFacts
<1>3. CASE p.path = None
  <2>1. u = a
    BY <1>2, <1>3, ConcatEmptySeq DEF Rest
  <2>2. Before(a, Slash) = a /\ Past(a, Slash) = <<>>
    BY <1>2 DEF Before, Past
  <2>3. QED
    BY <1>1, <1>3, <2>1, <2>2
<1>4. CASE p.path # None
  <2>1. p.path \in Seq(Token) /\ <<Slash>> \in Seq(Token) /\ Slash \in Token
    BY <1>4, PartsFacts, FixedTokens
  <2>2. u = (a \o <<Slash>>) \o p.path
    <3>1. Rest(p) = <<Slash>> \o p.path
      BY <1>4 DEF Rest
    <3> HIDE DEF a
    <3>2. a \o (<<Slash>> \o p.path) = (a \o <<Slash>>) \o p.path
      BY <1>2, <2>1, AppendSlash
    <3>3. QED
      BY <3>1, <3>2
  <2>3. Before(u, Slash) = a /\ Past(u, Slash) = p.path
    <3> HIDE DEF u, a
    <3>1. SplitAt(u, Slash, a, p.path)
      BY <1>2, <2>1, <2>2, AroundToken
    <3>2. QED
      BY <3>1 DEF SplitAt
  <2>4. QED
    BY <1>1, <1>4, <2>3
<1>5. QED
  BY <1>3, <1>4

LEMMA PortParsed ==
  ASSUME NEW p \in Parts, Clear(p)
  PROVE  /\ p.port = None => GetPortFromUrl(Url(p)) = 80
         /\ p.port # None => GetPortFromUrl(Url(p)) = p.port /\ p.port \in Nat
<1>1. GetHostAddrFromUrl(Url(p)) = Authority(p)
  BY UrlParsed
<1>2. CASE p.port = None
  BY <1>1, <1>2, AuthorityFacts DEF GetPortFromUrl
<1>3. CASE p.port # None
  <2>1. /\ Colon \in ToSet(Authority(p))
        /\ Past(Authority(p), Colon) = <<Number(p.port)>>
    BY <1>3, AuthorityFacts
  <2>2. /\ <<Number(p.port)>> # <<>> /\ Head(<<Number(p.port)>>) = Number(p.port)
        /\ Number(p.port).c = "number" /\ Number(p.port).n = p.port
    BY DEF Number
  <2>3. GetPortFromUrl(Url(p)) = p.port
    BY <1>1, <2>1, <2>2 DEF GetPortFromUrl
  <2>4. p.port \in Nat
    <3>1. p.port \in 0 .. MaxNumber
      BY <1>3, PartsFacts
    <3>2. QED
      BY <3>1
  <2>5. QED
    BY <1>3, <2>3, <2>4
<1>4. QED
  BY <1>2, <1>3

LEMMA IPParsed ==
  ASSUME NEW p \in Parts, Clear(p)
  PROVE  GetIPFromUrl(Url(p)) =
           IF StrLen(p.host) <= 1 THEN None
           ELSE IF Dots(p.host) = 3 \/ p.host \in Names THEN p.host ELSE None
<1>1. GetHostAddrFromUrl(Url(p)) = Authority(p)
  BY UrlParsed
<1>2. Before(Authority(p), Colon) = p.host
  BY AuthorityFacts
<1>3. QED
  BY <1>1, <1>2 DEF GetIPFromUrl

-----------------------------------------------------------------------------
\* The length of a text, and of the parts it is split into.
LEMMA StrLenFacts ==
  ASSUME NEW s \in Seq(Token)
  PROVE  StrLen(s) \in Nat /\ StrLen(s) >= Len(s)
<1>1. PICK P : AddsUp(s, P)
  BY SumExists
<1>2. StrLen(s) = P[Len(s)]
  BY <1>1, SumIsStrLen
<1>3. 0 \in 0 .. Len(s) /\ Len(s) \in 0 .. Len(s) /\ Len(s) \in Nat
  OBVIOUS
<1>4. P[Len(s)] \in Nat /\ P[Len(s)] - P[0] >= Len(s) - 0
  BY <1>1, <1>3, SumGrows
<1>5. P[0] = 0
  BY <1>1 DEF AddsUp
<1>6. QED
  BY <1>2, <1>3, <1>4, <1>5

\* Two parts of s that do not overlap.
Apart(a, b, s) ==
  /\ a \in Seq(Token) /\ b \in Seq(Token)
  /\ StrLen(a) \in Nat /\ StrLen(b) \in Nat
  /\ StrLen(a) + StrLen(b) <= StrLen(s)

LEMMA AroundText ==
  ASSUME NEW s \in Seq(Token), NEW x, Len(x) \in Nat, Occurrences(s, x) # {}
  PROVE  Apart(SubSeq(s, 1, Start(s, x) - 1), Behind(s, x), s)
<1> DEFINE i == Start(s, x)
           n == Len(s)
           k == Len(x)
<1>1. n \in Nat /\ k \in Nat
  OBVIOUS
<1>2. i \in 1 .. n - k + 1
  <2>1. i \in Occurrences(s, x)
    BY <1>1, StartIsFirst
  <2>2. QED
    BY <2>1 DEF Occurrences
<1>3. PICK P : AddsUp(s, P)
  BY SumExists
<1>4. StrLen(s) = P[n]
  BY <1>3, SumIsStrLen
<1>5. Behind(s, x) = SubSeq(s, i + k, n)
  BY DEF Behind
<1> HIDE DEF i, k
<1>6. /\ i - 1 \in 0 .. n /\ i + k \in 1 .. n + 1 /\ (i + k) - 1 \in (i - 1) .. n
      /\ n \in ((i + k) - 1) .. n /\ 1 \in 1 .. n + 1 /\ i - 1 \in (1 - 1) .. n
      /\ (i + k) - 1 \in 0 .. n /\ 0 \in 0 .. n /\ 1 - 1 = 0
  BY <1>1, <1>2
<1>7. /\ SubSeq(s, 1, i - 1) \in Seq(Token)
      /\ StrLen(SubSeq(s, 1, i - 1)) = P[i - 1] - P[1 - 1]
  BY <1>3, <1>6, PartLength
<1>8. /\ SubSeq(s, i + k, n) \in Seq(Token)
      /\ StrLen(SubSeq(s, i + k, n)) = P[n] - P[(i + k) - 1]
  <2> DEFINE m == i + k
  <2>1. m \in 1 .. Len(s) + 1 /\ Len(s) \in (m - 1) .. Len(s)
    BY <1>6
  <2> HIDE DEF m
  <2>2. /\ SubSeq(s, m, Len(s)) \in Seq(Token)
        /\ StrLen(SubSeq(s, m, Len(s))) = P[Len(s)] - P[m - 1]
    BY <1>3, <2>1, PartLength
  <2>3. QED
    BY <2>2 DEF m
<1>9. /\ P[i - 1] \in Nat /\ P[(i + k) - 1] \in Nat
      /\ P[(i + k) - 1] - P[i - 1] >= ((i + k) - 1) - (i - 1)
  BY <1>3, <1>6, SumGrows
<1>10. P[1 - 1] = 0
  BY <1>3, <1>6 DEF AddsUp
<1>11. /\ StrLen(SubSeq(s, 1, i - 1)) \in Nat
       /\ StrLen(SubSeq(s, i + k, n)) \in Nat
  BY <1>7, <1>8, StrLenFacts
<1>12. P[n] \in Nat
  BY <1>4, StrLenFacts
<1>13. StrLen(SubSeq(s, 1, i - 1)) + StrLen(SubSeq(s, i + k, n)) <= StrLen(s)
  <2>1. P[(i + k) - 1] >= P[i - 1]
    BY <1>1, <1>2, <1>9
  <2>2. QED
    BY <1>4, <1>7, <1>8, <1>9, <1>10, <1>12, <2>1
<1>14. Apart(SubSeq(s, 1, i - 1), SubSeq(s, i + k, n), s)
  BY <1>7, <1>8, <1>11, <1>13 DEF Apart
<1>15. QED
  BY <1>5, <1>14 DEF i

LEMMA SplitLength ==
  ASSUME NEW s \in Seq(Token), NEW t \in Token
  PROVE  Apart(Before(s, t), Past(s, t), s)
<1>1. CASE t \in ToSet(s)
  <2>1. Occurrences(s, <<t>>) # {}
    BY <1>1, InToSet, OccurrencesOfOne
  <2>2. Len(<<t>>) \in Nat
    OBVIOUS
  <2>3. Apart(SubSeq(s, 1, Start(s, <<t>>) - 1), Behind(s, <<t>>), s)
    BY <2>1, <2>2, AroundText
  <2>4. QED
    BY <1>1, <2>3 DEF Before, Past
<1>2. CASE t \notin ToSet(s)
  <2>1. Before(s, t) = s /\ Past(s, t) = <<>>
    BY <1>2 DEF Before, Past
  <2>2. <<>> \in Seq(Token) /\ Len(<<>>) = 0
    OBVIOUS
  <2>3. StrLen(<<>>) = 0
    <3>1. PICK P : AddsUp(<<>>, P)
      BY <2>2, SumExists
    <3>2. StrLen(<<>>) = P[0]
      BY <2>2, <3>1, SumIsStrLen
    <3>3. QED
      BY <3>1, <3>2 DEF AddsUp
  <2>4. StrLen(s) \in Nat /\ StrLen(s) + 0 <= StrLen(s)
    BY StrLenFacts
  <2>5. Apart(s, <<>>, s)
    BY <2>2, <2>3, <2>4 DEF Apart
  <2>6. QED
    BY <2>1, <2>5
<1>3. QED
  BY <1>1, <1>2

LEMMA AfterSchemeLength ==
  ASSUME NEW s \in Seq(Token)
  PROVE  AfterScheme(s) \in Seq(Token) /\ StrLen(AfterScheme(s)) <= StrLen(s)
<1>1. ASSUME NEW c, Occurrences(s, SchemeText(c)) # {}
      PROVE  /\ Behind(s, SchemeText(c)) \in Seq(Token)
             /\ StrLen(Behind(s, SchemeText(c))) <= StrLen(s)
  <2>1. Len(SchemeText(c)) \in Nat
    BY DEF SchemeText
  <2>2. Apart(SubSeq(s, 1, Start(s, SchemeText(c)) - 1), Behind(s, SchemeText(c)), s)
    BY <1>1, <2>1, AroundText
  <2>3. StrLen(s) \in Nat
    BY StrLenFacts
  <2>4. QED
    BY <2>2, <2>3 DEF Apart
<1>2. AfterScheme(s) = IF Occurrences(s, SchemeText(Http)) # {}
                         THEN Behind(s, SchemeText(Http))
                         ELSE IF Occurrences(s, SchemeText(Https)) # {}
                                THEN Behind(s, SchemeText(Https))
                                ELSE s
  BY DEF AfterScheme, SchemeText
<1>3. StrLen(s) <= StrLen(s)
  BY StrLenFacts
<1>4. QED
  BY <1>1, <1>2, <1>3

\* The host and the parameter are parts of the URL, whatever it is.
LEMMA HeadTexts ==
  ASSUME NEW s \in Seq(Token)
  PROVE  /\ StrLen(GetHostAddrFromUrl(s)) \in Nat
         /\ StrLen(GetParamFromUrl(s)) \in Nat
         /\ StrLen(GetHostAddrFromUrl(s)) + StrLen(GetParamFromUrl(s)) <= StrLen(s)
<1> DEFINE u == AfterScheme(s)
<1>1. u \in Seq(Token) /\ StrLen(u) <= StrLen(s)
  BY AfterSchemeLength
<1>2. GetHostAddrFromUrl(s) = Before(u, Slash) /\ GetParamFromUrl(s) = Past(u, Slash)
  BY DEF GetHostAddrFromUrl, GetParamFromUrl
<1> HIDE DEF u
<1>3. Apart(Before(u, Slash), Past(u, Slash), u)
  BY <1>1, FixedTokens, SplitLength
<1>4. StrLen(u) \in Nat /\ StrLen(s) \in Nat
  BY <1>1, StrLenFacts
<1>5. QED
  BY <1>1, <1>2, <1>3, <1>4 DEF Apart

LEMMA UrlIsText ==
  ASSUME NEW p \in Parts
  PROVE  Url(p) \in Seq(Token)
<1> DEFINE u == Authority(p) \o Rest(p)
<1>1. /\ u \in Seq(Token)
      /\ p.scheme = "http" => Url(p) = SchemeText(Http) \o u
      /\ p.scheme = "https" => Url(p) = SchemeText(Https) \o u
      /\ p.scheme = None => Url(p) = u
  BY UrlText
<1>2. p.scheme \in {"http", "https", None}
  BY PartsFacts
<1> HIDE DEF u
<1>3. SchemeText(Http) \o u \in Seq(Token) /\ SchemeText(Https) \o u \in Seq(Token)
  <2>1. BeginsWith(SchemeText(Http) \o u, Http, u)
    BY <1>1, FixedTokens, SchemeElements
  <2>2. BeginsWith(SchemeText(Https) \o u, Https, u)
    BY <1>1, FixedTokens, SchemeElements
  <2>3. QED
    BY <2>1, <2>2 DEF BeginsWith
<1>4. QED
  BY <1>1, <1>2, <1>3

\* A head of a URL that is not refused fits, with a body of up to 39776 bytes.
LEMMA HeadBounds ==
  ASSUME NEW s \in Seq(Token), ~Refused(s), NEW body \in Lengths \cup {None}
  PROVE  body = None \/ body <= 39776 => HeadLength(s, body) < BUFSIZE
<1> DEFINE h == StrLen(GetHostAddrFromUrl(s))
           q == StrLen(GetParamFromUrl(s))
<1>1. h \in Nat /\ q \in Nat /\ h + q <= 1024
  <2>1. StrLen(s) \in Nat /\ StrLen(s) <= 1024
    BY StrLenFacts DEF Refused, URLSIZE
  <2>2. h \in Nat /\ q \in Nat /\ h + q <= StrLen(s)
    BY HeadTexts
  <2> HIDE DEF h, q
  <2>3. QED
    BY <2>1, <2>2
<1>2. HeadLength(s, body) =
        2 + q + 11 + 13 + 33 + 25 + 6 + h + 2 + 25 + 24
        + (IF body = None THEN 3 ELSE 4 + 25 + 16 + Digits(body) + 4 + body) + 4
  BY DEF HeadLength
<1> HIDE DEF h, q
<1>3. CASE body = None
  <2>1. HeadLength(s, body) = 148 + q + h
    BY <1>1, <1>2, <1>3
  <2>2. HeadLength(s, body) < BUFSIZE
    BY <1>1, <2>1, SMT DEF BUFSIZE
  <2>3. QED
    BY <2>2
<1>4. CASE body # None
  <2>1. body \in 0 .. MaxNumber /\ body \in Nat
    BY <1>4, MessageAssumption
  <2>2. /\ Digits(body) \in Nat /\ Digits(body) >= 1
        /\ body < 100000 => Digits(body) <= 5
    BY <2>1, DigitsFacts, SMT
  <2>3. HeadLength(s, body) = 194 + q + h + Digits(body) + body
    BY <1>1, <1>2, <1>4, <2>1, <2>2
  <2>4. ASSUME body <= 39776 PROVE HeadLength(s, body) < BUFSIZE
    <3>1. Digits(body) <= 5
      BY <2>1, <2>2, <2>4, SMT
    <3>2. QED
      BY <1>1, <2>1, <2>2, <2>3, <2>4, <3>1, SMT DEF BUFSIZE
  <2>5. QED
    BY <1>4, <2>4
<1>5. QED
  BY <1>3, <1>4

-----------------------------------------------------------------------------
\* The condition on which the client connects.
Resolved(s) ==
  LET ip == GetIPFromUrl(s)
  IN  ip # None /\ (Numeric(ip) \/ (Dots(ip) # 3 /\ ip \in Names))

\* What the client has of the URL at each stage.
MessageInv ==
  /\ parts \in Parts
  /\ data \in Lengths \cup {None}
  /\ head # None =>
       /\ ~Refused(strUrl)
       /\ head = [param |-> GetParamFromUrl(strUrl),
                  host |-> GetHostAddrFromUrl(strUrl)]
  /\ stage = "headed" => ~Refused(strUrl)
  /\ stage = "returned" /\ ~Refused(strUrl) => ~Resolved(strUrl)
  /\ stage = "connect" => /\ Resolved(strUrl)
                          /\ address = GetIPFromUrl(strUrl)
                          /\ port = Htons(GetPortFromUrl(strUrl))

LEMMA MessageInvInit == Init => MessageInv
  BY DEF Init, MessageInv

LEMMA MessageInvNext == MessageInv /\ [Next]_vars => MessageInv'
<1> SUFFICES ASSUME MessageInv, [Next]_vars PROVE MessageInv'
  OBVIOUS
<1>1. CASE CreateHead
  <2>1. /\ parts' = parts /\ data' = data /\ strUrl' = strUrl
    BY <1>1 DEF CreateHead, strUrl
  <2>2. CASE Refused(strUrl)
    <3>1. stage' = "returned" /\ head' = head
      BY <1>1, <2>2 DEF CreateHead
    <3>2. QED
      BY <2>1, <2>2, <3>1 DEF MessageInv
  <2>3. CASE ~Refused(strUrl)
    <3>1. /\ stage' = "headed"
          /\ head' = [param |-> GetParamFromUrl(strUrl),
                      host |-> GetHostAddrFromUrl(strUrl)]
      BY <1>1, <2>3 DEF CreateHead
    <3>2. QED
      BY <2>1, <2>3, <3>1 DEF MessageInv
  <2>4. QED
    BY <2>2, <2>3
<1>2. CASE ResolveAddress
  <2>1. /\ parts' = parts /\ data' = data /\ head' = head /\ strUrl' = strUrl
    BY <1>2 DEF ResolveAddress, strUrl
  <2>2. CASE Resolved(strUrl)
    <3>1. /\ stage' = "connect" /\ address' = GetIPFromUrl(strUrl)
          /\ port' = Htons(GetPortFromUrl(strUrl))
      BY <1>2, <2>2 DEF ResolveAddress, Resolved
    <3>2. QED
      BY <2>1, <2>2, <3>1 DEF MessageInv
  <2>3. CASE ~Resolved(strUrl)
    <3>1. stage' = "returned"
      BY <1>2, <2>3 DEF ResolveAddress, Resolved
    <3>2. QED
      BY <2>1, <2>3, <3>1 DEF MessageInv
  <2>4. QED
    BY <2>2, <2>3
<1>3. CASE UNCHANGED vars
  <2>1. strUrl' = strUrl
    BY <1>3 DEF vars, strUrl
  <2>2. QED
    BY <1>3, <2>1 DEF MessageInv, vars
<1>4. QED
  BY <1>1, <1>2, <1>3 DEF Next

LEMMA MessageInvariant == Spec => []MessageInv
  BY MessageInvInit, MessageInvNext, PTL DEF Spec

LEMMA DefaultPort == MaxPort \in Nat /\ 80 <= MaxPort
  BY SMT DEF MaxPort

\* A port of 16 bits is not changed.
LEMMA HtonsFacts ==
  ASSUME NEW n \in Nat
  PROVE  /\ Htons(n) \in 0 .. MaxPort
         /\ n <= MaxPort => Htons(n) = n
  BY DefaultPort, SMT DEF Htons

LEMMA NotMisleading ==
  ASSUME ~Misleading PROVE Clear(parts)
  BY DEF Misleading, Inner, Clear, SchemeText

-----------------------------------------------------------------------------
\* HttpHeadCreate names the host with its port and the path that the URL was
\* written for, for every URL no path of which hides a scheme.
THEOREM HeadIsTheUrls == Spec => []HeadNamesParts
<1>1. MessageInv => HeadNamesParts
  <2> SUFFICES ASSUME MessageInv, head # None, ~Misleading
               PROVE  /\ head.param = IF parts.path = None THEN <<>> ELSE parts.path
                      /\ head.host = parts.host \o
                           (IF parts.port = None THEN <<>>
                            ELSE <<Colon, Number(parts.port)>>)
    BY DEF HeadNamesParts
  <2>1. /\ head.param = GetParamFromUrl(strUrl)
        /\ head.host = GetHostAddrFromUrl(strUrl)
    BY DEF MessageInv
  <2>2. /\ GetHostAddrFromUrl(strUrl) = Authority(parts)
        /\ GetParamFromUrl(strUrl) = IF parts.path = None THEN <<>> ELSE parts.path
    BY NotMisleading, UrlParsed DEF MessageInv, strUrl
  <2>3. QED
    BY <2>1, <2>2 DEF Authority, PortText
<1>2. QED
  BY <1>1, MessageInvariant, PTL

\* connect() is called for the host and the port of the URL alone; the port is
\* taken modulo 2^16, which changes only one that is none.
THEOREM ConnectsAsAsked == Spec => []ConnectsToHost
<1>1. MessageInv => ConnectsToHost
  <2> SUFFICES ASSUME MessageInv, stage = "connect", ~Misleading
               PROVE  /\ address = parts.host
                      /\ port \in 0 .. MaxPort
                      /\ parts.port = None => port = 80
                      /\ parts.port # None /\ parts.port <= MaxPort => port = parts.port
    BY DEF ConnectsToHost
  <2>1. /\ parts \in Parts /\ Clear(parts)
        /\ Resolved(strUrl) /\ address = GetIPFromUrl(strUrl)
        /\ port = Htons(GetPortFromUrl(strUrl))
    BY NotMisleading DEF MessageInv
  <2>2. address = parts.host
    <3>1. GetIPFromUrl(strUrl) # None
      BY <2>1 DEF Resolved
    <3>2. GetIPFromUrl(strUrl) =
            IF StrLen(parts.host) <= 1 THEN None
            ELSE IF Dots(parts.host) = 3 \/ parts.host \in Names
                   THEN parts.host ELSE None
      BY <2>1, IPParsed DEF strUrl
    <3>3. QED
      BY <2>1, <3>1, <3>2, Zenon
  <2>3. /\ parts.port = None => GetPortFromUrl(strUrl) = 80
        /\ parts.port # None => GetPortFromUrl(strUrl) = parts.port /\ parts.port \in Nat
    BY <2>1, PortParsed DEF strUrl
  <2>4. /\ port \in 0 .. MaxPort
        /\ GetPortFromUrl(strUrl) <= MaxPort => port = GetPortFromUrl(strUrl)
    <3>1. GetPortFromUrl(strUrl) \in Nat
      BY <2>3
    <3>2. QED
      BY <2>1, <3>1, HtonsFacts, Zenon
  <2>5. QED
    BY <2>2, <2>3, <2>4, DefaultPort, Zenon
<1>2. QED
  BY <1>1, MessageInvariant, PTL

\* GetIPFromUrl and inet_pton give up on a host that DNS knows only for its three
\* dots or for its single character.
THEOREM KnownHostsAreReached == Spec => []KnownHostFound
<1>1. MessageInv => KnownHostFound
  <2> SUFFICES ASSUME MessageInv, stage = "returned", ~Refused(strUrl), ~Misleading,
                      parts.host \in Names, Dots(parts.host) # 3,
                      StrLen(parts.host) # 1
               PROVE  FALSE
    BY DEF KnownHostFound
  <2>1. parts \in Parts /\ Clear(parts) /\ ~Resolved(strUrl)
    BY NotMisleading DEF MessageInv
  <2>2. parts.host \in Seq(Token) /\ parts.host # <<>> /\ parts.host # None
    BY <2>1, PartsFacts
  <2>3. ~(StrLen(parts.host) <= 1)
    <3> DEFINE h == parts.host
    <3>1. Len(h) \in Nat /\ Len(h) # 0
      BY <2>2, EmptySeq
    <3>2. StrLen(h) \in Nat /\ StrLen(h) >= Len(h)
      BY <2>2, StrLenFacts
    <3>3. StrLen(h) # 1
      OBVIOUS
    <3> HIDE DEF h
    <3>4. ~(StrLen(h) <= 1)
      BY <3>1, <3>2, <3>3
    <3>5. QED
      BY <3>4 DEF h
  <2>4. GetIPFromUrl(strUrl) = parts.host
    BY <2>1, <2>3, IPParsed DEF strUrl
  <2>5. QED
    BY <2>1, <2>2, <2>4 DEF Resolved
<1>2. QED
  BY <1>1, MessageInvariant, PTL

\* What overruns a buffer, for a URL that is not refused.
LEMMA OverrunCauses ==
  ASSUME MessageInv, ~Refused(strUrl)
  PROVE  /\ ~(StrLen(strUrl) < URLSIZE) => StrLen(strUrl) = URLSIZE
         /\ ~(StrLen(GetHostAddrFromUrl(strUrl)) < URLSIZE) => StrLen(strUrl) = URLSIZE
         /\ ~(HeadLength(strUrl, data) < BUFSIZE) => data # None /\ data > 39776
         /\ data # None /\ ~(Digits(data) < 8) => data > 39776
<1> DEFINE u == StrLen(strUrl)
           h == StrLen(GetHostAddrFromUrl(strUrl))
           l == HeadLength(strUrl, data)
<1>1. strUrl \in Seq(Token) /\ data \in Lengths \cup {None}
  BY UrlIsText DEF MessageInv, strUrl
<1>2. u \in Nat /\ h \in Nat /\ h <= u
  BY <1>1, StrLenFacts, HeadTexts
<1>3. ~(URLSIZE < u) /\ URLSIZE \in Nat
  BY DEF Refused, URLSIZE
<1>4. data = None \/ data <= 39776 => l < BUFSIZE
  BY <1>1, HeadBounds
<1>5. data # None => data \in 0 .. MaxNumber /\ data \in Nat
  BY <1>1, MessageAssumption
<1>6. data # None => (data < 100000 => Digits(data) <= 5) /\ Digits(data) \in Nat
  BY <1>5, DigitsFacts, SMT
<1>7. l \in Nat
  <2>1. StrLen(GetParamFromUrl(strUrl)) \in Nat
    BY <1>1, HeadTexts
  <2>2. QED
    BY <1>2, <1>5, <1>6, <2>1 DEF HeadLength
<1> HIDE DEF u, h, l
<1>8. (~(u < URLSIZE) => u = URLSIZE) /\ (~(h < URLSIZE) => u = URLSIZE)
  BY <1>2, <1>3
<1>9. ~(l < BUFSIZE) => data # None /\ data > 39776
  BY <1>4, <1>5, <1>7, SMT DEF BUFSIZE
<1>10. data # None /\ ~(Digits(data) < 8) => data > 39776
  BY <1>5, <1>6, SMT
<1>11. QED
  BY <1>8, <1>9, <1>10 DEF u, h, l

\* What Overrun gives, whatever the lengths.
LEMMA OverrunFacts ==
  ASSUME NEW buffer, NEW size, NEW n, NEW cause \in BOOLEAN, ~(n < size) => cause
  PROVE  /\ Overrun(buffer, size, n) \subseteq {buffer}
         /\ Overrun(buffer, size, n) # {} => cause
  BY DEF Overrun

\* The two conditions under which a buffer is overrun.
LongUrl  == StrLen(strUrl) = URLSIZE
LongBody == data # None /\ data > 39776

\* BuffersHold, as its parts.
BuffersKept ==
  /\ overrun \cap {"url", "strAddr"} # {} => LongUrl
  /\ overrun \cap {"strHttpHead", "len"} # {} => LongBody

LEMMA KeptIsHold == BuffersKept <=> BuffersHold
  BY DEF BuffersKept, BuffersHold, LongUrl, LongBody

\* The test of the URL's length bounds every buffer a URL is copied to, and the
\* head: no call writes past the end of one, but with a URL of that very length
\* or with more than 39776 bytes of body.
THEOREM BuffersAreKept == Spec => []BuffersHold
<1>1. Init => BuffersKept
  BY DEF Init, BuffersKept
<1>2. ASSUME MessageInv, BuffersKept, [Next]_vars PROVE BuffersKept'
  <2>1. ASSUME UNCHANGED data, strUrl' = strUrl
        PROVE  LongUrl' = LongUrl /\ LongBody' = LongBody
    BY <2>1 DEF LongUrl, LongBody
  <2>2. CASE CreateHead
    <3>1. UNCHANGED data /\ strUrl' = strUrl
      BY <2>2 DEF CreateHead, strUrl
    <3>2. LongUrl' = LongUrl /\ LongBody' = LongBody
      BY <2>1, <3>1
    <3>3. CASE Refused(strUrl)
      <4>1. UNCHANGED overrun
        BY <2>2, <3>3 DEF CreateHead
      <4>2. QED
        BY <1>2, <3>2, <4>1 DEF BuffersKept
    <3>4. CASE ~Refused(strUrl)
      <4> DEFINE urls == Overrun("url", URLSIZE, StrLen(strUrl))
                 heads == Overrun("strHttpHead", BUFSIZE, HeadLength(strUrl, data))
                 lens == IF data = None THEN {} ELSE Overrun("len", 8, Digits(data))
      <4>1. /\ ~(StrLen(strUrl) < URLSIZE) => LongUrl
            /\ ~(HeadLength(strUrl, data) < BUFSIZE) => LongBody
            /\ data # None /\ ~(Digits(data) < 8) => LongBody
        BY <1>2, <3>4, OverrunCauses DEF LongUrl, LongBody
      <4>2. LongUrl \in BOOLEAN /\ LongBody \in BOOLEAN
        BY DEF LongUrl, LongBody
      <4>3. overrun' = urls \cup heads \cup lens
        BY <2>2, <3>4 DEF CreateHead
      <4>4. urls \subseteq {"url"} /\ (urls # {} => LongUrl)
        BY <4>1, <4>2, OverrunFacts
      <4>5. heads \subseteq {"strHttpHead"} /\ (heads # {} => LongBody)
        BY <4>1, <4>2, OverrunFacts
      <4>6. lens \subseteq {"len"} /\ (lens # {} => LongBody)
        <5>1. CASE data = None
          BY <5>1
        <5>2. CASE data # None
          <6>1. ~(Digits(data) < 8) => LongBody
            BY <4>1, <5>2
          <6>2. lens = Overrun("len", 8, Digits(data))
            BY <5>2
          <6>3. QED
            BY <4>2, <6>1, <6>2, OverrunFacts
        <5>3. QED
          BY <5>1, <5>2
      <4> HIDE DEF urls, heads, lens
      <4>7. QED
        BY <3>2, <4>3, <4>4, <4>5, <4>6 DEF BuffersKept
    <3>5. QED
      BY <3>3, <3>4
  <2>3. CASE ResolveAddress
    <3>1. UNCHANGED data /\ strUrl' = strUrl /\ ~Refused(strUrl)
      BY <1>2, <2>3 DEF ResolveAddress, strUrl, MessageInv
    <3>2. LongUrl' = LongUrl /\ LongBody' = LongBody
      BY <2>1, <3>1
    <3> DEFINE addrs == Overrun("strAddr", URLSIZE, StrLen(GetHostAddrFromUrl(strUrl)))
    <3>3. overrun' = overrun \cup addrs
      BY <2>3 DEF ResolveAddress
    <3>4. addrs \subseteq {"strAddr"} /\ (addrs # {} => LongUrl)
      <4>1. ~(StrLen(GetHostAddrFromUrl(strUrl)) < URLSIZE) => LongUrl
        BY <1>2, <3>1, OverrunCauses DEF LongUrl
      <4>2. LongUrl \in BOOLEAN
        BY DEF LongUrl
      <4>3. QED
        BY <4>1, <4>2, OverrunFacts
    <3> HIDE DEF addrs
    <3>5. QED
      BY <1>2, <3>2, <3>3, <3>4 DEF BuffersKept
  <2>4. CASE UNCHANGED vars
    <3>1. UNCHANGED <<data, overrun>> /\ strUrl' = strUrl
      BY <2>4 DEF vars, strUrl
    <3>2. QED
      BY <1>2, <2>1, <3>1 DEF BuffersKept
  <2>5. QED
    BY <1>2, <2>2, <2>3, <2>4 DEF Next
<1>3. BuffersKept => BuffersHold
  BY KeptIsHold
<1>4. QED
  BY <1>1, <1>2, <1>3, MessageInvariant, PTL DEF Spec

-----------------------------------------------------------------------------
\* The id of a machine.  A double, as MacHash has it, and the integer it is.
Double == Nat \X {n \in Nat : n < Base}
\* Up to Exact a double is any integer, up to Coarse any even one, and then
\* any multiple of 4.
Exact  == 2 ^ 29 * Base
Coarse == 2 ^ 30 * Base

Value(x) == x[1] * Base + x[2]

LEMMA Powers ==
  /\ Base = 16777216 /\ 2 ^ 29 = 536870912 /\ 2 ^ 30 = 1073741824
  /\ Exact = 9007199254740992 /\ Coarse = 18014398509481984
<1>1. Base = 16777216 /\ 2 ^ 29 = 536870912 /\ 2 ^ 30 = 1073741824
  BY SMT DEF Base
<1>2. QED
  BY <1>1, SMT DEF Exact, Coarse

\* To the nearest multiple of 2 and of 4, as Rounded does it.
LEMMA NearestEven ==
  ASSUME NEW n \in Nat,
         NEW up \in 0 .. 1,
         up = 1 <=> 2 * (n % 2) > 2 \/ (2 * (n % 2) = 2 /\ (n \div 2) % 2 = 1)
  PROVE  LET low == 2 * (n \div 2 + up)
         IN  /\ low \in Nat /\ low - n \in -1 .. 1 /\ low % 2 = 0
             /\ n % 2 = 0 => low = n
<1>1. n \div 2 \in Nat /\ n % 2 \in 0 .. 1 /\ n = 2 * (n \div 2) + (n % 2)
  BY SMT
<1>2. \A q \in Nat : (2 * (q + up)) % 2 = 0
  BY SMT
<1>3. QED
  BY <1>1, <1>2, SMT

LEMMA NearestFourfold ==
  ASSUME NEW n \in Nat,
         NEW up \in 0 .. 1,
         up = 1 <=> 2 * (n % 4) > 4 \/ (2 * (n % 4) = 4 /\ (n \div 4) % 2 = 1)
  PROVE  LET low == 4 * (n \div 4 + up)
         IN  low \in Nat /\ low - n \in -2 .. 2 /\ low % 4 = 0
<1>1. n \div 4 \in Nat /\ n % 4 \in 0 .. 3 /\ n = 4 * (n \div 4) + (n % 4)
  BY SMT
<1>2. \A q \in Nat : (4 * (q + up)) % 4 = 0
  BY SMT
<1>3. QED
  BY <1>1, <1>2, SMT

LEMMA ValueNat == \A x \in Double : Value(x) \in Nat
  BY Powers, SMT DEF Double, Value

LEMMA NormalFacts ==
  ASSUME NEW high \in Nat, NEW low \in Nat
  PROVE  /\ Normal(high, low) \in Double
         /\ Value(Normal(high, low)) = high * Base + low
<1>1. low \div Base \in Nat /\ low % Base \in Nat /\ low % Base < Base
  BY Powers, SMT
<1>2. low = (low \div Base) * Base + (low % Base)
  BY Powers, SMT
<1>3. QED
  BY <1>1, <1>2, Powers, SMT DEF Normal, Double, Value

LEMMA ValueUnique ==
  ASSUME NEW x \in Double, NEW y \in Double, Value(x) = Value(y)
  PROVE  x = y
<1>1. /\ x[1] \in Nat /\ x[2] \in Nat /\ x[2] < Base /\ x = <<x[1], x[2]>>
      /\ y[1] \in Nat /\ y[2] \in Nat /\ y[2] < Base /\ y = <<y[1], y[2]>>
  BY Powers, SMT DEF Double
<1>2. \A a, b, c, d \in Nat :
         a * Base + b = c * Base + d /\ b < Base /\ d < Base => a = c /\ b = d
  BY Powers, SMT
<1>3. x[1] = y[1] /\ x[2] = y[2]
  BY <1>1, <1>2 DEF Value
<1>4. QED
  BY <1>1, <1>3

LEMMA RoundedFacts ==
  ASSUME NEW x \in Double
  PROVE  /\ Rounded(x) \in Double
         /\ Value(x) < Exact => Value(Rounded(x)) = Value(x)
         /\ Value(x) < Coarse =>
              /\ Value(Rounded(x)) - Value(x) \in -1 .. 1
              /\ Value(x) >= Exact => Value(Rounded(x)) % 2 = 0
              /\ Value(x) % 2 = 0 => Value(Rounded(x)) = Value(x)
         /\ Value(x) >= Coarse =>
              /\ Value(Rounded(x)) - Value(x) \in -2 .. 2
              /\ Value(Rounded(x)) % 4 = 0
<1> DEFINE unit  == IF x[1] >= 2 ^ 30 THEN 4 ELSE IF x[1] >= 2 ^ 29 THEN 2 ELSE 1
           below == x[2] \div unit
           over  == x[2] % unit
           up    == 2 * over > unit \/ (2 * over = unit /\ below % 2 = 1)
           one   == IF up THEN 1 ELSE 0
           low   == unit * (below + one)
<1>1. x[1] \in Nat /\ x[2] \in Nat /\ x[2] < Base
  BY Powers, SMT DEF Double
<1>2. Rounded(x) = Normal(x[1], low)
  BY Powers, SMT DEF Rounded
<1>3. /\ Value(x) < Exact => x[1] < 2 ^ 29
      /\ Value(x) < Coarse => x[1] < 2 ^ 30
      /\ Value(x) >= Exact => x[1] >= 2 ^ 29
      /\ Value(x) >= Coarse => x[1] >= 2 ^ 30
  BY <1>1, Powers, SMT DEF Value
<1>4. CASE x[1] < 2 ^ 29
  <2>1. low \in Nat /\ low = x[2]
    <3>1. unit = 1 /\ x[2] \div 1 = x[2] /\ x[2] % 1 = 0
      BY <1>1, <1>4, SMT
    <3>2. one = 0
      BY <3>1, SMT
    <3> HIDE DEF one
    <3>3. QED
      BY <1>1, <3>1, <3>2, SMT
  <2> HIDE DEF low
  <2>2. Rounded(x) \in Double /\ Value(Rounded(x)) = x[1] * Base + low
    BY <1>1, <1>2, <2>1, NormalFacts
  <2>3. Value(x) = x[1] * Base + x[2]
    BY DEF Value
  <2>4. Value(Rounded(x)) = Value(x)
    BY <2>1, <2>2, <2>3
  <2>5. Value(x) \in Nat /\ Value(x) < Exact /\ Value(x) < Coarse
    BY <1>1, <1>4, <2>3, Powers, SMT
  <2>6. QED
    BY <2>2, <2>4, <2>5, Powers, SMT
<1>5. CASE x[1] >= 2 ^ 29 /\ x[1] < 2 ^ 30
  <2>1. /\ low \in Nat /\ low - x[2] \in -1 .. 1 /\ low % 2 = 0
        /\ x[2] % 2 = 0 => low = x[2]
    <3>1. unit = 2
      BY <1>1, <1>5, SMT
    <3>2. one \in 0 .. 1
      BY SMT
    <3>3. one = 1 <=> 2 * (x[2] % 2) > 2
                      \/ (2 * (x[2] % 2) = 2 /\ (x[2] \div 2) % 2 = 1)
      BY <3>1, SMT
    <3> HIDE DEF one
    <3>4. x[2] \in Nat
      BY <1>1
    <3>5. QED
      BY <3>1, <3>2, <3>3, <3>4, NearestEven, ZenonT(60)
  <2> HIDE DEF low
  <2>2. Rounded(x) \in Double /\ Value(Rounded(x)) = x[1] * Base + low
    BY <1>1, <1>2, <2>1, NormalFacts, SMT
  <2>3. Value(x) = x[1] * Base + x[2]
    BY SMT DEF Value
  <2>4. \A h, n \in Nat : (h * Base + n) % 2 = n % 2
    BY Powers, SMT
  <2>5. /\ Value(Rounded(x)) % 2 = 0
        /\ Value(Rounded(x)) - Value(x) \in -1 .. 1
        /\ Value(x) % 2 = 0 => Value(Rounded(x)) = Value(x)
    BY <1>1, <2>1, <2>2, <2>3, <2>4, Powers, SMT
  <2>6. QED
    BY <1>1, <1>3, <1>5, <2>2, <2>5, SMT
<1>6. CASE x[1] >= 2 ^ 30
  <2>1. low \in Nat /\ low - x[2] \in -2 .. 2 /\ low % 4 = 0
    <3>1. unit = 4
      BY <1>1, <1>6, SMT
    <3>2. one \in 0 .. 1
      BY SMT
    <3>3. one = 1 <=> 2 * (x[2] % 4) > 4
                      \/ (2 * (x[2] % 4) = 4 /\ (x[2] \div 4) % 2 = 1)
      BY <3>1, SMT
    <3> HIDE DEF one
    <3>4. x[2] \in Nat
      BY <1>1
    <3>5. QED
      BY <3>1, <3>2, <3>3, <3>4, NearestFourfold, ZenonT(60)
  <2> HIDE DEF low
  <2>2. Rounded(x) \in Double /\ Value(Rounded(x)) = x[1] * Base + low
    BY <1>1, <1>2, <2>1, NormalFacts, SMT
  <2>3. Value(x) = x[1] * Base + x[2]
    BY SMT DEF Value
  <2>4. \A h, n \in Nat : (h * Base + n) % 4 = n % 4
    BY Powers, SMT
  <2>5. Value(Rounded(x)) % 4 = 0 /\ Value(Rounded(x)) - Value(x) \in -2 .. 2
    BY <1>1, <2>1, <2>2, <2>3, <2>4, Powers, SMT
  <2>6. QED
    BY <1>1, <1>3, <1>6, <2>2, <2>5, SMT
<1>7. QED
  BY <1>1, <1>4, <1>5, <1>6, SMT

\* 7 * h and 7 * h + c before they are rounded.
LEMMA Append7Facts ==
  ASSUME NEW h \in Double, NEW c \in Nat
  PROVE  \E product \in Double, sum \in Double, rounded \in Double :
           /\ Value(product) = 7 * Value(h)
           /\ rounded = Rounded(product)
           /\ Value(sum) = Value(rounded) + c
           /\ Append7(h, c) = Rounded(sum)
<1> DEFINE product == Normal(7 * h[1], 7 * h[2])
           rounded == Rounded(product)
           sum == Normal(rounded[1], rounded[2] + c)
<1>1. h[1] \in Nat /\ h[2] \in Nat
  BY Powers, SMT DEF Double
<1>2. product \in Double /\ Value(product) = 7 * h[1] * Base + 7 * h[2]
  <2>1. 7 * h[1] \in Nat /\ 7 * h[2] \in Nat
    BY <1>1, SMT
  <2>2. QED
    BY <1>1, <2>1, NormalFacts, SMT
<1>3. Value(product) = 7 * Value(h)
  BY <1>1, <1>2, Powers, SMT DEF Value
<1>4. rounded \in Double
  BY <1>2, RoundedFacts, SMT
<1>5. rounded[1] \in Nat /\ rounded[2] \in Nat
  BY <1>4, Powers, SMT DEF Double
<1>6. sum \in Double /\ Value(sum) = rounded[1] * Base + (rounded[2] + c)
  <2>1. rounded[2] + c \in Nat
    BY <1>5, SMT
  <2>2. QED
    BY <1>5, <2>1, NormalFacts, SMT
<1>7. Value(sum) = Value(rounded) + c
  BY <1>5, <1>6, Powers, SMT DEF Value
<1>8. Append7(h, c) = Rounded(sum)
  BY SMT DEF Append7
<1> HIDE DEF product, rounded, sum
<1>9. rounded = Rounded(product)
  BY SMT DEF rounded
<1>10. QED
  BY <1>2, <1>3, <1>4, <1>6, <1>7, <1>8, <1>9, SMT

LEMMA Append7Exact ==
  ASSUME NEW h \in Double, NEW c \in Nat, 7 * Value(h) + c < Exact
  PROVE  Append7(h, c) \in Double /\ Value(Append7(h, c)) = 7 * Value(h) + c
<1>1. PICK product \in Double, sum \in Double, rounded \in Double :
           /\ Value(product) = 7 * Value(h)
           /\ rounded = Rounded(product)
           /\ Value(sum) = Value(rounded) + c
           /\ Append7(h, c) = Rounded(sum)
  BY Append7Facts
<1>2. Value(h) \in Nat /\ Value(product) \in Nat
  BY Powers, SMT DEF Double, Value
<1>3. Value(rounded) = Value(product)
  <2>1. Value(product) < Exact
    BY <1>1, <1>2, Powers, SMT
  <2>2. QED
    BY <1>1, <2>1, RoundedFacts
<1>4. QED
  BY <1>1, <1>2, <1>3, RoundedFacts, SMT

\* The last character of two lines, a line feed.
LEMMA LastCharacter ==
  ASSUME NEW g \in Double, NEW h \in Double
  PROVE  LET a == Append7(g, 10)
             b == Append7(h, 10)
         IN  /\ a \in Double
             /\ Value(g) = Value(h) => a = b
             /\ /\ 7 * Value(g) + 11 < Coarse /\ 7 * Value(h) + 11 < Coarse
                /\ 7 * Value(g) >= Exact /\ 7 * Value(h) >= Exact
                /\ Value(g) # Value(h)
                => a # b
             /\ /\ 7 * Value(g) >= Coarse /\ 7 * Value(h) >= Coarse
                /\ Value(g) - Value(h) \notin -1 .. 1
                => a # b
<1>1. PICK pg \in Double, sg \in Double, rg \in Double :
           /\ Value(pg) = 7 * Value(g)
           /\ rg = Rounded(pg)
           /\ Value(sg) = Value(rg) + 10
           /\ Append7(g, 10) = Rounded(sg)
  BY Append7Facts
<1>2. PICK ph \in Double, sh \in Double, rh \in Double :
           /\ Value(ph) = 7 * Value(h)
           /\ rh = Rounded(ph)
           /\ Value(sh) = Value(rh) + 10
           /\ Append7(h, 10) = Rounded(sh)
  BY Append7Facts
<1>3. \A x \in Double : Value(x) \in Nat
  BY Powers, SMT DEF Double, Value
<1>4. Append7(g, 10) \in Double
  BY <1>1, RoundedFacts, SMT
<1>5. Value(g) = Value(h) => Append7(g, 10) = Append7(h, 10)
  BY <1>3, ValueUnique, SMT
<1> DEFINE G == Value(g)  H == Value(h)  PG == Value(pg)  PH == Value(ph)
           RG == Value(rg)  RH == Value(rh)  SG == Value(sg)  SH == Value(sh)
           AG == Value(Rounded(sg))  AH == Value(Rounded(sh))
<1>6. /\ G \in Nat /\ H \in Nat /\ PG \in Nat /\ PH \in Nat /\ RG \in Nat
      /\ RH \in Nat /\ SG \in Nat /\ SH \in Nat /\ AG \in Nat /\ AH \in Nat
  BY <1>3, RoundedFacts, SMT
<1>7. PG = 7 * G /\ PH = 7 * H /\ SG = RG + 10 /\ SH = RH + 10
  BY <1>1, <1>2, SMT
<1>8. ASSUME 7 * G + 11 < Coarse, 7 * H + 11 < Coarse,
             7 * G >= Exact, 7 * H >= Exact, G # H
      PROVE  Append7(g, 10) # Append7(h, 10)
  <2>1. /\ PG < Coarse /\ PG >= Exact
        /\ PH < Coarse /\ PH >= Exact
    BY <1>6, <1>7, <1>8, Powers, SMT
  <2>2. RG - PG \in -1 .. 1 /\ RG % 2 = 0 /\ RH - PH \in -1 .. 1 /\ RH % 2 = 0
    BY <1>1, <1>2, <2>1, RoundedFacts, SMT
  <2>3. /\ SG < Coarse /\ SG % 2 = 0
        /\ SH < Coarse /\ SH % 2 = 0 /\ SG # SH
    BY <1>6, <1>7, <1>8, <2>2, Powers, SMT
  <2>4. AG = SG /\ AH = SH
    BY <2>3, RoundedFacts, SMT
  <2>5. QED
    BY <1>1, <1>2, <2>3, <2>4, SMT
<1>9. ASSUME 7 * G >= Coarse, 7 * H >= Coarse, G - H \notin -1 .. 1
      PROVE  Append7(g, 10) # Append7(h, 10)
  <2>1. PG >= Coarse /\ PH >= Coarse
    BY <1>6, <1>7, <1>9, SMT
  <2>2. RG - PG \in -2 .. 2 /\ RG % 4 = 0 /\ RH - PH \in -2 .. 2 /\ RH % 4 = 0
    BY <1>1, <1>2, <2>1, RoundedFacts, SMT
  <2>3. SG >= Coarse /\ SH >= Coarse
    BY <1>6, <1>7, <1>9, <2>2, Powers, SMT
  <2>4. AG - SG \in -2 .. 2 /\ AH - SH \in -2 .. 2
    BY <2>3, RoundedFacts, SMT
  <2> HIDE DEF G, H, PG, PH, RG, RH, SG, SH, AG, AH
  <2>5. G - H >= 2 \/ H - G >= 2
    BY <1>6, <1>9, SMT
  <2>6. RG - RH >= 12 \/ RH - RG >= 12
    <3>1. PG - PH >= 14 \/ PH - PG >= 14
      BY <1>6, <1>7, <2>5, SMT
    <3>2. RG - RH >= 10 \/ RH - RG >= 10
      BY <1>6, <2>2, <3>1, SMT
    <3>3. QED
      BY <1>6, <2>2, <3>2, SMT
  <2>7. AG # AH
    BY <1>6, <1>7, <2>4, <2>6, SMT
  <2>8. QED
    BY <1>1, <1>2, <2>7, SMT DEF AG, AH
<1>10. QED
  BY <1>4, <1>5, <1>8, <1>9, SMT

LEMMA Append7Double ==
  ASSUME NEW h \in Double, NEW c \in Nat
  PROVE  Append7(h, c) \in Double
  BY Append7Facts, RoundedFacts

\* stringToHashCode, a character at a time.
LEMMA HashSteps ==
  ASSUME NEW s \in Seq(Nat)
  PROVE  \E f \in [0 .. Len(s) -> Double] :
           /\ f[0] = <<0, 0>>
           /\ \A k \in 1 .. Len(s) : f[k] = Append7(f[k - 1], s[k])
           /\ stringToHashCode(s) = f[Len(s)]
<1> DEFINE n == Len(s)
           IsHash(f) == f = [k \in 0 .. n |->
                               IF k = 0 THEN <<0, 0>> ELSE Append7(f[k - 1], s[k])]
           step == [x \in Double \X (1 .. n) |-> Append7(x[1], s[x[2]])]
           hash == CHOOSE f : IsHash(f)
<1>1. n \in Nat /\ \A k \in 1 .. n : s[k] \in Nat
  OBVIOUS
<1>2. <<0, 0>> \in Double
  BY Powers, SMT DEF Double
<1>3. step \in [Double \X (1 .. n) -> Double]
  <2>1. ASSUME NEW x \in Double \X (1 .. n) PROVE Append7(x[1], s[x[2]]) \in Double
    BY <1>1, Append7Double
  <2>2. QED
    BY <2>1
<1>4. PICK f \in [0 .. n -> Double] :
        f[0] = <<0, 0>> /\ \A k \in 1 .. n : f[k] = step[<<f[k - 1], k>>]
  <2> HIDE DEF step, n, IsHash, hash
  <2>1. n \in Nat
    BY <1>1
  <2>2. HasRecursiveFunction(Double, <<0, 0>>, n, step)
    BY <1>2, <1>3, <2>1, RecursiveFunction
  <2>3. QED
    BY <2>2 DEF HasRecursiveFunction
<1>5. ASSUME NEW k \in 1 .. n PROVE f[k] = Append7(f[k - 1], s[k])
  <2>1. <<f[k - 1], k>> \in Double \X (1 .. n)
    BY <1>1, <1>4
  <2>2. QED
    BY <1>4, <2>1
<1>6. IsHash(f)
  <2> DEFINE row(k) == IF k = 0 THEN <<0, 0>> ELSE Append7(f[k - 1], s[k])
  <2>1. \A k \in 0 .. n : f[k] = row(k)
    BY <1>1, <1>4, <1>5
  <2> HIDE DEF row
  <2>2. f = [k \in 0 .. n |-> row(k)]
    BY <2>1
  <2>3. QED
    BY <2>2 DEF row
<1>7. IsHash(hash)
  <2> HIDE DEF IsHash
  <2>1. QED
    BY <1>6
<1>8. stringToHashCode(s) = hash[n]
  BY DEF stringToHashCode
<1> HIDE DEF hash, step
<1>9. hash[0] = <<0, 0>> /\ \A k \in 1 .. n : hash[k] = Append7(hash[k - 1], s[k])
  <2>1. hash = [k \in 0 .. n |-> IF k = 0 THEN <<0, 0>> ELSE Append7(hash[k - 1], s[k])]
    BY <1>7
  <2>2. 0 \in 0 .. n /\ \A k \in 1 .. n : k \in 0 .. n /\ k # 0
    BY <1>1
  <2> HIDE DEF n
  <2>3. QED
    BY <2>1, <2>2
<1>10. \A k \in 0 .. n : hash[k] = f[k]
  <2> DEFINE P == {k \in Nat : k <= n => hash[k] = f[k]}
  <2>1. 0 \in P
    BY <1>4, <1>9
  <2>2. ASSUME NEW k \in Nat, k \in P PROVE k + 1 \in P
    <3> SUFFICES ASSUME k + 1 <= n PROVE hash[k + 1] = f[k + 1]
      OBVIOUS
    <3>1. hash[k] = f[k] /\ k + 1 \in 1 .. n /\ (k + 1) - 1 = k
      BY <1>1, <2>2
    <3>2. hash[k + 1] = Append7(hash[k], s[k + 1])
      BY <1>9, <3>1
    <3>3. f[k + 1] = Append7(f[k], s[k + 1])
      BY <1>5, <3>1
    <3>4. QED
      BY <3>1, <3>2, <3>3
  <2>3. Nat \subseteq P
    <3> HIDE DEF P
    <3>1. QED
      BY <2>1, <2>2, SetInduction
  <2>4. QED
    BY <1>1, <2>3
<1>11. f[0] = <<0, 0>> /\ stringToHashCode(s) = f[n]
  BY <1>1, <1>4, <1>8, <1>10
<1>12. \A k \in 1 .. n : f[k] = Append7(f[k - 1], s[k])
  BY <1>5
<1>13. WITNESS f \in [0 .. n -> Double]
<1>14. QED
  BY <1>11, <1>12

LEMMA OneMore ==
  ASSUME NEW h \in Double, NEW c \in Nat, c <= 102,
         NEW low \in Nat, NEW high \in Nat,
         low <= Value(h), Value(h) + 17 <= high, 7 * high <= Exact
  PROVE  /\ Append7(h, c) \in Double
         /\ Value(Append7(h, c)) = 7 * Value(h) + c
         /\ 7 * low <= Value(Append7(h, c))
         /\ Value(Append7(h, c)) + 17 <= 7 * high
<1>1. Value(h) \in Nat /\ Exact \in Nat
  BY ValueNat, Powers
<1>2. 7 * Value(h) + c < Exact
  BY <1>1, SMT
<1>3. Append7(h, c) \in Double /\ Value(Append7(h, c)) = 7 * Value(h) + c
  BY <1>2, Append7Exact
<1>4. QED
  BY <1>1, <1>3, SMT

\* The powers of 7, up to the sixteenth.
Sevens == <<1, 7, 49, 343, 2401, 16807, 117649, 823543, 5764801,
            40353607, 282475249, 1977326743, 13841287201, 96889010407, 678223072849,
            4747561509943, 33232930569601>>

LEMMA SevensFacts ==
  /\ \A k \in 1 .. 16 : Sevens[k] \in Nat /\ Sevens[k + 1] = 7 * Sevens[k]
  /\ \A k \in 1 .. 16 : Sevens[k] <= 4747561509943
  /\ Sevens[1] = 1 /\ Sevens[17] = 33232930569601
<1>1. \A k \in 1 .. 16 : \/ k = 1 \/ k = 2 \/ k = 3 \/ k = 4 \/ k = 5 \/ k = 6
                         \/ k = 7 \/ k = 8 \/ k = 9 \/ k = 10 \/ k = 11
                         \/ k = 12 \/ k = 13 \/ k = 14 \/ k = 15 \/ k = 16
  BY SMT
<1>2. QED
  BY <1>1, SMT DEF Sevens

LEMMA SevenToSixteen == Sevens[17] = 33232930569601
  BY SevensFacts

\* Seventeen characters of an address are hashed exactly, between two multiples
\* of the sixteenth power of 7.
LEMMA Seventeen ==
  ASSUME NEW f \in [0 .. 18 -> Double], NEW s,
         \A k \in 1 .. 17 : s[k] \in Nat /\ s[k] <= 102,
         \A k \in 1 .. 17 : f[k] = Append7(f[k - 1], s[k]),
         f[0] = <<0, 0>>,
         NEW low \in Nat, NEW high \in Nat,
         low <= s[1], s[1] + 17 <= high, high <= 119
  PROVE  /\ Value(f[16]) = 7 * Value(f[15]) + s[16]
         /\ Value(f[17]) = 7 * Value(f[16]) + s[17]
         /\ Sevens[17] * low <= Value(f[17])
         /\ Value(f[17]) + 17 <= Sevens[17] * high
<1> DEFINE Bounded(k) == /\ Sevens[k] * low <= Value(f[k])
                         /\ Value(f[k]) + 17 <= Sevens[k] * high
           Next7(k) == Value(f[k + 1]) = 7 * Value(f[k]) + s[k + 1]
           P == {n \in Nat : n <= 16 => Bounded(n + 1)}
<1>1. \A k \in 0 .. 18 : f[k] \in Double
  OBVIOUS
<1>2. \A x \in Double : Value(x) \in Nat
  BY ValueNat
<1>3. Bounded(1)
  <2>1. f[0] \in Double /\ Value(f[0]) = 0 /\ f[1] = Append7(f[0], s[1])
    BY <1>1, Powers, SMT DEF Value
  <2>2. 7 * Value(f[0]) + s[1] < Exact /\ s[1] \in Nat
    BY <2>1, Powers, SMT
  <2>3. Value(f[1]) = 7 * Value(f[0]) + s[1]
    BY <2>1, <2>2, Append7Exact
  <2>4. QED
    BY <2>1, <2>2, <2>3, SevensFacts, SMT
<1>4. ASSUME NEW k \in 1 .. 16, Bounded(k) PROVE Bounded(k + 1) /\ Next7(k)
  <2>1. f[k] \in Double /\ f[k + 1] = Append7(f[k], s[k + 1])
    <3>1. k \in 0 .. 18 /\ k + 1 \in 1 .. 17 /\ (k + 1) - 1 = k
      OBVIOUS
    <3>2. QED
      BY <1>1, <3>1
  <2>2. s[k + 1] \in Nat /\ s[k + 1] <= 102
    OBVIOUS
  <2>3. /\ Sevens[k] * low \in Nat /\ Sevens[k] * high \in Nat
        /\ 7 * (Sevens[k] * low) = Sevens[k + 1] * low
        /\ 7 * (Sevens[k] * high) = Sevens[k + 1] * high
    BY SevensFacts, SMT
  <2>4. 7 * (Sevens[k] * high) <= Exact
    <3>1. Sevens[k] * high <= Sevens[k] * 119
      BY SevensFacts, SMT
    <3>2. QED
      BY <2>3, <3>1, SevensFacts, Powers, SMT
  <2>5. /\ Value(Append7(f[k], s[k + 1])) = 7 * Value(f[k]) + s[k + 1]
        /\ 7 * (Sevens[k] * low) <= Value(Append7(f[k], s[k + 1]))
        /\ Value(Append7(f[k], s[k + 1])) + 17 <= 7 * (Sevens[k] * high)
    BY <1>4, <2>1, <2>2, <2>3, <2>4, OneMore
  <2>6. QED
    BY <2>1, <2>3, <2>5
<1>5. Nat \subseteq P
  <2>1. 0 \in P
    BY <1>3
  <2>2. ASSUME NEW n \in Nat, n \in P PROVE n + 1 \in P
    <3> SUFFICES ASSUME n + 1 <= 16 PROVE Bounded((n + 1) + 1)
      OBVIOUS
    <3>1. n + 1 \in 1 .. 16 /\ Bounded(n + 1)
      BY <2>2
    <3> HIDE DEF Bounded
    <3>2. QED
      BY <1>4, <3>1
  <2> HIDE DEF P
  <2>3. QED
    BY <2>1, <2>2, SetInduction
<1>6. Bounded(15) /\ Bounded(16) /\ Bounded(17)
  <2>1. 14 \in P /\ 15 \in P /\ 16 \in P
    BY <1>5
  <2> HIDE DEF Bounded
  <2>2. 14 + 1 = 15 /\ 15 + 1 = 16 /\ 16 + 1 = 17 /\ 14 <= 16 /\ 15 <= 16 /\ 16 <= 16
    OBVIOUS
  <2>3. QED
    BY <2>1, <2>2
<1>7. Next7(15) /\ Next7(16)
  <2> HIDE DEF Bounded, Next7
  <2>1. 15 \in 1 .. 16 /\ 16 \in 1 .. 16
    OBVIOUS
  <2>2. QED
    BY <1>4, <1>6, <2>1
<1>8. QED
  <2>1. 15 + 1 = 16 /\ 16 + 1 = 17
    OBVIOUS
  <2>2. QED
    BY <1>6, <1>7, <2>1, SevensFacts

-----------------------------------------------------------------------------
\* Both lines are of the same vendor, and each id is the hash of its line.
OneVendor ==
  \E p \in Prefix : line \in [Machine -> Lines(p)]
IdsAreHashes ==
  /\ DOMAIN macId = Machine
  /\ \A m \in Machine : macId[m] = NoMacId \/ macId[m] = stringToHashCode(line[m])
MacInv == OneVendor /\ IdsAreHashes

LEMMA MacInvInit == MacInit => MacInv
<1> SUFFICES ASSUME MacInit PROVE MacInv
  OBVIOUS
<1>1. OneVendor
  BY DEF MacInit, OneVendor
<1>2. IdsAreHashes
  <2>1. macId = [m \in Machine |-> NoMacId]
    BY DEF MacInit
  <2>2. QED
    BY <2>1 DEF IdsAreHashes
<1>3. QED
  BY <1>1, <1>2 DEF MacInv

LEMMA MacInvNext == MacInv /\ [MacNext]_macVars => MacInv'
<1> SUFFICES ASSUME MacInv, [MacNext]_macVars PROVE MacInv'
  OBVIOUS
<1>1. CASE UNCHANGED macVars
  <2>1. line' = line /\ macId' = macId
    BY <1>1 DEF macVars
  <2>2. OneVendor'
    BY <2>1 DEF MacInv, OneVendor
  <2>3. IdsAreHashes'
    BY <2>1 DEF MacInv, IdsAreHashes
  <2>4. QED
    BY <2>2, <2>3 DEF MacInv
<1>2. ASSUME NEW m \in Machine, ComputeId(m) PROVE MacInv'
  <2>1. line' = line /\ macId' = [macId EXCEPT ![m] = stringToHashCode(line[m])]
    BY <1>2 DEF ComputeId
  <2>2. OneVendor'
    BY <2>1 DEF MacInv, OneVendor
  <2>3. IdsAreHashes'
    <3>1. DOMAIN macId' = Machine
      BY <2>1 DEF MacInv, IdsAreHashes
    <3>2. ASSUME NEW k \in Machine
          PROVE  macId'[k] = NoMacId \/ macId'[k] = stringToHashCode(line'[k])
      BY <2>1 DEF MacInv, IdsAreHashes
    <3>3. QED
      BY <3>1, <3>2 DEF IdsAreHashes
  <2>4. QED
    BY <2>2, <2>3 DEF MacInv
<1>3. QED
  BY <1>1, <1>2 DEF MacNext

\* A line, character by character.
IsLine(s, p, a, b) ==
  /\ s \in Seq(Nat) /\ Len(s) = 18
  /\ \A k \in 1 .. 15 : s[k] = p[k]
  /\ s[16] = a /\ s[17] = b /\ s[18] = 10
  /\ \A k \in 1 .. 17 : s[k] \in Nat /\ s[k] <= 102
  /\ s[1] \in Nat /\ ((s[1] >= 48 /\ s[1] <= 57) \/ (s[1] >= 97 /\ s[1] <= 102))

LEMMA LineFacts ==
  ASSUME NEW p \in Prefix, NEW a \in Digit, NEW b \in Digit,
         NEW s, s = p \o <<a, b, Newline>>
  PROVE  IsLine(s, p, a, b)
<1> DEFINE e == <<a, b, Newline>>
<1>1. /\ \A k \in 1 .. 15 : p[k] \in Nat /\ p[k] <= 102
      /\ p[1] \in Nat /\ ((p[1] >= 48 /\ p[1] <= 57) \/ (p[1] >= 97 /\ p[1] <= 102))
      /\ a \in Nat /\ a <= 102 /\ b \in Nat /\ b <= 102
  <2>1. /\ \A c \in Character : c \in Nat /\ c <= 102
        /\ \A c \in HexDigit :
             c \in Nat /\ ((c >= 48 /\ c <= 57) \/ (c >= 97 /\ c <= 102))
    BY DEF Character, HexDigit
  <2>2. p \in [1 .. 15 -> Character] /\ p[1] \in HexDigit
    BY MacAssumption
  <2>3. a \in HexDigit /\ b \in HexDigit
    BY MacAssumption
  <2>4. a <= 102 /\ b <= 102
    BY <2>1, <2>3
  <2>5. QED
    BY <2>1, <2>2, <2>3, <2>4
<1>2. p \in Seq(Nat) /\ Len(p) = 15
  <2>1. p \in [1 .. 15 -> Nat]
    BY MacAssumption, <1>1
  <2>2. p \in Seq(Nat)
    <3>1. 15 \in Nat
      OBVIOUS
    <3>2. \E n \in Nat : p \in [1 .. n -> Nat]
      BY <2>1, <3>1
    <3>3. QED
      BY <3>2, SeqDef
  <2>3. QED
    BY <2>1, <2>2, LenProperties
<1>3. e \in Seq(Nat) /\ Len(e) = 3 /\ e[1] = a /\ e[2] = b /\ e[3] = 10
  BY <1>1 DEF Newline
<1> HIDE DEF e
<1>4. /\ s \in Seq(Nat) /\ Len(s) = Len(p) + Len(e)
      /\ \A k \in 1 .. Len(p) + Len(e) :
           s[k] = IF k <= Len(p) THEN p[k] ELSE e[k - Len(p)]
  <2>1. s = p \o e
    BY DEF e
  <2>2. /\ p \o e \in Seq(Nat) /\ Len(p \o e) = Len(p) + Len(e)
        /\ \A k \in 1 .. Len(p) + Len(e) :
             (p \o e)[k] = IF k <= Len(p) THEN p[k] ELSE e[k - Len(p)]
    BY <1>2, <1>3, ConcatProperties
  <2>3. QED
    BY <2>1, <2>2
<1>5. /\ \A k \in 1 .. 15 : s[k] = p[k]
      /\ s[16] = e[1] /\ s[17] = e[2] /\ s[18] = e[3]
  <2>1. \A k \in 1 .. 18 : s[k] = IF k <= 15 THEN p[k] ELSE e[k - 15]
    <3>1. Len(p) = 15 /\ Len(p) + Len(e) = 18
      BY <1>2, <1>3
    <3>2. QED
      BY <1>4, <3>1
  <2>2. /\ 16 \in 1 .. 18 /\ 17 \in 1 .. 18 /\ 18 \in 1 .. 18
        /\ \A k \in 1 .. 15 : k \in 1 .. 18 /\ k <= 15
    OBVIOUS
  <2>3. s[16] = e[1] /\ s[17] = e[2] /\ s[18] = e[3]
    <3>1. /\ ~(16 <= 15) /\ ~(17 <= 15) /\ ~(18 <= 15)
          /\ 16 - 15 = 1 /\ 17 - 15 = 2 /\ 18 - 15 = 3
      OBVIOUS
    <3>2. s[16] = e[16 - 15] /\ s[17] = e[17 - 15] /\ s[18] = e[18 - 15]
      BY <2>1, <2>2, <3>1, Zenon
    <3>3. QED
      BY <3>1, <3>2
  <2>4. QED
    BY <2>1, <2>2, <2>3
<1>6. \A k \in 1 .. 17 : s[k] \in Nat /\ s[k] <= 102
  <2>1. \A k \in 1 .. 17 : k \in 1 .. 15 \/ k = 16 \/ k = 17
    OBVIOUS
  <2>2. QED
    BY <1>1, <1>3, <1>5, <2>1
<1>7. 1 \in 1 .. 15 /\ 15 + 3 = 18
  OBVIOUS
<1>8. Len(s) = 18
  BY <1>2, <1>3, <1>4, <1>7
<1>9. s[1] = p[1]
  BY <1>5, <1>7
<1>10. QED
  BY <1>1, <1>3, <1>4, <1>5, <1>6, <1>8, <1>9 DEF IsLine

\* The arithmetic of the last characters, by itself.
LEMMA LastArithmetic ==
  /\ \A v \in Nat : Sevens[17] * 97 <= v => 7 * v >= Coarse
  /\ \A v \in Nat : Sevens[17] * 48 <= v => 7 * v >= Exact
  /\ \A v \in Nat : v + 17 <= Sevens[17] * 74 => 7 * v + 11 < Coarse
  BY SevenToSixteen, Powers, SMT

\* Two lines of one vendor, and what they are hashed to.
Hashed(s, t, g, h, distance) ==
  /\ stringToHashCode(s) = Append7(g, 10)
  /\ stringToHashCode(t) = Append7(h, 10)
  /\ Value(g) - Value(h) = distance
  /\ s[1] >= 97 => 7 * Value(g) >= Coarse /\ 7 * Value(h) >= Coarse
  /\ s[1] < 97 => /\ 7 * Value(g) >= Exact /\ 7 * Value(h) >= Exact
                  /\ 7 * Value(g) + 11 < Coarse
                  /\ 7 * Value(h) + 11 < Coarse

LEMMA TwoLines ==
  ASSUME NEW p \in Prefix, NEW a \in Digit, NEW b \in Digit,
         NEW c \in Digit, NEW d \in Digit,
         NEW s, IsLine(s, p, a, b), NEW t, IsLine(t, p, c, d)
  PROVE  \E g \in Double, h \in Double : Hashed(s, t, g, h, 7 * (a - c) + b - d)
<1>1. /\ s \in Seq(Nat) /\ Len(s) = 18
      /\ \A k \in 1 .. 15 : s[k] = p[k]
      /\ s[16] = a /\ s[17] = b /\ s[18] = 10
      /\ \A k \in 1 .. 17 : s[k] \in Nat /\ s[k] <= 102
  BY DEF IsLine
<1>first. s[1] \in Nat /\ ((s[1] >= 48 /\ s[1] <= 57) \/ (s[1] >= 97 /\ s[1] <= 102))
  BY DEF IsLine
<1>2. /\ t \in Seq(Nat) /\ Len(t) = 18
      /\ \A k \in 1 .. 15 : t[k] = p[k]
      /\ t[16] = c /\ t[17] = d /\ t[18] = 10
      /\ \A k \in 1 .. 17 : t[k] \in Nat /\ t[k] <= 102
  BY DEF IsLine
<1>3. PICK f :
        /\ f \in [0 .. 18 -> Double]
        /\ f[0] = <<0, 0>>
        /\ \A k \in 1 .. 18 : f[k] = Append7(f[k - 1], s[k])
        /\ stringToHashCode(s) = f[18]
  <2>1. \E x \in [0 .. Len(s) -> Double] :
           /\ x[0] = <<0, 0>>
           /\ \A k \in 1 .. Len(s) : x[k] = Append7(x[k - 1], s[k])
           /\ stringToHashCode(s) = x[Len(s)]
    BY <1>1, HashSteps
  <2>2. QED
    BY <1>1, <2>1
<1>4. PICK e :
        /\ e \in [0 .. 18 -> Double]
        /\ e[0] = <<0, 0>>
        /\ \A k \in 1 .. 18 : e[k] = Append7(e[k - 1], t[k])
        /\ stringToHashCode(t) = e[18]
  <2>1. \E x \in [0 .. Len(t) -> Double] :
           /\ x[0] = <<0, 0>>
           /\ \A k \in 1 .. Len(t) : x[k] = Append7(x[k - 1], t[k])
           /\ stringToHashCode(t) = x[Len(t)]
    BY <1>2, HashSteps
  <2>2. QED
    BY <1>2, <2>1
<1>5. f[15] = e[15]
  <2> DEFINE P == {k \in Nat : k <= 15 => f[k] = e[k]}
  <2>1. 0 \in P
    BY <1>3, <1>4
  <2>2. ASSUME NEW k \in Nat, k \in P PROVE k + 1 \in P
    <3> SUFFICES ASSUME k + 1 <= 15 PROVE f[k + 1] = e[k + 1]
      OBVIOUS
    <3>1. /\ f[k] = e[k] /\ (k + 1) - 1 = k
          /\ k + 1 \in 1 .. 15 /\ k + 1 \in 1 .. 18
      BY <2>2
    <3>2. f[k + 1] = Append7(f[k], s[k + 1]) /\ e[k + 1] = Append7(e[k], t[k + 1])
      BY <1>3, <1>4, <3>1
    <3>3. s[k + 1] = t[k + 1]
      BY <1>1, <1>2, <3>1
    <3>4. QED
      BY <3>1, <3>2, <3>3
  <2>3. Nat \subseteq P
    <3> HIDE DEF P
    <3>1. QED
      BY <2>1, <2>2, SetInduction
  <2>4. QED
    BY <2>3
<1>6. \A k \in 1 .. 17 : k \in 1 .. 18
  OBVIOUS
<1>7. /\ f[17] \in Double /\ e[17] \in Double
      /\ f[18] = Append7(f[17], 10) /\ e[18] = Append7(e[17], 10)
  <2>1. 17 \in 0 .. 18 /\ 18 \in 1 .. 18 /\ 18 - 1 = 17
    OBVIOUS
  <2>2. QED
    BY <1>1, <1>2, <1>3, <1>4, <2>1
<1>8. s[1] = t[1]
  <2>1. 1 \in 1 .. 15
    OBVIOUS
  <2>2. s[1] = p[1]
    BY <2>1 DEF IsLine
  <2>3. t[1] = p[1]
    BY <2>1 DEF IsLine
  <2>4. QED
    BY <2>2, <2>3
<1>9. ASSUME NEW low \in Nat, NEW high \in Nat,
             low <= s[1], s[1] + 17 <= high, high <= 119
      PROVE  /\ Value(f[16]) = 7 * Value(f[15]) + a
             /\ Value(f[17]) = 7 * Value(f[16]) + b
             /\ Value(e[16]) = 7 * Value(f[15]) + c
             /\ Value(e[17]) = 7 * Value(e[16]) + d
             /\ Sevens[17] * low <= Value(f[17])
             /\ Sevens[17] * low <= Value(e[17])
             /\ Value(f[17]) + 17 <= Sevens[17] * high
             /\ Value(e[17]) + 17 <= Sevens[17] * high
  <2>1. /\ \A k \in 1 .. 17 : f[k] = Append7(f[k - 1], s[k])
        /\ \A k \in 1 .. 17 : e[k] = Append7(e[k - 1], t[k])
    BY <1>3, <1>4, <1>6
  <2>2. /\ Value(f[16]) = 7 * Value(f[15]) + s[16]
        /\ Value(f[17]) = 7 * Value(f[16]) + s[17]
        /\ Sevens[17] * low <= Value(f[17])
        /\ Value(f[17]) + 17 <= Sevens[17] * high
    BY <1>1, <1>3, <1>9, <2>1, Seventeen
  <2>3. /\ Value(e[16]) = 7 * Value(e[15]) + t[16]
        /\ Value(e[17]) = 7 * Value(e[16]) + t[17]
        /\ Sevens[17] * low <= Value(e[17])
        /\ Value(e[17]) + 17 <= Sevens[17] * high
    BY <1>2, <1>4, <1>8, <1>9, <2>1, Seventeen
  <2>4. QED
    BY <1>1, <1>2, <1>5, <2>2, <2>3
<1>10. /\ a \in Nat /\ b \in Nat /\ c \in Nat /\ d \in Nat
  <2>1. \A n \in HexDigit : n \in Nat
    BY DEF HexDigit
  <2>2. QED
    BY <2>1, MacAssumption
<1>values. /\ Value(f[15]) \in Nat /\ Value(f[16]) \in Nat /\ Value(f[17]) \in Nat
           /\ Value(e[16]) \in Nat /\ Value(e[17]) \in Nat
  <2>1. \A x \in Double : Value(x) \in Nat
    BY ValueNat
  <2>2. 15 \in 0 .. 18 /\ 16 \in 0 .. 18 /\ 17 \in 0 .. 18
    OBVIOUS
  <2>3. QED
    BY <1>3, <1>4, <2>1, <2>2
<1>11. Value(f[17]) - Value(e[17]) = 7 * (a - c) + b - d
  <2>1. /\ Value(f[16]) = 7 * Value(f[15]) + a
        /\ Value(f[17]) = 7 * Value(f[16]) + b
        /\ Value(e[16]) = 7 * Value(f[15]) + c
        /\ Value(e[17]) = 7 * Value(e[16]) + d
    <3>1. 0 \in Nat /\ 119 \in Nat /\ 0 <= s[1] /\ s[1] + 17 <= 119 /\ 119 <= 119
      BY <1>first
    <3>2. QED
      BY <1>9, <3>1
  <2>2. Value(f[16]) - Value(e[16]) = a - c
    BY <1>10, <1>values, <2>1
  <2>3. Value(f[17]) - Value(e[17]) = 7 * (Value(f[16]) - Value(e[16])) + b - d
    BY <1>10, <1>values, <2>1
  <2>4. QED
    BY <2>2, <2>3
<1>12. ASSUME s[1] >= 97
       PROVE  7 * Value(f[17]) >= Coarse /\ 7 * Value(e[17]) >= Coarse
  <2>1. 97 \in Nat /\ 119 \in Nat /\ 97 <= s[1] /\ s[1] + 17 <= 119 /\ 119 <= 119
    BY <1>first, <1>12
  <2>2. Sevens[17] * 97 <= Value(f[17]) /\ Sevens[17] * 97 <= Value(e[17])
    BY <1>9, <2>1
  <2>3. QED
    BY <1>values, <2>2, LastArithmetic
<1>13. ASSUME s[1] < 97
       PROVE  /\ 7 * Value(f[17]) >= Exact /\ 7 * Value(e[17]) >= Exact
              /\ 7 * Value(f[17]) + 11 < Coarse /\ 7 * Value(e[17]) + 11 < Coarse
  <2>1. 48 \in Nat /\ 74 \in Nat /\ 48 <= s[1] /\ s[1] + 17 <= 74 /\ 74 <= 119
    BY <1>first, <1>13
  <2>2. /\ Sevens[17] * 48 <= Value(f[17]) /\ Sevens[17] * 48 <= Value(e[17])
        /\ Value(f[17]) + 17 <= Sevens[17] * 74
        /\ Value(e[17]) + 17 <= Sevens[17] * 74
    BY <1>9, <2>1
  <2>3. QED
    BY <1>values, <2>2, LastArithmetic
<1>14. QED
  <2>1. Hashed(s, t, f[17], e[17], 7 * (a - c) + b - d)
    BY <1>3, <1>4, <1>7, <1>11, <1>12, <1>13 DEF Hashed
  <2>2. QED
    BY <1>7, <2>1

LEMMA SharedIdsHold == MacInv => SharedIds
<1> SUFFICES ASSUME MacInv, \A m \in Machine : macId[m] # NoMacId
             PROVE  /\ Distance = 0 => macId[1] = macId[2]
                    /\ macId[1] = macId[2] =>
                         Distance = 0 \/ (Distance \in {-1, 1} /\ line[1][1] >= 97)
  BY DEF SharedIds
<1>1. 1 \in Machine /\ 2 \in Machine
  BY DEF Machine
<1>2. PICK p \in Prefix : line \in [Machine -> Lines(p)]
  BY DEF MacInv, OneVendor
<1>3. line[1] \in Lines(p) /\ line[2] \in Lines(p)
  BY <1>1, <1>2
<1>4. PICK a \in Digit, b \in Digit : line[1] = p \o <<a, b, Newline>>
  <2>1. PICK e \in Digit \X Digit : line[1] = p \o <<e[1], e[2], Newline>>
    BY <1>3 DEF Lines
  <2>2. QED
    BY <2>1
<1>5. PICK c \in Digit, d \in Digit : line[2] = p \o <<c, d, Newline>>
  <2>1. PICK e \in Digit \X Digit : line[2] = p \o <<e[1], e[2], Newline>>
    BY <1>3 DEF Lines
  <2>2. QED
    BY <2>1
<1>6. macId[1] = stringToHashCode(line[1]) /\ macId[2] = stringToHashCode(line[2])
  BY <1>1 DEF MacInv, IdsAreHashes
<1>7. Distance = 7 * (a - c) + b - d
  <2>1. IsLine(line[1], p, a, b) /\ IsLine(line[2], p, c, d)
    BY <1>4, <1>5, LineFacts
  <2>2. /\ line[1][16] = a /\ line[1][17] = b
        /\ line[2][16] = c /\ line[2][17] = d
    BY <2>1 DEF IsLine
  <2>3. QED
    BY <2>2 DEF Distance
<1>8. PICK g \in Double, h \in Double :
        Hashed(line[1], line[2], g, h, 7 * (a - c) + b - d)
  <2>1. IsLine(line[1], p, a, b) /\ IsLine(line[2], p, c, d)
    BY <1>4, <1>5, LineFacts
  <2>2. QED
    BY <2>1, TwoLines
<1>9. Value(g) \in Nat /\ Value(h) \in Nat
  BY ValueNat
<1>10. /\ Distance = 0 <=> Value(g) = Value(h)
       /\ Distance \in {-1, 1} \/ Distance = 0 <=> Value(g) - Value(h) \in -1 .. 1
  <2>1. Distance = Value(g) - Value(h)
    BY <1>7, <1>8 DEF Hashed
  <2>2. QED
    BY <1>9, <2>1
<1>11. line[1][1] \in Nat
  <2>1. IsLine(line[1], p, a, b)
    BY <1>4, LineFacts
  <2>2. QED
    BY <2>1 DEF IsLine
<1>12. /\ Value(g) = Value(h) => macId[1] = macId[2]
       /\ line[1][1] < 97 /\ Value(g) # Value(h) => macId[1] # macId[2]
       /\ line[1][1] >= 97 /\ Value(g) - Value(h) \notin -1 .. 1
            => macId[1] # macId[2]
  BY <1>6, <1>8, LastCharacter DEF Hashed
<1>13. QED
  BY <1>10, <1>11, <1>12

\* Two machines of a vendor share an id exactly where their last two digits
\* weigh the same, 7 times the one and the other, or, if the address begins
\* with a letter, at most where they differ by one: for every vendor.
THEOREM SharedMacIds == MacSpec => []SharedIds
<1>1. QED
  BY MacInvInit, MacInvNext, SharedIdsHold, PTL DEF MacSpec
=============================================================================
