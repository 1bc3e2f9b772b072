---------------------------- MODULE SamplingProofs ----------------------------
(***************************************************************************)
(* The random choices are sound for every width of a word, every size of   *)
(* an array, every sequence of random numbers and all answers of a cipher, *)
(* one that ends the process in the middle included.  A draw is            *)
(* uniform because the accepted words are complete intervals (Acceptable,  *)
(* EquallyOften); an array is permuted because swaps are all that happens  *)
(* to it (SwapPermutes) and all indices are inside (LoopInv).              *)
(***************************************************************************)
EXTENDS Sampling, FiniteSetTheorems, FunctionTheorems, TLAPS

-------------------------------------------------------------------------------
(* Numbers. *)

\* The size of a word.
P == 2^Width

LEMMA Bounds ==
    /\ P \in Nat /\ P >= 2 /\ Word = 0..(P - 1)
    /\ MaxSize \in Nat /\ MaxSize < P
    /\ 0 \in Word /\ 1 \in Word
    /\ \A x : x \in Word <=> x \in Nat /\ x < P
<1>1. P \in Nat /\ P >= 2 /\ Word = 0..(P - 1) /\ MaxSize \in Nat /\ MaxSize < P
  <2>1. Width \in 0..Width
    BY SamplingAssumption
  <2> QED
    BY <2>1, SamplingAssumption, PowerAssumption DEF P, Word
<1> QED
  BY <1>1

\* Numbers below the divisor are their own remainder.
LEMMA ModSmall ==
    ASSUME NEW r \in Nat, r > 0, NEW d \in 0..(r - 1)
    PROVE  d % r = d
  OBVIOUS

LEMMA ModSelf ==
    ASSUME NEW r \in Nat, r > 0
    PROVE  r % r = 0
  OBVIOUS

LEMMA ModBounds ==
    ASSUME NEW r \in Nat, r > 0, NEW v \in Nat
    PROVE  v % r \in 0..(r - 1)
  OBVIOUS

\* Monotonicity of the product.
LEMMA TimesMono ==
    ASSUME NEW r \in Nat, NEW j \in Nat, NEW k \in Nat, j < k
    PROVE  r * j + r <= r * k
  OBVIOUS

\* Division with remainder.
LEMMA DivMod ==
    ASSUME NEW r \in Nat, r > 0, NEW v \in Nat
    PROVE  v \div r \in Nat /\ v = r * (v \div r) + (v % r)
  OBVIOUS

LEMMA ModUnique ==
    ASSUME NEW r \in Nat, r > 0, NEW k \in Nat, NEW d \in 0..(r - 1)
    PROVE  (r * k + d) % r = d
  OBVIOUS
\* The end of the last complete interval: a multiple of the range, less one.
LEMMA Acceptable ==
    ASSUME NEW r \in Nat, r > 0, r < P
    PROVE  /\ (P - 1) \div r \in Nat /\ (P - 1) \div r >= 1
           /\ MaxAcceptable(r) = r * ((P - 1) \div r) - 1
           /\ MaxAcceptable(r) \in Word
           /\ r - 1 <= MaxAcceptable(r)
<1> DEFINE K == (P - 1) \div r
<1>1. P \in Nat /\ P >= 2 /\ P - 1 \in Nat
  BY Bounds
<1>2. K \in Nat /\ P - 1 = r * K + ((P - 1) % r) /\ (P - 1) % r \in 0..(r - 1)
  BY <1>1, DivMod, ModBounds
<1>3. K # 0
  <2> SUFFICES ASSUME K = 0 PROVE FALSE
    OBVIOUS
  <2>1. r * K = 0
    OBVIOUS
  <2>2. P - 1 \in 0..(r - 1)
    <3> HIDE DEF K
    <3> QED
      BY <2>1, <1>1, <1>2
  <2> QED
    BY <2>2, <1>1
<1>4. K * r = r * K /\ r * K \in Nat /\ r <= r * K /\ r * K <= P - 1
  <2>1. r * K \in Nat /\ K * r = r * K
    <3> HIDE DEF K
    <3> QED
      BY <1>2
  <2>2. r * 0 + r <= r * K
    <3> HIDE DEF K
    <3> QED
      BY <1>2, <1>3, TimesMono
  <2>3. r * 0 = 0
    OBVIOUS
  <2> HIDE DEF K
  <2> QED
    BY <2>1, <2>2, <2>3, <1>1, <1>2
<1>5. MaxAcceptable(r) = K * r - 1
  BY DEF MaxAcceptable, P
<1> HIDE DEF K
<1>6. /\ K \in Nat /\ K >= 1 /\ MaxAcceptable(r) = r * K - 1
      /\ MaxAcceptable(r) \in 0..(P - 1) /\ r - 1 <= MaxAcceptable(r)
  BY <1>1, <1>2, <1>3, <1>4, <1>5
<1> QED
  BY <1>6, Bounds DEF K

\* The range of a word is zero for the whole word only.
LEMMA SpanOf ==
    ASSUME NEW lo \in Word, NEW hi \in Word, lo <= hi
    PROVE  /\ Span(lo, hi) \in Word
           /\ Span(lo, hi) = 0 => lo = 0 /\ hi = P - 1
           /\ Span(lo, hi) # 0 => Span(lo, hi) = hi - lo + 1 /\ hi - lo + 1 < P
           /\ hi + 1 < P => Span(lo, hi) # 0
<1>1. P \in Nat /\ P >= 2 /\ lo \in 0..(P - 1) /\ hi \in 0..(P - 1)
  BY Bounds
<1>2. Span(lo, hi) = (hi - lo + 1) % P
  BY DEF Span, P
<1>3. CASE hi - lo + 1 < P
  <2>1. hi - lo + 1 \in 0..(P - 1)
    BY <1>1, <1>3
  <2>2. Span(lo, hi) = hi - lo + 1
    BY <2>1, <1>1, <1>2, ModSmall
  <2> QED
    BY <2>1, <2>2, <1>1, Bounds
<1>4. CASE hi - lo + 1 >= P
  <2>1. hi - lo + 1 = P /\ lo = 0 /\ hi = P - 1
    BY <1>1, <1>4
  <2>2. Span(lo, hi) = 0
    BY <2>1, <1>1, <1>2, ModSelf
  <2> QED
    BY <2>1, <2>2, <1>1, Bounds
<1> QED
  BY <1>1, <1>3, <1>4

-------------------------------------------------------------------------------
(* UniformRandom. *)

\* The draws that give a number are those that give the least one, moved up: the
\* accepted words are complete intervals.
LEMMA EquallyOften ==
    ASSUME NEW lo \in Nat, NEW r \in Nat, r > 0, r < P, NEW x \in lo..(lo + r - 1)
    PROVE  LET Hits(y) == {v \in 0..MaxAcceptable(r) : (v % r) + lo = y} IN
           Cardinality(Hits(x)) = Cardinality(Hits(lo)) /\ Hits(x) # {}
<1> DEFINE K == (P - 1) \div r
           M == MaxAcceptable(r)
           Hits(y) == {v \in 0..M : (v % r) + lo = y}
           d == x - lo
           f == [v \in Hits(lo) |-> v + d]
<1>1. K \in Nat /\ M \in Nat /\ M = r * K - 1 /\ r - 1 <= M
  BY Acceptable, Bounds
<1>2. d \in 0..(r - 1) /\ d \in Nat
  OBVIOUS
<1> HIDE DEF K, M, d
<1>3. \A v \in 0..M : /\ v \div r \in Nat /\ v = r * (v \div r) + (v % r)
                      /\ v % r \in 0..(r - 1)
  BY <1>1, DivMod, ModBounds
<1>4. \A v \in Hits(lo) : v + d \in Hits(x)
  <2> SUFFICES ASSUME NEW v \in Hits(lo) PROVE v + d \in Hits(x)
    OBVIOUS
  <2> DEFINE k == v \div r
  <2>1. v \in Nat /\ v <= M /\ k \in Nat /\ v = r * k + (v % r) /\ v % r \in 0..(r - 1)
    BY <1>1, <1>3
  <2>2. v % r = 0
    BY <2>1
  <2> HIDE DEF k
  <2>3. v = r * k /\ r * k \in Nat /\ r * K \in Nat
    BY <2>1, <2>2, <1>1
  <2>4. k < K
    <3> SUFFICES ASSUME K <= k PROVE FALSE
      BY <1>1, <2>1
    <3>1. K = k \/ r * K + r <= r * k
      BY <1>1, <2>1, TimesMono
    <3> QED
      BY <3>1, <2>3, <2>1, <1>1
  <2>5. r * k + r <= r * K
    BY <2>4, <1>1, <2>1, TimesMono
  <2>6. v + d \in 0..M
    BY <2>3, <2>5, <1>1, <1>2
  <2>7. (v + d) % r = d
    BY <2>3, <2>1, <1>2, ModUnique
  <2>8. d + lo = x
    BY DEF d
  <2> QED
    BY <2>6, <2>7, <2>8
<1>5. \A w \in Hits(x) : w - d \in Hits(lo)
  <2> SUFFICES ASSUME NEW w \in Hits(x) PROVE w - d \in Hits(lo)
    OBVIOUS
  <2> DEFINE k == w \div r
  <2>1. w \in Nat /\ w <= M /\ k \in Nat /\ w = r * k + (w % r) /\ w % r \in 0..(r - 1)
    BY <1>1, <1>3
  <2>2. w % r = d
    BY <2>1, <1>2 DEF d
  <2> HIDE DEF k
  <2>3. r * k \in Nat /\ w - d = r * k + 0
    BY <2>1, <2>2, <1>2
  <2>4. (w - d) % r = 0
    <3>1. 0 \in 0..(r - 1)
      OBVIOUS
    <3>2. (r * k + 0) % r = 0
      BY <2>1, <3>1, ModUnique
    <3> QED
      BY <2>3, <3>2
  <2>5. w - d \in 0..M
    BY <2>3, <2>1, <1>1, <1>2
  <2> QED
    BY <2>4, <2>5
<1>6. f \in Bijection(Hits(lo), Hits(x))
  <2>1. f \in [Hits(lo) -> Hits(x)]
    BY <1>4
  <2>2. \A v, w \in Hits(lo) : f[v] = f[w] => v = w
    BY <1>1, <1>2
  <2>3. \A w \in Hits(x) : \E v \in Hits(lo) : f[v] = w
    BY <1>1, <1>2, <1>5
  <2> QED
    BY <2>1, <2>2, <2>3, Fun_IsBij
<1>7. IsFiniteSet(Hits(lo))
  <2>1. IsFiniteSet(0..M) /\ Hits(lo) \in SUBSET (0..M)
    BY <1>1, FS_Interval
  <2> QED
    BY <2>1, FS_Subset
<1>8. Cardinality(Hits(x)) = Cardinality(Hits(lo))
  BY <1>6, <1>7, FS_Bijection DEF ExistsBijection
<1>9. d \in Hits(x)
  <2>1. d \in 0..M /\ d % r = d
    BY <1>1, <1>2, ModSmall
  <2> QED
    BY <2>1 DEF d
<1> QED
  BY <1>8, <1>9 DEF M

-------------------------------------------------------------------------------
(* The inductive invariant. *)

Shuffles == {"RandomShuffle", "SampleRandomBucket"}

\* While numbers are drawn, the words are those of a call UniformRandom(min, max).
WordInv ==
    pc = "draw" =>
        /\ min <= max /\ range = max - min + 1 /\ range < 2^Width
        /\ max_acceptable_value = MaxAcceptable(range)

\* a has the elements of b, each of them once.
IsPermutation(a, b) ==
    /\ a \in [DOMAIN b -> {b[k] : k \in DOMAIN b}]
    /\ \A k \in DOMAIN b : \E j \in DOMAIN a : a[j] = b[k]
    /\ \A j, k \in DOMAIN a : a[j] = a[k] => j = k

\* The array is a permutation of the input, and both start at 0.
ArrayInv ==
    /\ \E n \in 0..MaxSize : DOMAIN input = 0..(n - 1)
    /\ IsPermutation(array, input)

\* Who draws and who swaps, and with which indices.
LoopInv ==
    /\ pc = "draw" => job \in {"UniformRandom"} \cup Shuffles
    /\ pc = "draw" /\ job \in Shuffles => i \in DOMAIN array /\ min = 0 /\ max = i
    /\ pc = "swap" => job \in {"RandomPermutation"} \cup Shuffles
    /\ pc = "swap" => i \in DOMAIN array
    /\ pc = "swap" /\ job \in Shuffles => out <= i
    /\ IF pc = "swap" /\ job = "RandomPermutation"
       THEN perm_buf \in [DOMAIN array -> DOMAIN array]
       ELSE perm_buf = Empty

IInv == TypeOK /\ WordInv /\ ArrayInv /\ LoopInv /\ Ends

-------------------------------------------------------------------------------
(* Arrays. *)

LEMMA SizeOf ==
    ASSUME NEW a, NEW n \in Nat, DOMAIN a = 0..(n - 1)
    PROVE  Size(a) = n
  BY FS_Interval DEF Size

LEMMA SwapPermutes ==
    ASSUME NEW a, NEW b, IsPermutation(a, b), NEW j \in DOMAIN a, NEW k \in DOMAIN a
    PROVE  IsPermutation(Swapped(a, j, k), b)
<1> DEFINE s == Swapped(a, j, k)
           V == {b[x] : x \in DOMAIN b}
<1>1. a \in [DOMAIN b -> V] /\ DOMAIN a = DOMAIN b
  BY DEF IsPermutation
<1>2. s \in [DOMAIN b -> V]
      /\ \A x \in DOMAIN b : s[x] = IF x = k THEN a[j] ELSE IF x = j THEN a[k] ELSE a[x]
  <2> HIDE DEF V
  <2> QED
    BY <1>1 DEF Swapped
<1> HIDE DEF s
<1>3. \A x \in DOMAIN b : \E y \in DOMAIN s : s[y] = b[x]
  <2> SUFFICES ASSUME NEW x \in DOMAIN b PROVE \E y \in DOMAIN s : s[y] = b[x]
    OBVIOUS
  <2>1. PICK y \in DOMAIN b : a[y] = b[x]
    BY <1>1 DEF IsPermutation
  <2>2. s[IF y = j THEN k ELSE IF y = k THEN j ELSE y] = a[y]
    BY <1>1, <1>2
  <2> QED
    BY <2>1, <2>2, <1>1, <1>2
<1>4. \A x, y \in DOMAIN s : s[x] = s[y] => x = y
  <2>1. \A x, y \in DOMAIN b : a[x] = a[y] => x = y
    BY <1>1 DEF IsPermutation
  <2> QED
    BY <2>1, <1>1, <1>2
<1> QED
  BY <1>2, <1>3, <1>4 DEF IsPermutation, s

LEMMA IdentityPermutes ==
    ASSUME NEW b, b = [k \in DOMAIN b |-> b[k]], \A j, k \in DOMAIN b : b[j] = b[k] => j = k
    PROVE  IsPermutation(b, b)
<1> DEFINE V == {b[x] : x \in DOMAIN b}
<1>1. \A k \in DOMAIN b : b[k] \in V
  OBVIOUS
<1> HIDE DEF V
<1>2. b \in [DOMAIN b -> V]
  BY <1>1
<1> QED
  BY <1>2 DEF IsPermutation, V

-------------------------------------------------------------------------------
(* The loops. *)

\* What UniformRandom computes before it draws.
LEMMA AskStep ==
    ASSUME NEW lo \in Word, NEW hi \in Word, lo <= hi, max_acceptable_value \in Word,
           Ask(lo, hi)
    PROVE  /\ {min', max', range'} \subseteq Word /\ max_acceptable_value' \in Word
           /\ min' = lo /\ max' = hi
           /\ pc' \in {"draw", "crashed"}
           /\ pc' = "crashed" => min' = 0 /\ max' = 2^Width - 1
           /\ hi + 1 < P => pc' = "draw"
           /\ WordInv'
<1>1. min' = lo /\ max' = hi /\ range' = Span(lo, hi) /\ pc' \in {"draw", "crashed"}
  BY DEF Ask
<1>2. CASE Span(lo, hi) = 0
  <2>1. pc' = "crashed" /\ max_acceptable_value' = max_acceptable_value
    BY <1>2 DEF Ask
  <2> QED
    BY <1>1, <1>2, <2>1, SpanOf DEF WordInv, P
<1>3. CASE Span(lo, hi) # 0
  <2>1. pc' = "draw" /\ max_acceptable_value' = MaxAcceptable(Span(lo, hi))
    BY <1>3 DEF Ask
  <2>2. /\ Span(lo, hi) = hi - lo + 1 /\ hi - lo + 1 < P
        /\ lo \in Nat /\ hi \in Nat /\ Span(lo, hi) \in Nat /\ Span(lo, hi) > 0
    BY <1>3, SpanOf, Bounds
  <2>3. MaxAcceptable(Span(lo, hi)) \in Word /\ Span(lo, hi) \in Word
    BY <2>2, Acceptable, SpanOf
  <2>4. WordInv'
    BY <1>1, <2>1, <2>2 DEF WordInv, P
  <2> QED
    BY <1>1, <2>1, <2>3, <2>4
<1> QED
  BY <1>2, <1>3

\* An iteration of RandomShuffle never asks for the whole word.
LEMMA ShufflingStep ==
    ASSUME IInv, NEW a, NEW k \in 0..(MaxSize - 1), Shuffling(a, k)
    PROVE  /\ array' = a /\ i' = k
           /\ pc' \in {"draw", "idle"}
           /\ pc' = "draw" => min' = 0 /\ max' = k
           /\ {min', max', range'} \subseteq Word /\ max_acceptable_value' \in Word
           /\ status' \in {status, "kOK"}
           /\ WordInv'
<1>1. k \in Word /\ 0 \in Word /\ 0 <= k /\ k + 1 < P
  BY Bounds
<1>2. max_acceptable_value \in Word /\ {min, max, range} \subseteq Word
  BY DEF IInv, TypeOK
<1>3. CASE k > 0 /\ Ask(0, k) /\ UNCHANGED status
  BY <1>1, <1>2, <1>3, AskStep DEF Shuffling
<1>4. CASE k = 0 /\ pc' = "idle" /\ status' = "kOK" /\ UNCHANGED word_vars
  BY <1>2, <1>4 DEF Shuffling, WordInv, word_vars
<1> QED
  BY <1>3, <1>4 DEF Shuffling

-------------------------------------------------------------------------------
(* The steps. *)

LEMMA Initial == Init => IInv
<1> SUFFICES ASSUME Init PROVE IInv
  OBVIOUS
<1>1. TypeOK
  BY Bounds DEF Init, TypeOK, Empty
<1>2. WordInv /\ LoopInv /\ Ends
  BY DEF Init, WordInv, LoopInv, Ends
<1>3. ArrayInv
  <2>1. DOMAIN Empty = {} /\ Empty = [k \in DOMAIN Empty |-> Empty[k]]
    BY DEF Empty
  <2>2. IsPermutation(Empty, Empty)
    BY <2>1, IdentityPermutes
  <2>3. 0 \in 0..MaxSize /\ 0..(0 - 1) = {}
    BY Bounds
  <2> QED
    BY <2>1, <2>2, <2>3 DEF Init, ArrayInv
<1> QED
  BY <1>1, <1>2, <1>3 DEF IInv

LEMMA UniformRandomStep ==
    ASSUME IInv, NEW lo \in Word, NEW hi \in Word, UniformRandom(lo, hi)
    PROVE  IInv'
<1>1. /\ pc = "idle" /\ job' = "UniformRandom" /\ input' = Empty /\ array' = Empty
      /\ i' = 0 /\ out' = 0 /\ perm_buf' = perm_buf /\ perm_buf = Empty
  BY DEF UniformRandom, IInv, LoopInv
<1>2. /\ pc' \in {"idle", "draw", "crashed"} /\ status' \in {"none", "kInvalidArgument"}
      /\ {min', max', range'} \subseteq Word /\ max_acceptable_value' \in Word
      /\ pc' = "crashed" => min' = 0 /\ max' = 2^Width - 1
      /\ WordInv'
  <2>1. max_acceptable_value \in Word /\ {min, max, range} \subseteq Word
    BY DEF IInv, TypeOK
  <2>2. CASE lo > hi /\ status' = "kInvalidArgument" /\ UNCHANGED <<pc, word_vars>>
    BY <1>1, <2>1, <2>2 DEF word_vars, WordInv
  <2>3. CASE lo <= hi /\ Ask(lo, hi) /\ status' = "none"
    BY <2>1, <2>3, AskStep
  <2> QED
    BY <2>2, <2>3 DEF UniformRandom
<1>3. TypeOK'
  <2>1. DOMAIN array' = {} /\ DOMAIN input' = {} /\ DOMAIN perm_buf' = {}
    BY <1>1 DEF Empty
  <2> QED
    BY <1>1, <1>2, <2>1, Bounds DEF TypeOK
<1>4. ArrayInv'
  <2>1. DOMAIN Empty = {} /\ Empty = [k \in DOMAIN Empty |-> Empty[k]]
    BY DEF Empty
  <2>2. IsPermutation(Empty, Empty)
    BY <2>1, IdentityPermutes
  <2>3. 0 \in 0..MaxSize /\ 0..(0 - 1) = {}
    BY Bounds
  <2> QED
    BY <1>1, <2>1, <2>2, <2>3 DEF ArrayInv
<1>5. LoopInv' /\ Ends'
  BY <1>1, <1>2 DEF LoopInv, Ends, Shuffles
<1> QED
  BY <1>2, <1>3, <1>4, <1>5 DEF IInv

LEMMA DrawStep ==
    ASSUME IInv, NEW value \in Word, Draw(value)
    PROVE  IInv'
<1>1. /\ pc = "draw" /\ UNCHANGED <<job, input, array, i, perm_buf>>
      /\ UNCHANGED <<min, max, range, max_acceptable_value>>
  BY DEF Draw, word_vars
<1>2. CASE value > max_acceptable_value /\ UNCHANGED <<pc, out, status>>
  BY <1>1, <1>2 DEF IInv, TypeOK, WordInv, ArrayInv, LoopInv, Ends
<1>3. CASE /\ value <= max_acceptable_value
           /\ out' = (value % range) + min
           /\ pc' = IF job = "UniformRandom" THEN "idle" ELSE "swap"
           /\ status' = IF job = "UniformRandom" THEN "kOK" ELSE status
  <2>1. /\ min \in Nat /\ max \in Nat /\ max < P /\ min <= max /\ range = max - min + 1
        /\ value \in Nat /\ range \in Nat /\ range > 0
    <3>1. min \in Word /\ max \in Word
      BY DEF IInv, TypeOK
    <3> QED
      BY <1>1, <3>1, Bounds DEF IInv, WordInv
  <2>2. value % range \in 0..(range - 1)
    BY <2>1, ModBounds
  <2>3. out' \in min..max
    BY <1>3, <2>1, <2>2
  <2>4. out' \in Word
    BY <2>1, <2>3, Bounds
  <2>5. TypeOK'
    BY <1>1, <1>3, <2>4 DEF IInv, TypeOK
  <2>6. LoopInv'
    <3>1. perm_buf = Empty /\ job \in {"UniformRandom"} \cup Shuffles
      BY <1>1 DEF IInv, LoopInv
    <3>2. job \in Shuffles => i \in DOMAIN array /\ max = i
      BY <1>1 DEF IInv, LoopInv
    <3>3. i \in Nat /\ out' <= max
      BY <2>1, <2>3, Bounds DEF IInv, TypeOK
    <3> QED
      BY <1>1, <1>3, <3>1, <3>2, <3>3 DEF LoopInv, Shuffles
  <2>7. WordInv' /\ Ends'
    BY <1>1, <1>3 DEF WordInv, Ends
  <2>8. ArrayInv'
    BY <1>1 DEF IInv, ArrayInv
  <2> QED
    BY <2>5, <2>6, <2>7, <2>8 DEF IInv
<1> QED
  BY <1>2, <1>3 DEF Draw

\* A shuffle starts on an array whose elements differ.
LEMMA ShuffleStep ==
    ASSUME IInv, pc = "idle", NEW name \in Shuffles, NEW n \in 0..MaxSize,
           DOMAIN input' = 0..(n - 1), IsPermutation(input', input'),
           Shuffle(name, input')
    PROVE  IInv'
<1>1. job' = name /\ out' = 0 /\ perm_buf' = perm_buf /\ perm_buf = Empty
  BY DEF Shuffle, IInv, LoopInv
<1>2. Size(input') = n /\ n \in Nat /\ MaxSize \in Nat /\ MaxSize < P
  BY SizeOf, Bounds
<1>3. ArrayInv' /\ array' = input'
  <2>1. array' = input'
    BY DEF Shuffle, Shuffling
  <2> QED
    BY <2>1 DEF ArrayInv
<1>4. DOMAIN perm_buf' = {} /\ DOMAIN array' = DOMAIN input'
      /\ DOMAIN array' \subseteq 0..(MaxSize - 1)
  BY <1>1, <1>2, <1>3 DEF Empty
<1>5. CASE n = 0
  <2>1. /\ status' = "kInvalidArgument" /\ i' = 0 /\ NoWords
        /\ pc' = IF name = "SampleRandomBucket" THEN "aborted" ELSE "idle"
    BY <1>2, <1>5 DEF Shuffle
  <2>2. TypeOK'
    BY <1>1, <1>4, <2>1, Bounds DEF TypeOK, NoWords
  <2>3. DOMAIN input' = {}
    BY <1>5
  <2>4. WordInv' /\ LoopInv' /\ Ends'
    BY <1>1, <2>1, <2>3 DEF WordInv, LoopInv, Ends, Shuffles
  <2> QED
    BY <1>3, <2>2, <2>4 DEF IInv
<1>6. CASE n > 0
  <2>1. Shuffling(input', n - 1) /\ n - 1 \in 0..(MaxSize - 1)
    BY <1>2, <1>6 DEF Shuffle
  <2>2. /\ i' = n - 1
        /\ pc' \in {"draw", "idle"}
        /\ pc' = "draw" => min' = 0 /\ max' = n - 1
        /\ {min', max', range'} \subseteq Word /\ max_acceptable_value' \in Word
        /\ status' \in {status, "kOK"}
        /\ WordInv'
    BY <2>1, ShufflingStep
  <2>3. i' \in DOMAIN array' /\ i' \in Word
    BY <1>2, <1>3, <1>6, <2>2, Bounds
  <2>4. TypeOK'
    BY <1>1, <1>4, <2>2, <2>3, Bounds DEF IInv, TypeOK
  <2>5. LoopInv' /\ Ends'
    BY <1>1, <2>2, <2>3 DEF LoopInv, Ends, Shuffles
  <2> QED
    BY <1>3, <2>2, <2>4, <2>5 DEF IInv
<1> QED
  BY <1>2, <1>5, <1>6

LEMMA RandomShuffleStep ==
    ASSUME IInv, NEW n \in 0..MaxSize, RandomShuffle(n)
    PROVE  IInv'
<1>1. /\ pc = "idle" /\ input' = [k \in 0..(n - 1) |-> k]
      /\ Shuffle("RandomShuffle", input')
  BY DEF RandomShuffle
<1>2. DOMAIN input' = 0..(n - 1) /\ IsPermutation(input', input')
  <2> DEFINE b == [k \in 0..(n - 1) |-> k]
  <2>1. IsPermutation(b, b)
    BY IdentityPermutes
  <2> QED
    BY <1>1, <2>1
<1> QED
  BY <1>1, <1>2, ShuffleStep DEF Shuffles

LEMMA SampleRandomBucketStep ==
    ASSUME IInv, NEW n \in 0..MaxSize, NEW size \in 0..MaxSize, SampleRandomBucket(size, n)
    PROVE  IInv'
<1> DEFINE b == [k \in 0..(n - 1) |->
                    [block_id |-> k,
                     type |-> IF k < Normals(size) THEN "kNormal" ELSE "kDummy"]]
<1>1. pc = "idle" /\ input' = b /\ Shuffle("SampleRandomBucket", input')
  BY DEF SampleRandomBucket
<1>2. DOMAIN input' = 0..(n - 1) /\ IsPermutation(input', input')
  <2>1. \A j, k \in DOMAIN b : b[j] = b[k] => j = k
    OBVIOUS
  <2>2. b = [k \in DOMAIN b |-> b[k]] /\ DOMAIN b = 0..(n - 1)
    OBVIOUS
  <2> HIDE DEF b
  <2>3. IsPermutation(b, b)
    BY <2>1, <2>2, IdentityPermutes
  <2> QED
    BY <1>1, <2>2, <2>3
<1> QED
  BY <1>1, <1>2, ShuffleStep DEF Shuffles

LEMMA SwapDrawnStep ==
    ASSUME IInv, SwapDrawn
    PROVE  IInv'
<1>1. /\ pc = "swap" /\ job \in Shuffles /\ Shuffling(Swapped(array, i, out), i - 1)
      /\ out' = 0 /\ job' = job /\ input' = input /\ perm_buf' = perm_buf
      /\ perm_buf = Empty /\ i \in DOMAIN array /\ out <= i
  BY DEF SwapDrawn, IInv, LoopInv, Shuffles
<1>2. PICK n \in 0..MaxSize : DOMAIN input = 0..(n - 1)
  BY DEF IInv, ArrayInv
<1>3. /\ n \in Nat /\ n <= MaxSize /\ MaxSize < P /\ P \in Nat /\ MaxSize \in Nat
      /\ DOMAIN array = 0..(n - 1) /\ out \in Nat
  BY <1>2, Bounds DEF IInv, ArrayInv, IsPermutation, TypeOK
<1>4. i \in 0..(n - 1) /\ out \in DOMAIN array
  BY <1>1, <1>3
<1>5. i - 1 > 0 \/ i - 1 = 0
  BY <1>1 DEF Shuffling
<1>6. i - 1 \in 0..(MaxSize - 1) /\ i - 1 \in 0..(n - 1)
  BY <1>3, <1>4, <1>5
<1>7. /\ array' = Swapped(array, i, out) /\ i' = i - 1
      /\ pc' \in {"draw", "idle"}
      /\ pc' = "draw" => min' = 0 /\ max' = i - 1
      /\ {min', max', range'} \subseteq Word /\ max_acceptable_value' \in Word
      /\ status' \in {status, "kOK"}
      /\ WordInv'
  BY <1>1, <1>6, ShufflingStep
<1>8. IsPermutation(array', input')
  BY <1>1, <1>4, <1>7, SwapPermutes DEF IInv, ArrayInv
<1>9. ArrayInv' /\ DOMAIN array' = 0..(n - 1) /\ DOMAIN array' = DOMAIN input'
  BY <1>1, <1>2, <1>8 DEF ArrayInv, IsPermutation
<1>10. TypeOK'
  <2>1. i' \in Word /\ DOMAIN array' \subseteq 0..(MaxSize - 1) /\ DOMAIN perm_buf' = {}
    BY <1>1, <1>3, <1>6, <1>7, <1>9, Bounds DEF Empty
  <2> QED
    BY <1>1, <1>7, <1>9, <2>1, Bounds DEF IInv, TypeOK
<1>11. LoopInv' /\ Ends'
  BY <1>1, <1>6, <1>7, <1>9 DEF LoopInv, Ends, Shuffles
<1> QED
  BY <1>7, <1>9, <1>10, <1>11 DEF IInv

\* Whatever is enciphered is below the power of two, and so below the size.
LEMMA RandomPermutationStep ==
    ASSUME IInv, NEW n \in 0..MaxSize, RandomPermutation(n)
    PROVE  IInv'
<1> DEFINE b == [k \in 0..(n - 1) |-> k]
<1>1. /\ pc = "idle" /\ job' = "RandomPermutation" /\ input' = b /\ array' = b
      /\ out' = 0 /\ NoWords /\ perm_buf = Empty
  BY DEF RandomPermutation, IInv, LoopInv
<1>2. n \in Nat /\ n <= MaxSize /\ MaxSize \in Nat /\ MaxSize < P
  BY Bounds
<1>3. ArrayInv' /\ DOMAIN array' = 0..(n - 1) /\ DOMAIN input' = 0..(n - 1)
  <2>1. DOMAIN b = 0..(n - 1) /\ b = [k \in DOMAIN b |-> b[k]]
        /\ \A j, k \in DOMAIN b : b[j] = b[k] => j = k
    OBVIOUS
  <2> HIDE DEF b
  <2>2. IsPermutation(b, b)
    BY <2>1, IdentityPermutes
  <2> QED
    BY <1>1, <2>1, <2>2 DEF ArrayInv
<1>4. /\ {min', max', range', out'} \subseteq Word /\ max_acceptable_value' \in Word
      /\ DOMAIN array' \subseteq 0..(MaxSize - 1)
  BY <1>1, <1>2, <1>3, Bounds DEF NoWords
<1> HIDE DEF b
<1>5. CASE n = 0 /\ status' = "kInvalidArgument" /\ UNCHANGED <<pc, i, perm_buf>>
  <2>1. DOMAIN perm_buf' = {} /\ i' \in Word
    BY <1>1, <1>5 DEF Empty, IInv, TypeOK
  <2>2. TypeOK'
    BY <1>1, <1>3, <1>4, <1>5, <2>1 DEF TypeOK
  <2>3. WordInv' /\ LoopInv' /\ Ends'
    BY <1>1, <1>5 DEF WordInv, LoopInv, Ends
  <2> QED
    BY <1>3, <2>2, <2>3 DEF IInv
<1>6. CASE /\ n > 0 /\ i' = 0 /\ status' = "none" /\ pc' = "swap"
           /\ \E ord \in Orders(n) : perm_buf' \in [0..(n - 1) -> 0..(2^ord - 1)]
  <2>1. PICK ord \in Orders(n) : perm_buf' \in [0..(n - 1) -> 0..(2^ord - 1)]
    BY <1>6
  <2>2. 2^ord \in Nat /\ 2^ord <= n
    <3>1. ord \in 0..Width /\ 2^ord <= n
      BY DEF Orders
    <3> QED
      BY <3>1, PowerAssumption
  <2>5. perm_buf' \in [0..(n - 1) -> 0..(n - 1)]
    <3>1. 0..(2^ord - 1) \subseteq 0..(n - 1)
      BY <2>2, <1>2
    <3> QED
      BY <2>1, <3>1
  <2>6. \A k \in DOMAIN perm_buf' : perm_buf'[k] \in Word
    BY <2>5, <1>2, Bounds
  <2>7. TypeOK'
    BY <1>3, <1>4, <1>6, <2>6, Bounds DEF TypeOK
  <2>8. 0 \in 0..(n - 1)
    BY <1>2, <1>6
  <2>9. WordInv' /\ LoopInv' /\ Ends'
    BY <1>1, <1>3, <1>6, <2>5, <2>8 DEF WordInv, LoopInv, Ends, Shuffles
  <2> QED
    BY <1>3, <2>7, <2>9 DEF IInv
<1>7. CASE n > 0 /\ i' = 0 /\ status' = "none" /\ pc' = "crashed" /\ UNCHANGED perm_buf
  <2>1. DOMAIN perm_buf' = {} /\ perm_buf' = Empty
    BY <1>1, <1>7 DEF Empty
  <2>2. TypeOK'
    BY <1>3, <1>4, <1>7, <2>1, Bounds DEF TypeOK
  <2>3. 0 \in 0..(n - 1)
    BY <1>2, <1>7
  <2>4. WordInv' /\ LoopInv' /\ Ends'
    BY <1>1, <1>3, <1>7, <2>1, <2>3 DEF WordInv, LoopInv, Ends
  <2> QED
    BY <1>3, <2>2, <2>4 DEF IInv
<1> QED
  BY <1>5, <1>6, <1>7 DEF RandomPermutation, Enciphered

LEMMA SwapEncipheredStep ==
    ASSUME IInv, SwapEnciphered
    PROVE  IInv'
<1>1. /\ pc = "swap" /\ job = "RandomPermutation"
      /\ array' = Swapped(array, i, perm_buf[i])
      /\ job' = job /\ input' = input /\ out' = out
      /\ UNCHANGED <<min, max, range, max_acceptable_value>>
      /\ i \in DOMAIN array /\ perm_buf \in [DOMAIN array -> DOMAIN array]
  BY DEF SwapEnciphered, IInv, LoopInv, word_vars
<1>2. PICK n \in 0..MaxSize : DOMAIN input = 0..(n - 1)
  BY DEF IInv, ArrayInv
<1>3. /\ n \in Nat /\ n <= MaxSize /\ MaxSize \in Nat /\ MaxSize < P /\ P \in Nat
      /\ DOMAIN array = 0..(n - 1)
  BY <1>2, Bounds DEF IInv, ArrayInv, IsPermutation
<1>4. perm_buf[i] \in DOMAIN array
  BY <1>1
<1>5. IsPermutation(array', input')
  BY <1>1, <1>4, SwapPermutes DEF IInv, ArrayInv
<1>6. ArrayInv' /\ DOMAIN array' = DOMAIN input' /\ DOMAIN array' = DOMAIN array
  BY <1>1, <1>2, <1>3, <1>5 DEF ArrayInv, IsPermutation
<1>7. Size(array) = n
  BY <1>3, SizeOf
<1>8. CASE i + 1 < Size(array) /\ i' = i + 1 /\ UNCHANGED <<pc, status, perm_buf>>
  <2>1. i' \in DOMAIN array' /\ i' \in Word
    BY <1>1, <1>3, <1>6, <1>7, <1>8, Bounds
  <2>2. TypeOK'
    BY <1>1, <1>6, <1>8, <2>1 DEF IInv, TypeOK
  <2>3. WordInv' /\ LoopInv' /\ Ends'
    BY <1>1, <1>6, <1>8, <2>1 DEF WordInv, LoopInv, Ends, Shuffles
  <2> QED
    BY <1>6, <2>2, <2>3 DEF IInv
<1>9. CASE /\ i + 1 = Size(array)
           /\ pc' = "idle" /\ i' = 0 /\ status' = "kOK" /\ perm_buf' = Empty
  <2>1. DOMAIN perm_buf' = {} /\ i' \in Word
    BY <1>9, Bounds DEF Empty
  <2>2. TypeOK'
    BY <1>1, <1>6, <1>9, <2>1 DEF IInv, TypeOK
  <2>3. WordInv' /\ LoopInv' /\ Ends'
    BY <1>1, <1>9 DEF WordInv, LoopInv, Ends
  <2> QED
    BY <1>6, <2>2, <2>3 DEF IInv
<1> QED
  BY <1>8, <1>9 DEF SwapEnciphered

\* Every step keeps the inductive invariant.
LEMMA Steps == IInv /\ [Next]_vars => IInv'
<1> SUFFICES ASSUME IInv, [Next]_vars PROVE IInv'
  OBVIOUS
<1>1. CASE Call
  BY <1>1, UniformRandomStep, RandomShuffleStep, RandomPermutationStep,
     SampleRandomBucketStep DEF Call
<1>2. CASE \E value \in Word : Draw(value)
  BY <1>2, DrawStep
<1>3. CASE SwapDrawn
  BY <1>3, SwapDrawnStep
<1>4. CASE SwapEnciphered
  BY <1>4, SwapEncipheredStep
<1>5. CASE UNCHANGED vars
  BY <1>5 DEF vars, IInv, TypeOK, WordInv, ArrayInv, LoopInv, Ends
<1> QED
  BY <1>1, <1>2, <1>3, <1>4, <1>5 DEF Next

-------------------------------------------------------------------------------
(* The theorems. *)

\* The inductive invariant implies what the runs check.
LEMMA Sound == IInv => SamplesSound
<1> SUFFICES ASSUME IInv PROVE SamplesSound
  OBVIOUS
<1>1. TypeOK /\ WordInv /\ ArrayInv /\ LoopInv /\ Ends
  BY DEF IInv
<1>2. Uniform
  <2> SUFFICES ASSUME pc = "draw" PROVE Uniform
    BY DEF Uniform
  <2>1. /\ min \in Nat /\ max \in Nat /\ range \in Nat /\ range > 0 /\ range < P
        /\ max = min + range - 1 /\ max_acceptable_value = MaxAcceptable(range)
    BY <1>1, Bounds DEF TypeOK, WordInv, P
  <2>2. \A x \in min..max :
           LET Hits(y) == {v \in 0..max_acceptable_value : (v % range) + min = y} IN
           Cardinality(Hits(x)) = Cardinality(Hits(min)) /\ Hits(x) # {}
    BY <2>1, EquallyOften
  <2> QED
    BY <2>2 DEF Uniform
<1>3. Permuted
  <2> DEFINE V == {input[k] : k \in DOMAIN input}
  <2>1. /\ array \in [DOMAIN input -> V]
        /\ \A k \in DOMAIN input : \E j \in DOMAIN array : array[j] = input[k]
    BY <1>1 DEF ArrayInv, IsPermutation
  <2>2. \A j \in DOMAIN array : array[j] \in V
    <3> HIDE DEF V
    <3> QED
      BY <2>1
  <2>3. {array[k] : k \in DOMAIN array} = V
    BY <2>1, <2>2
  <2>4. \A j, k \in DOMAIN array : array[j] = array[k] => j = k
    BY <1>1 DEF ArrayInv, IsPermutation
  <2>5. job = "RandomPermutation" => \A k \in DOMAIN perm_buf : perm_buf[k] \in DOMAIN array
    BY <1>1 DEF LoopInv, Empty
  <2>6. pc = "swap" /\ job # "RandomPermutation" => out <= i /\ i \in DOMAIN array
    BY <1>1 DEF LoopInv
  <2> QED
    BY <2>3, <2>4, <2>5, <2>6 DEF Permuted
<1> QED
  BY <1>1, <1>2, <1>3 DEF SamplesSound

\* The inductive invariant holds in every behaviour of UniformRandom, RandomShuffle,
\* SampleRandomBucket and RandomPermutation.
THEOREM Invariance == Spec => []IInv
<1>1. Init => IInv
  BY Initial
<1>2. IInv /\ [Next]_vars => IInv'
  BY Steps
<1> QED
  BY <1>1, <1>2, PTL DEF Spec

\* Draws are uniform, arrays are permuted with indices inside them, and the process
\* ends for the whole word, an empty bucket, or in the cipher with nothing moved yet.
THEOREM SamplesSoundSafe == Spec => []SamplesSound
<1>1. IInv => SamplesSound
  BY Sound
<1> QED
  BY <1>1, Invariance, PTL
===============================================================================
