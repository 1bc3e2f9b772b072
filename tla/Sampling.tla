------------------------------- MODULE Sampling -------------------------------
(***************************************************************************)
(* The random choices that every controller is built on (base/oram_crypto, *)
(* base/oram_utils): UniformRandom, RandomShuffle, RandomPermutation and   *)
(* SampleRandomBucket, one step per random draw or swap.  uint32_t is a    *)
(* word of 2^Width values.  The random number generator and the            *)
(* format-preserving cipher are external: any word, and any ord digits for *)
(* every element, or no answer at all: the cipher is known to end the      *)
(* process at times (README.md:16 of the repository).                      *)
(***************************************************************************)
EXTENDS Integers, FiniteSets

CONSTANTS
    Width,           \* bits of a word; 32 in the code
    MaxSize          \* bound: length of an array

ASSUME SamplingAssumption ==
    Width \in Nat \ {0} /\ MaxSize \in Nat /\ MaxSize < 2^Width

\* Powers of two are positive, which cannot be derived from the recursive definition
\* of exponentiation without induction.
ASSUME PowerAssumption == 2^Width >= 2 /\ \A o \in 0..Width : 2^o \in Nat \ {0}

VARIABLES
    pc,
    job,             \* the function that was called
    input,           \* its array, or what it makes the array from
    array,
    i,               \* loop variable
    min, max,        \* UniformRandom: arguments
    range, max_acceptable_value,
    perm_buf,        \* RandomPermutation: the index each element is swapped with
    out, status

vars == <<pc, job, input, array, i, min, max, range, max_acceptable_value, perm_buf,
          out, status>>

word_vars == <<min, max, range, max_acceptable_value>>

Word == 0..(2^Width - 1)
Size(a) == Cardinality(DOMAIN a)
Empty == [k \in {} |-> 0]

\* The local variables of UniformRandom, when it is not running.
NoWords == min' = 0 /\ max' = 0 /\ range' = 1 /\ max_acceptable_value' = 0

Init ==
    /\ pc = "idle" /\ job = "none" /\ status = "none"
    /\ input = Empty /\ array = Empty /\ perm_buf = Empty
    /\ i = 0 /\ out = 0
    /\ min = 0 /\ max = 0 /\ range = 1 /\ max_acceptable_value = 0

-------------------------------------------------------------------------------
(* UniformRandom. *)

\* max - min + 1 wraps around when the whole word is asked for.
Span(lo, hi) == (hi - lo + 1) % 2^Width

\* Mutant of MaxAcceptable: the incomplete last interval is accepted too.
MaxAcceptableAll(r) == 2^Width - 1

\* The end of the last complete interval.
MaxAcceptable(r) == ((2^Width - 1) \div r) * r - 1

\* Asked by a function that goes on at draw when the numbers are computed.  With a
\* range of zero the division ends the process.
Ask(lo, hi) ==
    /\ min' = lo /\ max' = hi /\ range' = Span(lo, hi)
    /\ \/ Span(lo, hi) = 0 /\ pc' = "crashed" /\ UNCHANGED max_acceptable_value
       \/ Span(lo, hi) # 0 /\ pc' = "draw"
          /\ max_acceptable_value' = MaxAcceptable(Span(lo, hi))

UniformRandom(lo, hi) ==
    /\ pc = "idle"
    /\ job' = "UniformRandom"
    /\ \/ lo > hi /\ status' = "kInvalidArgument" /\ UNCHANGED <<pc, word_vars>>
       \/ lo <= hi /\ Ask(lo, hi) /\ status' = "none"
    /\ input' = Empty /\ array' = Empty /\ i' = 0 /\ out' = 0
    /\ UNCHANGED perm_buf

\* One random number: the loop goes on, or the caller gets its answer.
Draw(value) ==
    /\ pc = "draw"
    /\ \/ value > max_acceptable_value /\ UNCHANGED <<pc, out, status>>
       \/ /\ value <= max_acceptable_value
          /\ out' = (value % range) + min
          /\ pc' = IF job = "UniformRandom" THEN "idle" ELSE "swap"
          /\ status' = IF job = "UniformRandom" THEN "kOK" ELSE status
    /\ UNCHANGED <<job, input, array, i, perm_buf, word_vars>>

-------------------------------------------------------------------------------
(* RandomShuffle. *)

Swapped(a, j, k) == [a EXCEPT ![j] = a[k], ![k] = a[j]]

\* The loop ends at 0.
Shuffling(a, k) ==
    /\ array' = a /\ i' = k
    /\ \/ k > 0 /\ Ask(0, k) /\ UNCHANGED status
       \/ k = 0 /\ pc' = "idle" /\ status' = "kOK" /\ UNCHANGED word_vars

\* An empty array is refused; SampleRandomBucket then aborts.
Shuffle(name, a) ==
    /\ job' = name
    /\ \/ /\ Size(a) = 0
          /\ array' = a /\ status' = "kInvalidArgument"
          /\ pc' = IF name = "SampleRandomBucket" THEN "aborted" ELSE "idle"
          /\ i' = 0 /\ NoWords
       \/ Size(a) > 0 /\ Shuffling(a, Size(a) - 1)
    /\ out' = 0 /\ UNCHANGED perm_buf

RandomShuffle(n) ==
    /\ pc = "idle"
    /\ input' = [k \in 0..(n - 1) |-> k]
    /\ Shuffle("RandomShuffle", input')

SwapDrawn ==
    /\ pc = "swap" /\ job # "RandomPermutation"
    /\ Shuffling(Swapped(array, i, out), i - 1)
    /\ out' = 0 /\ UNCHANGED <<job, input, perm_buf>>

\* Half of the blocks asked for are normal ones, the rest of the tree is dummies.
\* Ids are given relative to initial_offset.
Normals(size) == size \div 2

SampleRandomBucket(size, tree_size) ==
    /\ pc = "idle"
    /\ input' = [k \in 0..(tree_size - 1) |->
                    [block_id |-> k, type |-> IF k < Normals(size) THEN "kNormal" ELSE "kDummy"]]
    /\ Shuffle("SampleRandomBucket", input')

-------------------------------------------------------------------------------
(* RandomPermutation. *)

\* The integer part of a quotient of two logarithms in floating point: the binary
\* logarithm, or one less where the quotient is rounded down below an integer.  Never
\* one more: below a power of two the quotient of a 32-bit size is further from the
\* next integer than a rounding error.
Orders(n) == {o \in 0..Width : /\ 2^o <= n /\ n < 2^(o + 2)
                               /\ n >= 2^(o + 1) => n = 2^(o + 1)}

\* Every element is enciphered, before any is moved.  Whether the cipher got a key
\* or an encryption failed is not looked at: a failed one leaves the zeros its buffer
\* was filled with, and an access without a key ends the process.
Enciphered(n) ==
    \/ /\ \E ord \in Orders(n) : perm_buf' \in [0..(n - 1) -> 0..(2^ord - 1)]
       /\ pc' = "swap"
    \/ pc' = "crashed" /\ UNCHANGED perm_buf

RandomPermutation(n) ==
    /\ pc = "idle" /\ job' = "RandomPermutation"
    /\ input' = [k \in 0..(n - 1) |-> k] /\ array' = input'
    /\ \/ n = 0 /\ status' = "kInvalidArgument" /\ UNCHANGED <<pc, i, perm_buf>>
       \/ n > 0 /\ Enciphered(n) /\ i' = 0 /\ status' = "none"
    /\ out' = 0 /\ NoWords

SwapEnciphered ==
    /\ pc = "swap" /\ job = "RandomPermutation"
    /\ array' = Swapped(array, i, perm_buf[i])
    /\ \/ i + 1 < Size(array) /\ i' = i + 1 /\ UNCHANGED <<pc, status, perm_buf>>
       \/ /\ i + 1 = Size(array)
          /\ pc' = "idle" /\ i' = 0 /\ status' = "kOK" /\ perm_buf' = Empty
    /\ UNCHANGED <<job, input, out, word_vars>>

-------------------------------------------------------------------------------
Call ==
    \/ \E lo, hi \in Word : UniformRandom(lo, hi)
    \/ \E n \in 0..MaxSize :
        \/ RandomShuffle(n) \/ RandomPermutation(n)
        \/ \E size \in 0..MaxSize : SampleRandomBucket(size, n)

Next ==
    \/ Call
    \/ \E value \in Word : Draw(value)
    \/ SwapDrawn \/ SwapEnciphered

Spec == Init /\ [][Next]_vars

-------------------------------------------------------------------------------
(* Properties. *)

\* Every variable has its type.
TypeOK ==
    /\ pc \in {"idle", "draw", "swap", "crashed", "aborted"}
    /\ status \in {"none", "kOK", "kInvalidArgument"}
    /\ {i, min, max, range, out} \subseteq Word /\ max_acceptable_value \in Word
    /\ DOMAIN array = DOMAIN input /\ DOMAIN array \subseteq 0..(MaxSize - 1)
    /\ \A k \in DOMAIN perm_buf : perm_buf[k] \in Word

\* A draw that is accepted is every number from min to max equally often.
Uniform ==
    pc = "draw" =>
        LET Hits(x) == {v \in 0..max_acceptable_value : (v % range) + min = x} IN
        \A x \in min..max : Cardinality(Hits(x)) = Cardinality(Hits(min)) /\ Hits(x) # {}

\* No element is lost or doubled on the way, whatever the cipher answers and whatever
\* the size of the array; and no index is outside of the array.
Permuted ==
    /\ {array[k] : k \in DOMAIN array} = {input[k] : k \in DOMAIN input}
    /\ \A j, k \in DOMAIN array : array[j] = array[k] => j = k
    /\ job = "RandomPermutation" => \A k \in DOMAIN perm_buf : perm_buf[k] \in DOMAIN array
    /\ pc = "swap" /\ job # "RandomPermutation" => out <= i /\ i \in DOMAIN array

\* A draw or a shuffle ends the process only when the whole word is asked for, which
\* is what a controller without leaves or without Path ORAMs does, or when a bucket of
\* no blocks is.  A permutation ends it only in the cipher, with nothing moved yet, and
\* never for the empty array, which is refused before.
Ends ==
    /\ pc = "crashed" /\ job # "RandomPermutation" => min = 0 /\ max = 2^Width - 1
    /\ pc = "crashed" /\ job = "RandomPermutation" => array = input /\ DOMAIN input # {}
    /\ pc = "aborted" => job = "SampleRandomBucket" /\ DOMAIN input = {}

\* The random choices are sound.
SamplesSound == TypeOK /\ Uniform /\ Permuted /\ Ends
===============================================================================
