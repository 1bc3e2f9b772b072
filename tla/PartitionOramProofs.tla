-------------------------- MODULE PartitionOramProofs --------------------------
(***************************************************************************)
(* Slots, position map and Path ORAMs of the Partition ORAM agree between  *)
(* any two calls, garbage is handed out and behaviour is undefined only    *)
(* for the reasons named, for any number of slots, addresses, contents,    *)
(* inputs and failures.                                                    *)
(***************************************************************************)
EXTENDS PartitionOram, SequenceTheorems, FiniteSetTheorems,
        WellFoundedInduction, TLAPS

Data == Val \cup {NoVal, Garbage}
Controller == [id : SlotIds, filled : BOOLEAN, mem : Contents]

-------------------------------------------------------------------------------
(* Slots. *)

\* Slot s has a block of address a.
Has(q, a) == \E j \in DOMAIN q : q[j].id = a

InSlot(a) == position_map[a] \in SlotIds /\ Has(slots[position_map[a]], a)

\* The blocks q of slot s are where the map pm says, have the contents lt, and no
\* address is there twice.
Sound(q, s, pm, lt) ==
    \A j \in DOMAIN q :
        /\ q[j].id \in Addr /\ pm[q[j].id] = s /\ q[j].data = lt[q[j].id]
        /\ \A k \in DOMAIN q : q[k].id = q[j].id => k = j

\* The constants.
LEMMA Bounds ==
    /\ squared \in Nat /\ squared >= 1 /\ MaxControllers \in Nat /\ MaxControllers >= 1
    /\ MaxFaults \in Nat /\ 0 \in SlotIds /\ NoVal # Garbage
    /\ \A n \in NuValues : n \in Nat
    /\ NoAddr \notin Addr
    /\ \A v \in Val : v # NoVal /\ v # Garbage
BY PartitionAssumption DEF SlotIds

\* Matches, by what is in the slot.
LEMMA MatchesHas ==
    ASSUME NEW s, NEW a
    PROVE  Matches(s, a) = {} <=> ~Has(slots[s], a)
BY DEF Matches, Has

\* A slot with a block more.
LEMMA AppendSound ==
    ASSUME NEW q \in Seq(Block), NEW b \in Block, NEW s, NEW pm, NEW lt,
           Sound(q, s, pm, lt), ~Has(q, b.id),
           b.id \in Addr, pm[b.id] = s, lt[b.id] = b.data
    PROVE  Sound(Append(q, b), s, pm, lt)
<1> DEFINE t == Append(q, b)
<1>1. /\ DOMAIN t = 1..(Len(q) + 1) /\ DOMAIN q = 1..Len(q) /\ Len(q) \in Nat
      /\ t[Len(q) + 1] = b /\ \A j \in 1..Len(q) : t[j] = q[j]
  BY AppendProperties, LenProperties
<1> HIDE DEF t
<1>2. \A j \in DOMAIN t : j \in DOMAIN q \/ j = Len(q) + 1
  BY <1>1
<1> QED
  BY <1>1, <1>2 DEF Sound, Has, t

\* What a slot has once there is a block more.
LEMMA AppendHas ==
    ASSUME NEW q \in Seq(Block), NEW b \in Block, NEW a
    PROVE  /\ Append(q, b) \in Seq(Block)
           /\ Has(Append(q, b), a) <=> Has(q, a) \/ b.id = a
<1> DEFINE t == Append(q, b)
<1>1. /\ DOMAIN t = 1..(Len(q) + 1) /\ DOMAIN q = 1..Len(q) /\ Len(q) \in Nat
      /\ t[Len(q) + 1] = b /\ \A j \in 1..Len(q) : t[j] = q[j]
      /\ t \in Seq(Block)
  BY AppendProperties, LenProperties
<1> HIDE DEF t
<1>2. \A j \in DOMAIN t : j \in DOMAIN q \/ j = Len(q) + 1
  BY <1>1
<1>3. Len(q) + 1 \in DOMAIN t /\ \A j \in DOMAIN q : j \in DOMAIN t
  BY <1>1
<1>4. Has(t, a) <=> Has(q, a) \/ b.id = a
  BY <1>1, <1>2, <1>3 DEF Has
<1> QED
  BY <1>1, <1>4 DEF t

\* A slot without one of its blocks.
LEMMA RemoveSound ==
    ASSUME NEW q \in Seq(Block), NEW n \in DOMAIN q, NEW t,
           t = RemoveAt(q, n), NEW s, NEW pm, NEW lt
    PROVE  /\ t \in Seq(Block)
           /\ \A a : Has(t, a) => Has(q, a)
           /\ \A a : a # q[n].id /\ Has(q, a) => Has(t, a)
           /\ Sound(q, s, pm, lt) => Sound(t, s, pm, lt) /\ ~Has(t, q[n].id)
<1> DEFINE l == Len(q)
           u == SubSeq(q, 1, n - 1)
           w == SubSeq(q, n + 1, l)
           from(j) == IF j < n THEN j ELSE j + 1
<1>1. l \in Nat /\ DOMAIN q = 1..l /\ n \in 1..l
  BY LenProperties
<1>2. /\ u \in Seq(Block) /\ Len(u) = n - 1 /\ \A j \in 1..(n - 1) : u[j] = q[j]
  BY <1>1
<1>3. /\ w \in Seq(Block) /\ Len(w) = l - n /\ \A j \in 1..(l - n) : w[j] = q[n + j]
  BY <1>1
<1>4. t = u \o w
  BY DEF RemoveAt
<1> HIDE DEF u, w
<1>5. /\ t \in Seq(Block) /\ Len(t) = l - 1 /\ DOMAIN t = 1..(l - 1)
      /\ \A j \in 1..(l - 1) : t[j] = q[from(j)]
  <2>1. t \in Seq(Block) /\ Len(t) = l - 1
    <3>1. t \in Seq(Block) /\ Len(t) = Len(u) + Len(w)
      BY <1>2, <1>3, <1>4, ConcatProperties
    <3>2. Len(u) + Len(w) = l - 1
      BY <1>1, <1>2, <1>3
    <3> QED
      BY <3>1, <3>2
  <2>2. DOMAIN t = 1..(l - 1)
    BY <2>1, LenProperties
  <2>3. ASSUME NEW j \in 1..(l - 1), j < n
        PROVE  t[j] = q[from(j)]
    BY <1>1, <1>2, <1>3, <1>4, <2>3, ConcatProperties
  <2>4. ASSUME NEW j \in 1..(l - 1), ~(j < n)
        PROVE  t[j] = q[from(j)]
    <3>1. t[j] = w[j - Len(u)]
      BY <1>1, <1>2, <1>3, <1>4, <2>4, ConcatProperties
    <3>2. j - Len(u) = j - n + 1 /\ j - n + 1 \in 1..(l - n) /\ n + (j - n + 1) = j + 1
      BY <1>1, <1>2, <2>4
    <3> QED
      BY <1>3, <2>4, <3>1, <3>2
  <2> QED
    BY <2>1, <2>2, <2>3, <2>4
<1>6. \A j \in DOMAIN t : from(j) \in DOMAIN q /\ from(j) # n
  BY <1>1, <1>5
<1>7. \A j, k \in DOMAIN t : from(j) = from(k) => j = k
  BY <1>1, <1>5
<1>8. \A k \in DOMAIN q : k # n => \E j \in DOMAIN t : from(j) = k
  <2> SUFFICES ASSUME NEW k \in DOMAIN q, k # n
               PROVE  \E j \in DOMAIN t : from(j) = k
    OBVIOUS
  <2>1. CASE k < n
    <3>1. k \in DOMAIN t /\ from(k) = k
      BY <1>1, <1>5, <2>1
    <3> QED
      BY <3>1
  <2>2. CASE k > n
    <3>1. k - 1 \in DOMAIN t /\ from(k - 1) = k
      BY <1>1, <1>5, <2>2
    <3> QED
      BY <3>1
  <2> QED
    BY <1>1, <2>1, <2>2
<1>9. \A j \in DOMAIN t : t[j] = q[from(j)]
  BY <1>5
<1> HIDE DEF from
<1>10. \A a : Has(t, a) => Has(q, a)
  BY <1>6, <1>9 DEF Has
<1>11. \A a : a # q[n].id /\ Has(q, a) => Has(t, a)
  BY <1>8, <1>9 DEF Has
<1>12. ASSUME Sound(q, s, pm, lt)
       PROVE  Sound(t, s, pm, lt) /\ ~Has(t, q[n].id)
  <2>1. ~Has(t, q[n].id)
    BY <1>6, <1>9, <1>12 DEF Has, Sound
  <2>2. ASSUME NEW j \in DOMAIN t
        PROVE  /\ t[j].id \in Addr /\ pm[t[j].id] = s /\ t[j].data = lt[t[j].id]
               /\ \A k \in DOMAIN t : t[k].id = t[j].id => k = j
    BY <1>6, <1>7, <1>9, <1>12 DEF Sound
  <2> QED
    BY <2>1, <2>2 DEF Sound
<1> QED
  BY <1>5, <1>10, <1>11, <1>12

\* A slot without its last block.
LEMMA FrontSound ==
    ASSUME NEW q \in Seq(Block), q # <<>>, NEW t, t = Front(q), NEW s, NEW pm, NEW lt
    PROVE  /\ Last(q) \in Block /\ t \in Seq(Block)
           /\ \A a : Has(t, a) => Has(q, a)
           /\ \A a : a # Last(q).id /\ Has(q, a) => Has(t, a)
           /\ Sound(q, s, pm, lt) =>
                 /\ Sound(t, s, pm, lt) /\ ~Has(t, Last(q).id)
                 /\ Last(q).id \in Addr /\ pm[Last(q).id] = s /\ Last(q).data = lt[Last(q).id]
<1> DEFINE l == Len(q)
<1>1. l \in Nat /\ DOMAIN q = 1..l /\ l >= 1 /\ l \in DOMAIN q
  BY LenProperties, EmptySeq
<1>2. Last(q) = q[l] /\ Last(q) \in Block
  BY <1>1, ElementOfSeq DEF Last
<1>3. /\ t \in Seq(Block) /\ Len(t) = l - 1 /\ DOMAIN t = 1..(l - 1)
      /\ \A j \in 1..(l - 1) : t[j] = q[j]
  BY <1>1 DEF Front
<1>4. \A j \in DOMAIN t : j \in DOMAIN q /\ j # l /\ t[j] = q[j]
  BY <1>1, <1>3
<1>5. \A j \in DOMAIN q : j # l => j \in DOMAIN t
  BY <1>1, <1>3
<1> HIDE DEF l
<1> QED
  BY <1>1, <1>2, <1>3, <1>4, <1>5 DEF Has, Sound

\* A change of map and contents elsewhere.
LEMMA MapSound ==
    ASSUME NEW q, NEW s, NEW pm, NEW lt, NEW pm2, NEW lt2, Sound(q, s, pm, lt),
           \A a \in Addr : Has(q, a) => pm2[a] = pm[a] /\ lt2[a] = lt[a]
    PROVE  Sound(q, s, pm2, lt2)
BY DEF Sound, Has

-------------------------------------------------------------------------------
(* The Path ORAMs. *)

\* The contents of one Path ORAM change.
LEMMA MemUpdate ==
    ASSUME NEW cs \in Seq(Controller), NEW n \in DOMAIN cs, NEW m \in Contents,
           NEW cs2, cs2 = [cs EXCEPT ![n].mem = m]
    PROVE  /\ cs2 \in Seq(Controller)
           /\ Len(cs2) = Len(cs) /\ DOMAIN cs2 = DOMAIN cs
           /\ cs2[n].mem = m
           /\ \A k \in DOMAIN cs : k # n => cs2[k] = cs[k]
           /\ \A k \in DOMAIN cs : cs2[k].filled <=> cs[k].filled
<1>1. Len(cs) \in Nat /\ DOMAIN cs = 1..Len(cs)
  BY LenProperties
<1>2. cs[n] \in Controller
  BY ElementOfSeq, <1>1
<1> DEFINE d == [cs[n] EXCEPT !.mem = m]
<1>3. d \in Controller
  <2>1. d.id \in SlotIds /\ d.mem \in Contents
    BY <1>2 DEF Controller
  <2>2. d.filled \in BOOLEAN
    BY <1>2, Zenon DEF Controller
  <2>3. d = [id |-> d.id, filled |-> d.filled, mem |-> d.mem]
    BY <1>2 DEF Controller
  <2> HIDE DEF d
  <2> QED
    BY <2>1, <2>2, <2>3, Zenon DEF Controller
<1>4. d.mem = m /\ (d.filled <=> cs[n].filled)
  BY <1>2 DEF Controller
<1>5. cs2 = [cs EXCEPT ![n] = d]
  OBVIOUS
<1> HIDE DEF d
<1>6. cs2 \in Seq(Controller) /\ Len(cs2) = Len(cs) /\ DOMAIN cs2 = DOMAIN cs
  BY <1>1, <1>3, <1>5, ExceptSeq
<1>7. cs2[n] = d /\ \A k \in DOMAIN cs : k # n => cs2[k] = cs[k]
  BY <1>5
<1> QED
  BY <1>4, <1>6, <1>7

\* A Path ORAM is filled.
LEMMA FillUpdate ==
    ASSUME NEW cs \in Seq(Controller), NEW n \in DOMAIN cs, NEW m \in Contents,
           NEW cs2,
           cs2 = [cs EXCEPT ![n] = [id |-> @.id, filled |-> TRUE, mem |-> m]]
    PROVE  /\ cs2 \in Seq(Controller)
           /\ Len(cs2) = Len(cs) /\ DOMAIN cs2 = DOMAIN cs
           /\ cs2[n].filled /\ cs2[n].mem = m
           /\ \A k \in DOMAIN cs : k # n => cs2[k] = cs[k]
<1>1. Len(cs) \in Nat /\ DOMAIN cs = 1..Len(cs)
  BY LenProperties
<1>2. cs[n] \in Controller
  BY ElementOfSeq, <1>1
<1> DEFINE d == [id |-> cs[n].id, filled |-> TRUE, mem |-> m]
<1>3. d \in Controller
  <2>1. cs[n].id \in SlotIds
    BY <1>2 DEF Controller
  <2> QED
    BY <2>1, Zenon DEF Controller
<1>4. d.mem = m /\ d.filled = TRUE
  OBVIOUS
<1>5. cs2 = [cs EXCEPT ![n] = d]
  OBVIOUS
<1> HIDE DEF d
<1>6. cs2 \in Seq(Controller) /\ Len(cs2) = Len(cs) /\ DOMAIN cs2 = DOMAIN cs
  <2>1. n \in 1..Len(cs)
    BY <1>1
  <2>2. /\ [cs EXCEPT ![n] = d] \in Seq(Controller)
        /\ Len([cs EXCEPT ![n] = d]) = Len(cs)
    BY <1>3, <2>1, ExceptSeq, Zenon
  <2> QED
    BY <1>5, <2>2
<1>7. cs2[n] = d /\ \A k \in DOMAIN cs : k # n => cs2[k] = cs[k]
  BY <1>5
<1> QED
  BY <1>4, <1>6, <1>7

\* What is left of a Path ORAM's contents.
LEMMA RemainsSound ==
    ASSUME NEW m \in Contents, NEW n \in Remains(m)
    PROVE  n \in Contents /\ \A b \in Addr : n[b] \in {m[b], NoVal}
BY DEF Remains, Without, Contents

\* A write to, or a read of, a block that is there.
LEMMA EffectSound ==
    ASSUME NEW m \in Contents, NEW op, NEW a \in Addr, NEW v \in Data, m[a] # NoVal
    PROVE  /\ Effect(m, op, a, v) \in Contents
           /\ \A b \in Addr : b # a => Effect(m, op, a, v)[b] = m[b]
           /\ Effect(m, op, a, v)[a] = IF op = "kWrite" THEN v ELSE NoVal
BY DEF Effect, Contents, Data

\* What is true of every answer of a Path ORAM.
AnswerOK(r, c, op, a, v, dummy) ==
    /\ r.mem \in Contents /\ r.data \in Data
    /\ r.status = "kServerError" => faults < MaxFaults
    /\ \A b \in Addr : r.mem[b] # NoVal => c.mem[b] # NoVal
    /\ \A b \in Addr : dummy \/ b # a => r.mem[b] \in {c.mem[b], NoVal}
    /\ r.status = "kOK" => c.filled
    /\ r.status = "kOK" /\ ~dummy =>
          /\ c.mem[a] # NoVal /\ r.data = c.mem[a]
          /\ r.mem[a] = IF op = "kWrite" THEN v ELSE NoVal
    /\ c.filled /\ ~dummy /\ c.mem[a] # NoVal /\ r.status # "kOK" =>
          faults > 0 \/ r.status = "kServerError"

LEMMA AnswersSound ==
    ASSUME NEW c \in Controller, NEW op, NEW a, NEW v \in Data, NEW dummy \in BOOLEAN,
           ~dummy => a \in Addr, faults \in Nat,
           NEW r \in Answers(c, op, a, v, dummy)
    PROVE  AnswerOK(r, c, op, a, v, dummy)
<1> DEFINE m == c.mem
<1>1. m \in Contents /\ Garbage \in Data /\ NoVal \in Data
  BY DEF Controller, Data
<1>2. \A b \in Addr : m[b] \in Data
  BY <1>1 DEF Contents, Data
<1> HIDE DEF m
<1>3. CASE ~c.filled /\ r = Answer("kInvalidOperation", m, Garbage)
  BY <1>1, <1>3 DEF AnswerOK, Answer, m
<1>4. CASE c.filled /\ dummy /\ \E n \in Remains(m) : r = Answer("kOK", n, Garbage)
  <2> PICK n \in Remains(m) : r = Answer("kOK", n, Garbage)
    BY <1>4
  <2>1. r.status = "kOK" /\ r.mem = n /\ r.data = Garbage
    BY DEF Answer
  <2>2. n \in Contents /\ \A b \in Addr : n[b] \in {m[b], NoVal}
    BY <1>1, RemainsSound
  <2> QED
    BY <1>1, <1>4, <2>1, <2>2 DEF AnswerOK, m
<1>5. CASE c.filled /\ ~dummy /\ r = Answer("kObjectNotFound", m, Garbage)
           /\ (m[a] = NoVal \/ faults > 0)
  BY <1>1, <1>5 DEF AnswerOK, Answer, m
<1>6. CASE c.filled /\ ~dummy /\ m[a] # NoVal /\ r = Answer("kOK", Effect(m, op, a, v), m[a])
  <2>1. r.status = "kOK" /\ r.mem = Effect(m, op, a, v) /\ r.data = m[a]
    BY <1>6 DEF Answer
  <2>2. a \in Addr /\ m[a] \in Data
    BY <1>2, <1>6
  <2>3. /\ r.mem \in Contents
        /\ \A b \in Addr : b # a => r.mem[b] = m[b]
        /\ r.mem[a] = IF op = "kWrite" THEN v ELSE NoVal
    BY <1>1, <1>6, <2>1, <2>2, EffectSound
  <2> QED
    BY <1>6, <2>1, <2>2, <2>3 DEF AnswerOK, m
<1>7. CASE /\ c.filled /\ faults < MaxFaults
           /\ \E n \in Remains(m) : r = Answer("kServerError", n, Garbage)
  <2> PICK n \in Remains(m) : r = Answer("kServerError", n, Garbage)
    BY <1>7
  <2>1. r.status = "kServerError" /\ r.mem = n /\ r.data = Garbage
    BY DEF Answer
  <2>2. n \in Contents /\ \A b \in Addr : n[b] \in {m[b], NoVal}
    BY <1>1, RemainsSound
  <2> QED
    BY <1>1, <1>7, <2>1, <2>2 DEF AnswerOK, m
<1>8. CASE /\ c.filled /\ ~dummy /\ m[a] # NoVal /\ faults < MaxFaults
           /\ \E n \in Remains(Effect(m, op, a, v)) : r = Answer("kServerError", n, Garbage)
  <2> PICK n \in Remains(Effect(m, op, a, v)) : r = Answer("kServerError", n, Garbage)
    BY <1>8
  <2>1. r.status = "kServerError" /\ r.mem = n /\ r.data = Garbage
    BY DEF Answer
  <2> DEFINE e == Effect(m, op, a, v)
  <2>2. e \in Contents /\ \A b \in Addr : b # a => e[b] = m[b]
    BY <1>1, <1>8, EffectSound
  <2> HIDE DEF e
  <2>3. n \in Contents /\ \A b \in Addr : n[b] \in {e[b], NoVal}
    BY <2>2, RemainsSound DEF e
  <2> QED
    BY <1>1, <1>8, <2>1, <2>2, <2>3 DEF AnswerOK, m
<1> QED
  BY <1>3, <1>4, <1>5, <1>6, <1>7, <1>8 DEF Answers, NotFound, m
-------------------------------------------------------------------------------
(* The inductive invariant. *)

Controllers == DOMAIN controllers
Running == pc \in {"idle", "init", "evict"}

\* How many Path ORAMs there are, and what that bounds.
CountInv ==
    /\ Len(controllers) <= MaxControllers
    /\ pc = "init" => i < squared /\ Len(controllers) + (squared - i) <= MaxControllers
    /\ pc = "fill" => i < Len(controllers)
    /\ pc = "evict" => controllers # <<>>
    /\ \A a \in Addr : position_map[a] < Len(controllers) \/ position_map[a] = 0

\* Until a Run has answered an error there is at most one Path ORAM for each slot: the
\* server has the id of the first, so that a second Run answers one.
RunInv ==
    ~refused =>
        /\ pc = "init" =>
              \/ Len(controllers) = i /\ (i > 0 => owner[0] # 0)
              \/ Len(controllers) = squared /\ i = 0 /\ owner[0] # 0
        /\ pc # "init" => controllers = <<>> \/ (Len(controllers) = squared /\ owner[0] # 0)

\* No address is in two Path ORAMs, and one that was not filled is empty.
HomeInv ==
    /\ \A j, k \in Controllers : \A a \in Addr :
          controllers[j].mem[a] # NoVal /\ controllers[k].mem[a] # NoVal => j = k
    /\ \A k \in Controllers : ~controllers[k].filled => \A a \in Addr : controllers[k].mem[a] = NoVal

\* Nothing is lost before the first fill ends.
LostInv == (\A k \in Controllers : ~controllers[k].filled) \/ pc = "fill" => lost = {}

\* Between two iterations of the fill.
FillInv ==
    pc = "fill" =>
        /\ input \in Inputs /\ Len(input) = Len(controllers)
        /\ \A k \in Controllers : k <= i => controllers[k].filled
        /\ \A k \in Controllers : k <= i => controllers[k].mem = input[k]
        /\ \A k \in Controllers : k > i => ~controllers[k].filled
        /\ \A k \in Controllers : k <= i =>
              \A a \in Addr : input[k][a] # NoVal =>
                  latest[a] = input[k][a] /\ position_map[a] = k - 1
        /\ ~junked /\ i > 0 => \A s \in SlotIds : slots[s] = <<>>
        /\ ~junked => \A a \in Addr : latest[a] # NoVal =>
              InSlot(a) \/ \E k \in Controllers : k <= i /\ input[k][a] # NoVal

\* SlotsAgree, by slot.
SlotsInv ==
    ~junked /\ pc \notin {"aborted", "undefined"} =>
        \A s \in SlotIds : Sound(slots[s], s, position_map, latest)

\* StaleCopyHidden, for one address.
StaleAt(a) ==
    \A k \in Controllers :
        position_map[a] = k - 1 /\ controllers[k].filled /\ ~InSlot(a)
        => controllers[k].mem[a] \in {latest[a], NoVal}

\* What was stored and not dropped is in its slot or in its Path ORAM.
KeptAt(a) ==
    latest[a] # NoVal /\ a \notin lost /\ ~InSlot(a) =>
        \E k \in Controllers :
            position_map[a] = k - 1 /\ controllers[k].filled /\ controllers[k].mem[a] # NoVal

\* Both hold while Run works as well.
StaleInv == ~junked /\ Running => \A a \in Addr : StaleAt(a)
KeptInv == ~junked /\ Running => \A a \in Addr : KeptAt(a)

IInv ==
    /\ TypeOK /\ CountInv /\ RunInv /\ HomeInv /\ LostInv /\ FillInv /\ SlotsInv
    /\ StaleInv /\ KeptInv /\ UndefinedJustified

\* What every step has.
LEMMA Typed ==
    ASSUME TypeOK
    PROVE  /\ controllers \in Seq(Controller) /\ Len(controllers) \in Nat
           /\ Controllers = 1..Len(controllers)
           /\ controllers = <<>> <=> Len(controllers) = 0
           /\ \A k \in Controllers : controllers[k] \in Controller /\ controllers[k].mem \in Contents
           /\ \A s \in SlotIds : slots[s] \in Seq(Block)
           /\ \A a \in Addr : position_map[a] \in Nat /\ position_map[a] \in 0..(MaxControllers - 1)
           /\ i \in Nat /\ faults \in Nat /\ faults <= MaxFaults
           /\ \A s \in SlotIds : owner[s] \in Nat
<1>1. controllers \in Seq(Controller) /\ Len(controllers) \in Nat
      /\ Controllers = 1..Len(controllers)
  BY LenProperties DEF TypeOK, Controller, Controllers
<1>2. controllers = <<>> <=> Len(controllers) = 0
  BY <1>1, EmptySeq
<1>3. \A k \in Controllers : controllers[k] \in Controller
  BY <1>1, ElementOfSeq
<1>4. \A k \in Controllers : controllers[k].mem \in Contents
  BY <1>3 DEF Controller
<1>5. \A s \in SlotIds : slots[s] \in Seq(Block) /\ owner[s] \in 0..(MaxControllers + 1)
  BY DEF TypeOK
<1>6. \A a \in Addr : position_map[a] \in 0..(MaxControllers - 1)
  BY DEF TypeOK
<1>7. i \in Nat /\ faults \in 0..MaxFaults
  BY DEF TypeOK
<1> QED
  BY <1>1, <1>2, <1>3, <1>4, <1>5, <1>6, <1>7, Bounds

LEMMA InitInv == Init => IInv
<1> SUFFICES ASSUME Init
             PROVE  IInv
  OBVIOUS
<1>1. controllers = <<>> /\ pc = "idle" /\ refused = FALSE /\ junked = FALSE /\ lost = {}
      /\ latest = Empty /\ slots = [s \in SlotIds |-> <<>>]
      /\ position_map = [a \in Addr |-> 0]
  BY DEF Init
<1>2. TypeOK
  <2>1. controllers \in Seq([id : SlotIds, filled : BOOLEAN, mem : Contents])
        /\ \A s \in SlotIds : slots[s] \in Seq(Block)
    BY <1>1, EmptySeq
  <2>2. owner \in [SlotIds -> 0..(MaxControllers + 1)]
        /\ position_map \in [Addr -> 0..(MaxControllers - 1)] /\ faults \in 0..MaxFaults
    BY Bounds DEF Init
  <2>3. call \in [op : {"kRead", "kWrite"}, address : Addr]
    <3>1. (CHOOSE a \in Addr : TRUE) \in Addr
      BY PartitionAssumption
    <3> QED
      BY <3>1 DEF Init
  <2>4. latest \in Contents /\ slots \in [SlotIds -> Seq(Block)]
    BY <1>1, <2>1 DEF Contents, Empty
  <2> QED
    BY <2>1, <2>2, <2>3, <2>4 DEF Init, TypeOK
<1>3. Len(controllers) = 0 /\ Controllers = {}
  BY <1>1, EmptySeq DEF Controllers
<1>4. CountInv
  BY <1>1, <1>3, Bounds DEF CountInv
<1>5. \A s \in SlotIds : Sound(slots[s], s, position_map, latest)
  BY <1>1 DEF Sound
<1>6. \A a \in Addr : latest[a] = NoVal
  BY <1>1 DEF Empty
<1> QED
  BY <1>1, <1>2, <1>3, <1>4, <1>5, <1>6
     DEF IInv, RunInv, HomeInv, LostInv, FillInv, SlotsInv, StaleInv, KeptInv, StaleAt, KeptAt,
         UndefinedJustified
-------------------------------------------------------------------------------
(* A call of a Path ORAM is answered. *)

\* Controller k (counted from 0) gives answer r.
LEMMA AnswerStep ==
    ASSUME IInv, NEW k \in Valid, NEW r, NEW op, NEW a, NEW v, NEW dummy, NEW read,
           AnswerOK(r, controllers[k + 1], op, a, v, dummy), Answered(k, r, read),
           pc # "fill", pc' # "fill"
    PROVE  /\ k \in Nat /\ k + 1 \in Controllers
           /\ controllers' \in Seq(Controller)
           /\ Len(controllers') = Len(controllers) /\ Controllers' = Controllers
           /\ controllers'[k + 1].mem = r.mem
           /\ \A n \in Controllers : n # k + 1 => controllers'[n].mem = controllers[n].mem
           /\ \A n \in Controllers : controllers'[n].filled <=> controllers[n].filled
           /\ faults' \in 0..MaxFaults /\ faults' >= faults
           /\ r.status = "kServerError" => faults' > 0
           /\ lost' \subseteq Addr /\ \A b \in lost : b \in lost'
           /\ \A b \in Addr : controllers[k + 1].mem[b] # NoVal /\ r.mem[b] = NoVal =>
                 b \in lost' \/ (b = read /\ r.status = "kOK")
           /\ HomeInv' /\ LostInv'
<1>1. TypeOK /\ HomeInv /\ LostInv
  BY DEF IInv
<1>2. k \in Nat /\ k + 1 \in Controllers
  BY <1>1, Typed, Bounds DEF Valid, SlotIds
<1>3. r.mem \in Contents /\ \A b \in Addr : r.mem[b] # NoVal => controllers[k + 1].mem[b] # NoVal
  BY DEF AnswerOK
<1>4. /\ controllers' \in Seq(Controller)
      /\ Len(controllers') = Len(controllers) /\ Controllers' = Controllers
      /\ controllers'[k + 1].mem = r.mem
      /\ \A n \in Controllers : n # k + 1 => controllers'[n] = controllers[n]
      /\ \A n \in Controllers : controllers'[n].filled <=> controllers[n].filled
  <2>1. controllers \in Seq(Controller) /\ k + 1 \in DOMAIN controllers
    BY <1>1, <1>2, Typed DEF Controllers
  <2>2. controllers' = [controllers EXCEPT ![k + 1].mem = r.mem]
    BY DEF Answered
  <2> QED
    BY <1>3, <2>1, <2>2, MemUpdate DEF Controllers
<1>5. \A n \in Controllers : n # k + 1 => controllers'[n].mem = controllers[n].mem
  BY <1>4
<1>6. faults' \in 0..MaxFaults /\ faults' >= faults /\ (r.status = "kServerError" => faults' > 0)
  <2>1. faults \in Nat /\ faults <= MaxFaults
    BY <1>1, Typed
  <2>2. r.status = "kServerError" => faults < MaxFaults
    BY DEF AnswerOK
  <2>3. faults' = IF r.status = "kServerError" THEN faults + 1 ELSE faults
    BY DEF Answered
  <2> QED
    BY <2>1, <2>2, <2>3, Bounds
<1>7. lost' = lost \cup {b \in Stored(controllers[k + 1].mem) :
                             r.mem[b] = NoVal /\ ~(b = read /\ r.status = "kOK")}
  BY DEF Answered
<1>8. lost' \subseteq Addr /\ \A b \in lost : b \in lost'
  BY <1>1, <1>7 DEF TypeOK, Stored
<1>9. \A b \in Addr : controllers[k + 1].mem[b] # NoVal /\ r.mem[b] = NoVal =>
          b \in lost' \/ (b = read /\ r.status = "kOK")
  BY <1>7 DEF Stored
<1>10. \A n \in Controllers : \A b \in Addr :
          controllers'[n].mem[b] # NoVal => controllers[n].mem[b] # NoVal
  BY <1>3, <1>4, <1>5
<1>11. HomeInv'
  BY <1>1, <1>4, <1>10 DEF HomeInv
<1>12. LostInv'
  <2> SUFFICES ASSUME \A n \in Controllers : ~controllers[n].filled
               PROVE  lost' = {}
    BY <1>4 DEF LostInv
  <2>1. lost = {}
    BY <1>1 DEF LostInv
  <2>2. \A b \in Addr : controllers[k + 1].mem[b] = NoVal
    BY <1>1, <1>2 DEF HomeInv
  <2> QED
    BY <1>7, <2>1, <2>2 DEF Stored
<1> QED
  BY <1>2, <1>4, <1>5, <1>6, <1>8, <1>9, <1>11, <1>12

\* An address that the call is not about.
LEMMA OtherStep ==
    ASSUME IInv, ~junked, Running, NEW b \in Addr, Controllers' = Controllers,
           \A n \in Controllers : controllers'[n].filled <=> controllers[n].filled,
           \A n \in Controllers : controllers'[n].mem[b] \in {controllers[n].mem[b], NoVal},
           \A n \in Controllers :
               controllers[n].mem[b] # NoVal /\ controllers'[n].mem[b] = NoVal => b \in lost',
           b \in lost => b \in lost',
           position_map'[b] = position_map[b], latest'[b] = latest[b],
           InSlot(b)' <=> InSlot(b)
    PROVE  StaleAt(b)' /\ KeptAt(b)'
<1>1. StaleAt(b) /\ KeptAt(b)
  BY DEF IInv, StaleInv, KeptInv
<1>2. StaleAt(b)'
  BY <1>1 DEF StaleAt
<1>3. KeptAt(b)'
  <2> SUFFICES ASSUME latest[b] # NoVal, b \notin lost', ~InSlot(b)
               PROVE  \E n \in Controllers' : /\ position_map'[b] = n - 1
                                              /\ controllers'[n].filled
                                              /\ controllers'[n].mem[b] # NoVal
    BY DEF KeptAt
  <2>1. PICK n \in Controllers : /\ position_map[b] = n - 1 /\ controllers[n].filled
                                 /\ controllers[n].mem[b] # NoVal
    BY <1>1 DEF KeptAt
  <2>2. controllers'[n].filled /\ controllers'[n].mem[b] # NoVal
    BY <2>1
  <2> QED
    BY <2>1, <2>2
<1> QED
  BY <1>2, <1>3
-------------------------------------------------------------------------------
(* An access. *)

\* A block of address a joins slot new, when no slot has one.
LEMMA FinishStep ==
    ASSUME NEW a \in Addr, NEW new \in SlotIds, NEW b \in Block, b.id = a,
           NEW rest \in [SlotIds -> Seq(Block)],
           slots' = [rest EXCEPT ![new] = Append(@, b)],
           position_map \in [Addr -> Nat], position_map' = NewPosition(a, new),
           \A s \in SlotIds : Sound(rest[s], s, position_map, latest) /\ ~Has(rest[s], a),
           \A s \in SlotIds : \A c \in Addr : c # a => (Has(rest[s], c) <=> Has(slots[s], c)),
           latest'[a] = b.data, \A c \in Addr : c # a => latest'[c] = latest[c]
    PROVE  /\ \A s \in SlotIds : Sound(slots'[s], s, position_map', latest')
           /\ InSlot(a)'
           /\ \A c \in Addr : c # a => position_map'[c] = position_map[c]
           /\ \A c \in Addr : c # a => (InSlot(c)' <=> InSlot(c))
<1>1. position_map'[a] = new /\ \A c \in Addr : c # a => position_map'[c] = position_map[c]
  BY DEF NewPosition
<1>2. slots'[new] = Append(rest[new], b) /\ \A s \in SlotIds : s # new => slots'[s] = rest[s]
  OBVIOUS
<1>3. \A s \in SlotIds : rest[s] \in Seq(Block)
  OBVIOUS
<1>4. \A s \in SlotIds : Sound(rest[s], s, position_map', latest')
  <2> SUFFICES ASSUME NEW s \in SlotIds
               PROVE  Sound(rest[s], s, position_map', latest')
    OBVIOUS
  <2>1. \A c \in Addr : Has(rest[s], c) =>
            position_map'[c] = position_map[c] /\ latest'[c] = latest[c]
    BY <1>1
  <2>2. Sound(rest[s], s, position_map, latest)
    OBVIOUS
  <2> QED
    BY <2>1, <2>2, MapSound
<1>5. Sound(slots'[new], new, position_map', latest')
  <2>1. rest[new] \in Seq(Block) /\ ~Has(rest[new], b.id)
        /\ Sound(rest[new], new, position_map', latest')
    BY <1>3, <1>4
  <2>2. b.id \in Addr /\ position_map'[b.id] = new /\ latest'[b.id] = b.data
    BY <1>1
  <2> QED
    BY <1>2, <2>1, <2>2, AppendSound
<1>6. \A s \in SlotIds : Sound(slots'[s], s, position_map', latest')
  BY <1>2, <1>4, <1>5
<1>7. \A c : Has(slots'[new], c) <=> Has(rest[new], c) \/ b.id = c
  BY <1>2, <1>3, AppendHas
<1>8. \A s \in SlotIds : \A c \in Addr : c # a => (Has(slots'[s], c) <=> Has(slots[s], c))
  BY <1>2, <1>7
<1>9. InSlot(a)'
  BY <1>1, <1>7 DEF InSlot
<1>10. \A c \in Addr : c # a => (InSlot(c)' <=> InSlot(c))
  BY <1>1, <1>8 DEF InSlot
<1> QED
  BY <1>1, <1>6, <1>9, <1>10

\* What an access has when it begins.
LEMMA BeginStep ==
    ASSUME IInv, NEW op \in {"kRead", "kWrite"}, NEW a \in Addr, NEW new, BeginAccess(op, a, new)
    PROVE  /\ pc = "idle" /\ Len(controllers) > 0
           /\ position_map[a] \in Nat /\ position_map[a] < Len(controllers)
           /\ new \in Nat /\ new < Len(controllers) /\ new \in 0..(MaxControllers - 1)
           /\ Len(controllers) <= MaxControllers
           /\ position_map \in [Addr -> Nat]
           /\ position_map' \in [Addr -> 0..(MaxControllers - 1)]
           /\ \A c \in Addr : position_map'[c] < Len(controllers)
           /\ call' \in [op : {"kRead", "kWrite"}, address : Addr] /\ call'.address = a
           /\ owner' = owner /\ nu' = nu /\ is_initialized' = is_initialized
           /\ input' = input /\ refused' = refused
<1>1. TypeOK /\ CountInv
  BY DEF IInv
<1>2. pc = "idle" /\ Len(controllers) > 0 /\ new \in 0..(Len(controllers) - 1)
  BY <1>1, Typed DEF BeginAccess, Sampled
<1>3. Len(controllers) <= MaxControllers
      /\ \A c \in Addr : position_map[c] < Len(controllers)
  BY <1>1, <1>2, Typed DEF CountInv
<1>4. new \in Nat /\ new < Len(controllers) /\ new \in 0..(MaxControllers - 1)
  BY <1>1, <1>2, <1>3, Typed, Bounds
<1>5. position_map \in [Addr -> 0..(MaxControllers - 1)]
  BY <1>1 DEF TypeOK
<1>6. /\ position_map' \in [Addr -> 0..(MaxControllers - 1)]
      /\ \A c \in Addr : position_map'[c] < Len(controllers)
  BY <1>3, <1>4, <1>5 DEF BeginAccess, NewPosition
<1>7. position_map \in [Addr -> Nat]
  BY <1>5, Bounds
<1>8. call' \in [op : {"kRead", "kWrite"}, address : Addr] /\ call'.address = a
  BY DEF BeginAccess
<1> QED
  BY <1>1, <1>2, <1>3, <1>4, <1>6, <1>7, <1>8, Typed DEF BeginAccess

\* The access was answered: what remains of IInv once slots and junked are known.
LEMMA AccessStep ==
    ASSUME IInv, NEW op \in {"kRead", "kWrite"}, NEW a \in Addr, NEW v \in Arguments(op),
           NEW new, BeginAccess(op, a, new),
           NEW k \in Valid, NEW r, NEW w, NEW dummy, NEW read, NEW how,
           AnswerOK(r, controllers[k + 1], how, a, w, dummy), Answered(k, r, read),
           NEW b \in Block, NEW rest \in [SlotIds -> Seq(Block)],
           new \in SlotIds, Finish(op, a, v, new, b, rest),
           junked' \in BOOLEAN, junked => junked', read \in {a, NoAddr},
           ~junked' =>
               /\ op = "kRead" => b.id = a /\ b.data = latest[a]
               /\ \A s \in SlotIds : Sound(rest[s], s, position_map, latest) /\ ~Has(rest[s], a)
               /\ \A s \in SlotIds : \A c \in Addr :
                      c # a => (Has(rest[s], c) <=> Has(slots[s], c))
    PROVE  IInv'
<1> DEFINE d == IF op = "kWrite" THEN [id |-> a, data |-> v] ELSE b
<1>1. TypeOK /\ CountInv /\ RunInv /\ pc = "idle"
  BY BeginStep DEF IInv
<1>2. pc' = "evict" /\ i' = 0 /\ status' = "none"
      /\ slots' = [rest EXCEPT ![new] = Append(@, d)]
      /\ buffer' = (IF op = "kWrite" THEN v ELSE b.data)
      /\ latest' = (IF op = "kWrite" THEN [latest EXCEPT ![a] = v] ELSE latest)
  BY DEF Finish
<1>3. /\ controllers' \in Seq(Controller)
      /\ Len(controllers') = Len(controllers) /\ Controllers' = Controllers
      /\ faults' \in 0..MaxFaults /\ lost' \subseteq Addr /\ HomeInv' /\ LostInv'
  BY <1>1, <1>2, AnswerStep
<1>4. op = "kWrite" => v \in Val
  BY DEF Arguments
<1>5. d \in Block
  BY <1>4 DEF Block
<1>6. b.data \in Val \cup {NoVal, Garbage}
  BY DEF Block
<1> HIDE DEF d
<1>7. TypeOK'
  <2>1. \A s \in SlotIds : slots'[s] \in Seq(Block)
    BY <1>2, <1>5, AppendProperties
  <2>2. slots' \in [SlotIds -> Seq(Block)]
    BY <1>2, <2>1
  <2>3. latest' \in Contents
    BY <1>1, <1>2, <1>4 DEF TypeOK, Contents
  <2>4. buffer' \in Val \cup {NoVal, Garbage}
    BY <1>2, <1>4, <1>6
  <2>5. controllers' \in Seq([id : SlotIds, filled : BOOLEAN, mem : Contents])
    BY <1>3 DEF Controller
  <2>6. /\ position_map' \in [Addr -> 0..(MaxControllers - 1)]
        /\ call' \in [op : {"kRead", "kWrite"}, address : Addr]
    BY BeginStep
  <2>7. /\ owner' \in [SlotIds -> 0..(MaxControllers + 1)] /\ nu' \in NuValues
        /\ is_initialized' \in BOOLEAN /\ refused' \in BOOLEAN
    BY <1>1, Zenon DEF TypeOK, BeginAccess
  <2> QED
    BY <1>2, <1>3, <2>2, <2>3, <2>4, <2>5, <2>6, <2>7 DEF TypeOK
<1>8. CountInv'
  <2>1. Len(controllers') > 0 /\ Len(controllers') <= MaxControllers
        /\ \A c \in Addr : position_map'[c] < Len(controllers')
    BY <1>3, BeginStep
  <2>2. controllers' # <<>>
    BY <1>3, <2>1, EmptySeq
  <2> QED
    BY <1>2, <2>1, <2>2 DEF CountInv
<1>9. RunInv'
  <2>1. refused' = refused /\ owner' = owner /\ Len(controllers) > 0
    BY BeginStep
  <2> QED
    BY <1>1, <1>2, <1>3, <2>1, EmptySeq DEF RunInv
<1>10. CASE junked'
  BY <1>2, <1>3, <1>7, <1>8, <1>9, <1>10
     DEF IInv, FillInv, SlotsInv, StaleInv, KeptInv, UndefinedJustified
<1>11. CASE ~junked'
  <2>1. /\ ~junked /\ Running
        /\ \A s \in SlotIds : Sound(rest[s], s, position_map, latest) /\ ~Has(rest[s], a)
        /\ \A s \in SlotIds : \A c \in Addr : c # a => (Has(rest[s], c) <=> Has(slots[s], c))
    BY <1>1, <1>11 DEF Running
  <2>2. d.id = a /\ latest'[a] = d.data /\ \A c \in Addr : c # a => latest'[c] = latest[c]
    BY <1>1, <1>2, <1>11 DEF TypeOK, Contents, d
  <2>3. position_map \in [Addr -> Nat] /\ position_map' = NewPosition(a, new)
    BY BeginStep DEF BeginAccess
  <2>4. /\ \A s \in SlotIds : Sound(slots'[s], s, position_map', latest')
        /\ InSlot(a)'
        /\ \A c \in Addr : c # a => position_map'[c] = position_map[c]
        /\ \A c \in Addr : c # a => (InSlot(c)' <=> InSlot(c))
    BY <1>2, <1>5, <2>1, <2>2, <2>3, FinishStep
  <2>5. ASSUME NEW c \in Addr
        PROVE  StaleAt(c)' /\ KeptAt(c)'
    <3>1. CASE c = a
      BY <2>4, <3>1 DEF StaleAt, KeptAt
    <3>2. CASE c # a
      <4>1. c # read
        BY <3>2, Bounds
      <4>2. /\ position_map'[c] = position_map[c] /\ latest'[c] = latest[c]
            /\ InSlot(c)' <=> InSlot(c)
        BY <2>2, <2>4, <3>2
      <4> QED
        <5>1. /\ \A n \in Controllers : n # k + 1 => controllers'[n].mem = controllers[n].mem
              /\ \A n \in Controllers : controllers'[n].filled <=> controllers[n].filled
              /\ controllers'[k + 1].mem = r.mem
              /\ \A e \in lost : e \in lost'
              /\ \A e \in Addr : controllers[k + 1].mem[e] # NoVal /\ r.mem[e] = NoVal =>
                    e \in lost' \/ (e = read /\ r.status = "kOK")
          BY <1>1, <1>2, AnswerStep
        <5>2. r.mem[c] \in {controllers[k + 1].mem[c], NoVal}
          BY <3>2 DEF AnswerOK
        <5>3. \A n \in Controllers : controllers'[n].mem[c] \in {controllers[n].mem[c], NoVal}
          BY <5>1, <5>2
        <5>4. \A n \in Controllers :
                  controllers[n].mem[c] # NoVal /\ controllers'[n].mem[c] = NoVal => c \in lost'
          BY <4>1, <5>1
        <5> QED
          BY <1>3, <2>1, <4>2, <5>1, <5>3, <5>4, OtherStep
    <3> QED
      BY <3>1, <3>2
  <2>6. SlotsInv' /\ StaleInv' /\ KeptInv'
    BY <2>4, <2>5 DEF SlotsInv, StaleInv, KeptInv
  <2> QED
    BY <1>2, <1>3, <1>7, <1>8, <1>9, <2>6 DEF IInv, FillInv, UndefinedJustified
<1> QED
  BY <1>10, <1>11
\* The first of a set of indices.
LEMMA FirstIn ==
    ASSUME NEW S \in SUBSET Nat, S # {}
    PROVE  First(S) \in S
<1> DEFINE R == OpToRel(<, Nat)
<1>1. IsWellFoundedOn(R, Nat)
  BY NatLessThanWellFounded
<1>2. R = {ss \in Nat \X Nat : ss[1] < ss[2]}
  BY DEF OpToRel
<1> HIDE DEF R
<1>3. PICK x \in S : \A y \in S : <<y, x>> \notin R
  BY <1>1, WFMin
<1>4. ASSUME NEW y \in S
      PROVE  x <= y
  <2>1. x \in Nat /\ y \in Nat /\ <<y, x>> \notin R
    BY <1>3
  <2>2. ASSUME y < x
        PROVE  FALSE
    <3>1. <<y, x>> \in {ss \in Nat \X Nat : ss[1] < ss[2]}
      BY <2>1, <2>2
    <3> QED
      BY <1>2, <2>1, <3>1
  <2> QED
    BY <2>1, <2>2
<1> QED
  BY <1>4 DEF First

\* No other slot has a block of an address than the one the map names.
LEMMA OneSlot ==
    ASSUME TypeOK, SlotsInv, pc = "idle", ~junked, NEW a \in Addr, NEW s \in SlotIds, Has(slots[s], a)
    PROVE  position_map[a] = s
BY DEF SlotsInv, Sound, Has

LEMMA AccessControllerStep ==
    ASSUME IInv, NEW op \in {"kRead", "kWrite"}, NEW a \in Addr, NEW v \in Arguments(op),
           NEW new, AccessController(op, a, v, new)
    PROVE  IInv'
<1> DEFINE s == position_map[a]
           read == IF op = "kRead" THEN a ELSE NoAddr
<1>1. /\ BeginAccess(op, a, new) /\ s \in Valid /\ new \in Valid /\ Matches(s, a) = {}
  BY DEF AccessController
<1>2. TypeOK /\ SlotsInv /\ StaleInv /\ pc = "idle"
  BY <1>1, BeginStep DEF IInv
<1>3. PICK junk \in Junk : \E r \in Answers(controllers[s + 1], op, a, junk.data, FALSE) :
          /\ Answered(s, r, read)
          /\ Finish(op, a, v, new,
                    IF r.status = "kOK" THEN [id |-> a, data |-> r.data] ELSE junk, slots)
          /\ junked' = (junked \/ (op = "kRead" /\ r.status # "kOK"))
  BY DEF AccessController
<1>4. PICK r \in Answers(controllers[s + 1], op, a, junk.data, FALSE) :
          /\ Answered(s, r, read)
          /\ Finish(op, a, v, new,
                    IF r.status = "kOK" THEN [id |-> a, data |-> r.data] ELSE junk, slots)
          /\ junked' = (junked \/ (op = "kRead" /\ r.status # "kOK"))
  BY <1>3
<1> DEFINE b == IF r.status = "kOK" THEN [id |-> a, data |-> r.data] ELSE junk
<1>5. junk.data \in Data /\ junk \in Block
  BY DEF Junk, Data, Block
<1>6. s \in SlotIds /\ new \in SlotIds /\ s \in Nat /\ s + 1 \in Controllers
  BY <1>1, <1>2, Typed, BeginStep DEF Valid
<1>7. AnswerOK(r, controllers[s + 1], op, a, junk.data, FALSE)
  <2>1. controllers[s + 1] \in Controller /\ faults \in Nat
    BY <1>2, <1>6, Typed
  <2> QED
    BY <1>5, <2>1, AnswersSound
<1>8. b \in Block
  <2>1. r.data \in Data
    BY <1>7 DEF AnswerOK
  <2> QED
    BY <1>5, <2>1 DEF Block, Data
<1>9. slots \in [SlotIds -> Seq(Block)] /\ junked \in BOOLEAN
  BY <1>2 DEF TypeOK
<1>10. junked' \in BOOLEAN /\ (junked => junked')
  BY <1>4
<1>11. ASSUME ~junked'
       PROVE  /\ op = "kRead" => b.id = a /\ b.data = latest[a]
              /\ \A t \in SlotIds : Sound(slots[t], t, position_map, latest) /\ ~Has(slots[t], a)
              /\ \A t \in SlotIds : \A c \in Addr :
                     c # a => (Has(slots[t], c) <=> Has(slots[t], c))
  <2>1. ~junked /\ (op = "kRead" => r.status = "kOK")
    BY <1>4, <1>11
  <2>2. \A t \in SlotIds : Sound(slots[t], t, position_map, latest)
    BY <1>2, <2>1 DEF SlotsInv
  <2>3. ~Has(slots[s], a)
    BY <1>1, MatchesHas
  <2>4. \A t \in SlotIds : ~Has(slots[t], a)
    BY <1>2, <2>1, <2>3, OneSlot
  <2>5. ASSUME op = "kRead"
        PROVE  b.id = a /\ b.data = latest[a]
    <3>1. /\ controllers[s + 1].filled /\ controllers[s + 1].mem[a] # NoVal
          /\ r.data = controllers[s + 1].mem[a]
      BY <1>7, <2>1, <2>5 DEF AnswerOK
    <3>2. StaleAt(a) /\ ~InSlot(a)
      BY <1>2, <2>1, <2>3 DEF StaleInv, Running, InSlot
    <3>3. position_map[a] = (s + 1) - 1
      BY <1>6
    <3>4. controllers[s + 1].mem[a] = latest[a]
      BY <1>6, <3>1, <3>2, <3>3 DEF StaleAt
    <3> QED
      BY <2>1, <2>5, <3>1, <3>4
  <2> QED
    BY <2>2, <2>4, <2>5
<1>12. read \in {a, NoAddr}
  OBVIOUS
<1>13. Answered(s, r, read) /\ Finish(op, a, v, new, b, slots)
  BY <1>4
<1> HIDE DEF s, b, read
<1> QED
  BY <1>1, <1>6, <1>7, <1>8, <1>9, <1>10, <1>11, <1>12, <1>13, AccessStep

LEMMA AccessSlotStep ==
    ASSUME IInv, NEW op \in {"kRead", "kWrite"}, NEW a \in Addr, NEW v \in Arguments(op),
           NEW new, AccessSlot(op, a, v, new)
    PROVE  IInv'
<1> DEFINE s == position_map[a]
           j == First(Matches(s, a))
           rest == [slots EXCEPT ![s] = RemoveAt(@, j)]
           b == slots[s][j]
<1>1. BeginAccess(op, a, new) /\ s \in Valid /\ new \in Valid /\ Matches(s, a) # {}
      /\ junked' = junked
  BY DEF AccessSlot
<1>2. TypeOK /\ SlotsInv /\ pc = "idle" /\ CountInv /\ RunInv
  BY <1>1, BeginStep DEF IInv
<1>3. PICK r \in Answers(controllers[s + 1], "kRead", a, Garbage, TRUE) :
          /\ Answered(s, r, NoAddr)
          /\ \/ r.status = "kOK" /\ Finish(op, a, v, new, b, rest)
             \/ /\ r.status # "kOK" /\ Stop("aborted")
                /\ UNCHANGED <<slots, buffer, latest>>
  BY DEF AccessSlot
<1>4. s \in SlotIds /\ new \in SlotIds /\ s \in Nat /\ s + 1 \in Controllers
  BY <1>1, <1>2, Typed, BeginStep DEF Valid
<1>5. AnswerOK(r, controllers[s + 1], "kRead", a, Garbage, TRUE)
  <2>1. controllers[s + 1] \in Controller /\ faults \in Nat /\ Garbage \in Data
    BY <1>2, <1>4, Typed DEF Data
  <2> QED
    BY <2>1, AnswersSound
<1>6. slots \in [SlotIds -> Seq(Block)] /\ slots[s] \in Seq(Block) /\ junked \in BOOLEAN
  BY <1>2, <1>4 DEF TypeOK
<1>7. j \in DOMAIN slots[s] /\ b.id = a
  <2>1. DOMAIN slots[s] = 1..Len(slots[s]) /\ Len(slots[s]) \in Nat
    BY <1>6, LenProperties
  <2>2. Matches(s, a) \in SUBSET Nat
    BY <2>1 DEF Matches
  <2>3. First(Matches(s, a)) \in Matches(s, a)
    BY <1>1, <2>2, FirstIn
  <2> QED
    BY <2>3 DEF Matches
<1>8. b \in Block
  BY <1>6, <1>7, ElementOfSeq, LenProperties
<1> HIDE DEF j, b
<1>9. /\ RemoveAt(slots[s], j) \in Seq(Block)
      /\ \A c : Has(RemoveAt(slots[s], j), c) => Has(slots[s], c)
      /\ \A c : c # a /\ Has(slots[s], c) => Has(RemoveAt(slots[s], j), c)
      /\ Sound(slots[s], s, position_map, latest) =>
            Sound(RemoveAt(slots[s], j), s, position_map, latest) /\ ~Has(RemoveAt(slots[s], j), a)
  <2>1. slots[s][j].id = a
    BY <1>7 DEF b
  <2> DEFINE q == slots[s]
             t == RemoveAt(q, j)
  <2>2. q \in Seq(Block) /\ j \in DOMAIN q /\ t = RemoveAt(q, j)
    BY <1>6, <1>7
  <2> HIDE DEF q, t
  <2>3. /\ t \in Seq(Block)
        /\ \A c : Has(t, c) => Has(q, c)
        /\ \A c : c # q[j].id /\ Has(q, c) => Has(t, c)
        /\ Sound(q, s, position_map, latest) =>
              Sound(t, s, position_map, latest) /\ ~Has(t, q[j].id)
    BY <2>2, RemoveSound
  <2>4. q[j].id = a
    BY <2>1 DEF q
  <2> QED
    BY <2>3, <2>4 DEF q, t
<1>10. rest \in [SlotIds -> Seq(Block)] /\ rest[s] = RemoveAt(slots[s], j)
       /\ \A t \in SlotIds : t # s => rest[t] = slots[t]
  BY <1>4, <1>6, <1>9
<1> HIDE DEF rest
<1>11. CASE r.status = "kOK" /\ Finish(op, a, v, new, b, rest)
  <2>1. junked' \in BOOLEAN /\ (junked => junked')
    BY <1>1, <1>6
  <2>2. ASSUME ~junked'
        PROVE  /\ op = "kRead" => b.id = a /\ b.data = latest[a]
               /\ \A t \in SlotIds : Sound(rest[t], t, position_map, latest) /\ ~Has(rest[t], a)
               /\ \A t \in SlotIds : \A c \in Addr :
                      c # a => (Has(rest[t], c) <=> Has(slots[t], c))
    <3>1. ~junked
      BY <1>1, <2>2
    <3>2. \A t \in SlotIds : Sound(slots[t], t, position_map, latest)
      BY <1>2, <3>1 DEF SlotsInv
    <3>3. \A t \in SlotIds : t # s => ~Has(slots[t], a)
      BY <1>2, <3>1, OneSlot
    <3>4. b.data = latest[a]
      BY <1>4, <1>7, <3>2 DEF Sound, b
    <3>5. \A t \in SlotIds : Sound(rest[t], t, position_map, latest) /\ ~Has(rest[t], a)
      BY <1>4, <1>9, <1>10, <3>2, <3>3
    <3>6. \A t \in SlotIds : \A c \in Addr : c # a => (Has(rest[t], c) <=> Has(slots[t], c))
      BY <1>9, <1>10
    <3> QED
      BY <1>7, <3>4, <3>5, <3>6
  <2>3. Answered(s, r, NoAddr) /\ NoAddr \in {a, NoAddr}
    BY <1>3
  <2> HIDE DEF s
  <2> QED
    BY <1>1, <1>4, <1>5, <1>8, <1>10, <1>11, <2>1, <2>2, <2>3, AccessStep
<1>12. CASE /\ r.status # "kOK" /\ Stop("aborted")
            /\ UNCHANGED <<slots, buffer, latest>>
  <2>1. pc' = "aborted" /\ i' = i /\ status' = status /\ UNCHANGED <<slots, buffer, latest>>
    BY <1>12 DEF Stop
  <2>2. /\ controllers' \in Seq(Controller)
        /\ Len(controllers') = Len(controllers) /\ Controllers' = Controllers
        /\ faults' \in 0..MaxFaults /\ lost' \subseteq Addr /\ HomeInv' /\ LostInv'
    BY <1>1, <1>2, <1>3, <1>5, <2>1, AnswerStep
  <2>3. /\ position_map' \in [Addr -> 0..(MaxControllers - 1)]
        /\ call' \in [op : {"kRead", "kWrite"}, address : Addr]
        /\ \A c \in Addr : position_map'[c] < Len(controllers)
        /\ owner' = owner /\ nu' = nu /\ is_initialized' = is_initialized /\ refused' = refused
        /\ Len(controllers) > 0
    BY <1>1, BeginStep
  <2>4. TypeOK'
    <3>1. controllers' \in Seq([id : SlotIds, filled : BOOLEAN, mem : Contents])
      BY <2>2 DEF Controller
    <3>2. junked' \in BOOLEAN /\ refused' \in BOOLEAN /\ is_initialized' \in BOOLEAN
      BY <1>1, <1>2, <2>3, Zenon DEF TypeOK
    <3> QED
      BY <1>2, <2>1, <2>2, <2>3, <3>1, <3>2 DEF TypeOK
  <2>5. CountInv' /\ RunInv'
    BY <1>2, <2>1, <2>2, <2>3, EmptySeq DEF CountInv, RunInv
  <2> QED
    BY <2>1, <2>2, <2>4, <2>5
       DEF IInv, FillInv, SlotsInv, StaleInv, KeptInv, UndefinedJustified, Running
<1> QED
  BY <1>3, <1>11, <1>12
\* A number that is no slot, though there is a controller for it.
LEMMA OutOfRange ==
    ASSUME IInv, pc \in {"idle", "evict"}, NEW p \in Nat, p < Len(controllers), p \notin Valid
    PROVE  Len(controllers) > squared /\ refused
<1>1. TypeOK /\ RunInv
  BY DEF IInv
<1>2. Len(controllers) \in Nat
  BY <1>1, Typed
<1>3. p \notin 0..(squared - 1)
  BY <1>2 DEF Valid, SlotIds
<1>4. Len(controllers) > squared
  BY <1>2, <1>3, Bounds
<1>5. controllers # <<>> /\ Len(controllers) # squared
  BY <1>1, <1>2, <1>4, Typed, Bounds
<1> QED
  BY <1>1, <1>4, <1>5 DEF RunInv

LEMMA AccessWithoutRunStep == IInv /\ AccessWithoutRun => IInv'
<1> SUFFICES ASSUME IInv, AccessWithoutRun
             PROVE  IInv'
  OBVIOUS
<1>1. /\ pc = "idle" /\ pc' = "undefined" /\ controllers = <<>>
      /\ UNCHANGED <<controllers, owner, slots, position_map, nu, is_initialized, i, status,
                     call, buffer, input, faults, latest, lost, refused, junked>>
  BY DEF AccessWithoutRun, Stop
<1>2. TypeOK'
  BY <1>1 DEF IInv, TypeOK
<1> QED
  BY <1>1, <1>2 DEF IInv, CountInv, RunInv, HomeInv, LostInv, FillInv, SlotsInv,
                    StaleInv, KeptInv, UndefinedJustified, Running, Controllers

LEMMA AccessOutOfRangeStep ==
    ASSUME IInv, NEW op \in {"kRead", "kWrite"}, NEW a \in Addr, NEW new,
           AccessOutOfRange(op, a, new)
    PROVE  IInv'
<1>1. /\ pc' = "undefined" /\ BeginAccess(op, a, new)
      /\ position_map[a] \notin Valid \/ new \notin Valid
      /\ UNCHANGED <<controllers, slots, buffer, faults, latest, lost, refused, junked, i, status>>
  BY DEF AccessOutOfRange, Stop
<1>2. /\ position_map' \in [Addr -> 0..(MaxControllers - 1)]
      /\ call' \in [op : {"kRead", "kWrite"}, address : Addr]
      /\ \A c \in Addr : position_map'[c] < Len(controllers)
      /\ owner' = owner /\ nu' = nu /\ is_initialized' = is_initialized
      /\ pc = "idle"
  BY <1>1, BeginStep
<1>3. Len(controllers) > squared /\ refused
  <2>1. /\ position_map[a] \in Nat /\ position_map[a] < Len(controllers)
        /\ new \in Nat /\ new < Len(controllers)
    BY <1>1, BeginStep
  <2> QED
    BY <1>1, <1>2, <2>1, OutOfRange
<1>4. TypeOK'
  BY <1>1, <1>2 DEF IInv, TypeOK
<1>5. CountInv'
  BY <1>1, <1>2 DEF IInv, CountInv
<1> QED
  BY <1>1, <1>2, <1>3, <1>4, <1>5
     DEF IInv, RunInv, HomeInv, LostInv, FillInv, SlotsInv, StaleInv, KeptInv,
         UndefinedJustified, Running, Controllers

LEMMA EvictOutOfRangeStep == IInv /\ EvictOutOfRange => IInv'
<1> SUFFICES ASSUME IInv, EvictOutOfRange
             PROVE  IInv'
  OBVIOUS
<1>1. /\ pc = "evict" /\ pc' = "undefined" /\ Sampled \ Valid # {}
      /\ UNCHANGED <<controllers, owner, slots, position_map, nu, is_initialized, i, status,
                     call, buffer, input, faults, latest, lost, refused, junked>>
  BY DEF EvictOutOfRange, Stop
<1>2. Len(controllers) > squared /\ refused
  <2>1. Len(controllers) \in Nat
    BY Typed DEF IInv
  <2>2. PICK p \in Sampled : p \notin Valid
    BY <1>1
  <2>3. p \in Nat /\ p < Len(controllers)
    BY <2>1, <2>2 DEF Sampled
  <2> QED
    BY <1>1, <2>2, <2>3, OutOfRange
<1>3. TypeOK'
  BY <1>1 DEF IInv, TypeOK
<1> QED
  BY <1>1, <1>2, <1>3
     DEF IInv, CountInv, RunInv, HomeInv, LostInv, FillInv, SlotsInv, StaleInv, KeptInv,
         UndefinedJustified, Running, Controllers

LEMMA AccessReturnsStep == IInv /\ AccessReturns => IInv'
<1> SUFFICES ASSUME IInv, AccessReturns
             PROVE  IInv'
  OBVIOUS
<1>1. /\ pc = "evict" /\ pc' = "idle" /\ i' = 0 /\ status' = "kOK"
      /\ UNCHANGED <<controllers, owner, slots, position_map, nu, is_initialized,
                     call, buffer, input, faults, latest, lost, refused, junked>>
  BY DEF AccessReturns, Return
<1>2. TypeOK'
  BY <1>1 DEF IInv, TypeOK
<1>3. \A a : StaleAt(a)' <=> StaleAt(a)
  BY <1>1 DEF StaleAt, InSlot, Controllers
<1>4. \A a : KeptAt(a)' <=> KeptAt(a)
  BY <1>1 DEF KeptAt, InSlot, Controllers
<1>5. StaleInv' /\ KeptInv'
  BY <1>1, <1>3, <1>4 DEF IInv, StaleInv, KeptInv, Running
<1> QED
  BY <1>1, <1>2, <1>5
     DEF IInv, CountInv, RunInv, HomeInv, LostInv, FillInv, SlotsInv,
         UndefinedJustified, Controllers

LEMMA EvictStep ==
    ASSUME IInv, NEW id \in SlotIds, Evict(id)
    PROVE  IInv'
<1> DEFINE b == Last(slots[id])
           empty == slots[id] = <<>>
<1>1. /\ pc = "evict" /\ id \in Valid
      /\ UNCHANGED <<owner, position_map, nu, is_initialized, call, buffer, input,
                     latest, refused, junked>>
      /\ slots' = IF empty THEN slots ELSE [slots EXCEPT ![id] = Front(@)]
  BY DEF Evict
<1>2. TypeOK /\ CountInv /\ RunInv /\ SlotsInv /\ StaleInv /\ KeptInv
  BY DEF IInv
<1>3. PICK r \in IF empty THEN Answers(controllers[id + 1], "kWrite", 0, Garbage, TRUE)
                 ELSE IF b.id = NoAddr
                 THEN {Answer("kObjectNotFound", controllers[id + 1].mem, Garbage)}
                 ELSE Answers(controllers[id + 1], "kWrite", b.id, b.data, FALSE) :
          /\ Answered(id, r, NoAddr)
          /\ \/ r.status = "kOK" /\ GoOn
             \/ r.status # "kOK" /\ Stop("aborted")
  BY Zenon DEF Evict
<1>4. id \in Nat /\ id + 1 \in Controllers /\ controllers[id + 1] \in Controller
      /\ controllers[id + 1].mem \in Contents /\ faults \in Nat
  BY <1>1, <1>2, Typed DEF Valid, SlotIds
<1>5. slots[id] \in Seq(Block) /\ slots \in [SlotIds -> Seq(Block)]
  BY <1>2 DEF TypeOK
<1>6. ~empty => /\ b \in Block /\ Front(slots[id]) \in Seq(Block)
                /\ \A a : Has(Front(slots[id]), a) => Has(slots[id], a)
                /\ \A a : a # b.id /\ Has(slots[id], a) => Has(Front(slots[id]), a)
                /\ Sound(slots[id], id, position_map, latest) =>
                      /\ Sound(Front(slots[id]), id, position_map, latest)
                      /\ ~Has(Front(slots[id]), b.id)
                      /\ b.id \in Addr /\ position_map[b.id] = id /\ b.data = latest[b.id]
  <2> DEFINE q == slots[id]
             t == Front(q)
  <2> SUFFICES ASSUME ~empty
               PROVE  /\ b \in Block /\ t \in Seq(Block)
                      /\ \A a : Has(t, a) => Has(q, a)
                      /\ \A a : a # Last(q).id /\ Has(q, a) => Has(t, a)
                      /\ Sound(q, id, position_map, latest) =>
                            /\ Sound(t, id, position_map, latest) /\ ~Has(t, Last(q).id)
                            /\ Last(q).id \in Addr /\ position_map[Last(q).id] = id
                            /\ Last(q).data = latest[Last(q).id]
    OBVIOUS
  <2>1. q \in Seq(Block) /\ q # <<>> /\ t = Front(q) /\ b = Last(q)
    BY <1>5
  <2> HIDE DEF q, t, b, empty
  <2> QED
    BY <2>1, FrontSound
<1> HIDE DEF b
<1> DEFINE dummy == empty \/ b.id = NoAddr
<1>7. AnswerOK(r, controllers[id + 1], "kWrite", b.id, b.data, dummy)
      /\ (r.status = "kOK" => empty \/ b.id # NoAddr)
  <2>1. CASE empty
    <3>1. Garbage \in Data
      BY DEF Data
    <3>2. AnswerOK(r, controllers[id + 1], "kWrite", 0, Garbage, TRUE)
      BY <1>3, <1>4, <2>1, <3>1, AnswersSound
    <3> QED
      BY <2>1, <3>2 DEF AnswerOK
  <2>2. CASE ~empty /\ b.id = NoAddr
    <3>1. r = Answer("kObjectNotFound", controllers[id + 1].mem, Garbage)
      BY <1>3, <2>2
    <3>2. r.status = "kObjectNotFound" /\ r.mem = controllers[id + 1].mem /\ r.data \in Data
      BY <3>1 DEF Answer, Data
    <3> QED
      BY <1>4, <2>2, <3>2 DEF AnswerOK
  <2>3. CASE ~empty /\ b.id # NoAddr
    <3>1. b.data \in Data /\ b.id \in Addr
      BY <1>6, <2>3 DEF Block, Data
    <3>2. r \in Answers(controllers[id + 1], "kWrite", b.id, b.data, FALSE)
      BY <1>3, <2>3
    <3>3. AnswerOK(r, controllers[id + 1], "kWrite", b.id, b.data, FALSE)
      BY <1>4, <3>1, <3>2, AnswersSound
    <3> QED
      BY <2>3, <3>3
  <2> QED
    BY <2>1, <2>2, <2>3
<1>8. /\ status' = status /\ pc' \in {"evict", "aborted"} /\ i' \in Nat
      /\ pc' = "evict" => r.status = "kOK"
  BY <1>1, <1>2, <1>3, Typed DEF GoOn, Stop
<1>9. /\ controllers' \in Seq(Controller)
      /\ Len(controllers') = Len(controllers) /\ Controllers' = Controllers
      /\ controllers'[id + 1].mem = r.mem
      /\ \A n \in Controllers : n # id + 1 => controllers'[n].mem = controllers[n].mem
      /\ \A n \in Controllers : controllers'[n].filled <=> controllers[n].filled
      /\ faults' \in 0..MaxFaults
      /\ lost' \subseteq Addr /\ \A c \in lost : c \in lost'
      /\ \A c \in Addr : controllers[id + 1].mem[c] # NoVal /\ r.mem[c] = NoVal =>
            c \in lost' \/ (c = NoAddr /\ r.status = "kOK")
      /\ HomeInv' /\ LostInv'
  <2>1. Answered(id, r, NoAddr) /\ pc # "fill" /\ pc' # "fill"
    BY <1>1, <1>3, <1>8
  <2> QED
    BY <1>1, <1>7, <2>1, AnswerStep
<1>10. TypeOK'
  <2>1. slots' \in [SlotIds -> Seq(Block)]
    BY <1>1, <1>5, <1>6
  <2>2. controllers' \in Seq([id : SlotIds, filled : BOOLEAN, mem : Contents])
    BY <1>9 DEF Controller
  <2>3. junked' \in BOOLEAN /\ refused' \in BOOLEAN /\ is_initialized' \in BOOLEAN
    BY <1>1, <1>2, Zenon DEF TypeOK
  <2> QED
    BY <1>1, <1>2, <1>8, <1>9, <2>1, <2>2, <2>3 DEF TypeOK
<1>11. CountInv'
  <2>1. controllers' # <<>>
    BY <1>1, <1>2, <1>9, Typed, EmptySeq DEF CountInv
  <2> QED
    BY <1>1, <1>2, <1>8, <1>9, <2>1 DEF CountInv
<1>12. RunInv'
  <2>1. controllers # <<>>
    BY <1>1, <1>2 DEF CountInv
  <2> QED
    BY <1>1, <1>2, <1>8, <1>9, <2>1 DEF RunInv
<1>13. CASE junked' \/ pc' = "aborted"
  BY <1>8, <1>9, <1>10, <1>11, <1>12, <1>13
     DEF IInv, FillInv, SlotsInv, StaleInv, KeptInv, UndefinedJustified, Running
<1>14. CASE ~junked' /\ pc' = "evict"
  <2>1. ~junked /\ Running /\ r.status = "kOK" /\ position_map' = position_map /\ latest' = latest
    BY <1>1, <1>8, <1>14 DEF Running
  <2>2. \A s \in SlotIds : Sound(slots[s], s, position_map, latest)
    BY <1>1, <1>2, <2>1 DEF SlotsInv
  <2>3. \A s \in SlotIds : Sound(slots'[s], s, position_map, latest)
    BY <1>1, <1>5, <1>6, <2>2
  <2>4. ~empty => b.id \in Addr /\ position_map[b.id] = id /\ b.data = latest[b.id] /\ ~dummy
    BY <1>6, <1>7, <2>1, <2>2
  <2>5. ASSUME NEW c \in Addr, empty \/ c # b.id
        PROVE  StaleAt(c)' /\ KeptAt(c)'
    <3>1. \A s \in SlotIds : Has(slots'[s], c) <=> Has(slots[s], c)
      BY <1>1, <1>5, <1>6, <2>5
    <3>2. InSlot(c)' <=> InSlot(c)
      BY <2>1, <3>1 DEF InSlot
    <3>3. r.mem[c] \in {controllers[id + 1].mem[c], NoVal}
      BY <1>7, <2>5 DEF AnswerOK
    <3>4. \A n \in Controllers : controllers'[n].mem[c] \in {controllers[n].mem[c], NoVal}
      BY <1>9, <3>3
    <3>5. \A n \in Controllers :
              controllers[n].mem[c] # NoVal /\ controllers'[n].mem[c] = NoVal => c \in lost'
      BY <1>9, Bounds
    <3>6. c \in lost => c \in lost'
      BY <1>9
    <3> QED
      BY <1>9, <2>1, <3>2, <3>4, <3>5, <3>6, OtherStep
  <2>6. ASSUME NEW c \in Addr, ~empty, c = b.id
        PROVE  StaleAt(c)' /\ KeptAt(c)'
    <3>1. controllers'[id + 1].filled /\ controllers'[id + 1].mem[c] = latest[c]
      BY <1>4, <1>7, <1>9, <2>1, <2>4, <2>6 DEF AnswerOK
    <3>2. position_map'[c] = id /\ latest'[c] = latest[c]
      BY <2>1, <2>4, <2>6
    <3>3. \A n \in Controllers : id = n - 1 <=> n = id + 1
      BY <1>2, <1>4, Typed
    <3>4. StaleAt(c)'
      BY <1>9, <3>1, <3>2, <3>3 DEF StaleAt
    <3>5. KeptAt(c)'
      BY <1>4, <1>9, <3>1, <3>2, <3>3 DEF KeptAt
    <3> QED
      BY <3>4, <3>5
  <2>7. SlotsInv' /\ StaleInv' /\ KeptInv'
    BY <2>1, <2>3, <2>5, <2>6 DEF SlotsInv, StaleInv, KeptInv
  <2> QED
    BY <1>8, <1>9, <1>10, <1>11, <1>12, <1>14, <2>7 DEF IInv, FillInv, UndefinedJustified
<1> QED
  BY <1>8, <1>13, <1>14
-------------------------------------------------------------------------------
(* Setting up. *)

LEMMA RunStep == IInv /\ Run => IInv'
<1> SUFFICES ASSUME IInv, Run
             PROVE  IInv'
  OBVIOUS
<1>1. /\ pc = "idle" /\ pc' = "init" /\ i' = 0 /\ status' = "none"
      /\ Len(controllers) + squared <= MaxControllers
      /\ UNCHANGED <<controllers, owner, slots, position_map, nu, is_initialized,
                     call, buffer, input, faults, latest, lost, refused, junked>>
  BY DEF Run
<1>2. TypeOK'
  BY <1>1 DEF IInv, TypeOK
<1>3. \A a : (StaleAt(a)' <=> StaleAt(a)) /\ (KeptAt(a)' <=> KeptAt(a))
  BY <1>1 DEF StaleAt, KeptAt, InSlot, Controllers
<1>4. StaleInv' /\ KeptInv'
  BY <1>1, <1>3 DEF IInv, StaleInv, KeptInv, Running
<1>5. CountInv'
  BY <1>1, Bounds DEF IInv, CountInv
<1>6. RunInv'
  BY <1>1, Typed DEF IInv, RunInv
<1> QED
  BY <1>1, <1>2, <1>4, <1>5, <1>6
     DEF IInv, HomeInv, LostInv, FillInv, SlotsInv, UndefinedJustified, Controllers

LEMMA InitOramStep ==
    ASSUME IInv, NEW outcome, InitOram(outcome)
    PROVE  IInv'
<1> DEFINE c == [id |-> i, filled |-> FALSE, mem |-> Empty]
           good == owner[i] = 0 /\ outcome # "request_lost" /\ ~Failing(outcome)
<1>1. /\ pc = "init" /\ Rpc(outcome) /\ controllers' = Append(controllers, c)
      /\ owner' = IF owner[i] = 0 /\ outcome # "request_lost"
                  THEN [owner EXCEPT ![i] = Len(controllers) + 1] ELSE owner
      /\ UNCHANGED <<slots, position_map, nu, is_initialized, call, buffer, input,
                     latest, lost, junked>>
  BY DEF InitOram
<1>2. /\ \/ good /\ i + 1 < squared /\ i' = i + 1 /\ pc' = pc /\ status' = status
         \/ good /\ i + 1 = squared /\ pc' = "idle" /\ i' = 0 /\ status' = "kOK"
         \/ ~good /\ pc' = "idle" /\ i' = 0 /\ status' = "kServerError"
      /\ refused' = (refused \/ ~good)
  BY Zenon DEF InitOram, GoOn, Return
<1>3. TypeOK /\ CountInv /\ RunInv /\ HomeInv /\ LostInv
  BY DEF IInv
<1>4. /\ i \in SlotIds /\ i \in Nat /\ i < squared /\ Len(controllers) \in Nat
      /\ Len(controllers) + (squared - i) <= MaxControllers
      /\ controllers \in Seq(Controller) /\ Controllers = 1..Len(controllers)
  BY <1>1, <1>3, Typed, Bounds DEF CountInv, SlotIds
<1>5. c \in Controller /\ c.filled = FALSE /\ c.mem = Empty
  BY <1>4 DEF Controller, Contents, Empty
<1> HIDE DEF c
<1>6. /\ controllers' \in Seq(Controller) /\ Len(controllers') = Len(controllers) + 1
      /\ Controllers' = 1..(Len(controllers) + 1)
      /\ controllers'[Len(controllers) + 1] = c
      /\ \A k \in Controllers : controllers'[k] = controllers[k]
  BY <1>1, <1>4, <1>5, AppendProperties, LenProperties DEF Controllers
<1>7. \A k \in Controllers' : k \in Controllers \/ k = Len(controllers) + 1
  BY <1>4, <1>6
<1>8. \A k \in Controllers : k \in Controllers'
  BY <1>4, <1>6
<1>9. faults' \in 0..MaxFaults
  BY <1>1, <1>3, Typed, Bounds DEF Rpc
<1>10. owner' \in [SlotIds -> 0..(MaxControllers + 1)]
  <2>1. owner \in [SlotIds -> 0..(MaxControllers + 1)]
    BY <1>3 DEF TypeOK
  <2>2. Len(controllers) + 1 \in 0..(MaxControllers + 1)
    BY <1>4, Bounds
  <2> QED
    BY <1>1, <1>4, <2>1, <2>2
<1>11. i' \in Nat /\ pc' \in {"init", "idle"} /\ refused' \in BOOLEAN
       /\ status' \in {"none", "kOK", "kServerError", "kInvalidArgument"}
  <2>1. status \in {"none", "kOK", "kServerError", "kInvalidArgument"}
    BY <1>3 DEF TypeOK
  <2>2. refused' \in BOOLEAN
    BY <1>2
  <2>3. i + 1 \in Nat
    BY <1>4
  <2> QED
    BY <1>1, <1>2, <2>1, <2>2, <2>3
<1>12. TypeOK'
  <2>1. controllers' \in Seq([id : SlotIds, filled : BOOLEAN, mem : Contents])
    BY <1>6 DEF Controller
  <2>2. junked' \in BOOLEAN /\ is_initialized' \in BOOLEAN
    BY <1>1, <1>3, Zenon DEF TypeOK
  <2> QED
    BY <1>1, <1>3, <1>9, <1>10, <1>11, <2>1, <2>2 DEF TypeOK
<1>13. CountInv'
  <2>1. Len(controllers') <= MaxControllers
    BY <1>4, <1>6, Bounds
  <2>2. pc' = "init" => i' < squared /\ Len(controllers') + (squared - i') <= MaxControllers
    BY <1>2, <1>4, <1>6, Bounds
  <2>3. \A a \in Addr : position_map'[a] < Len(controllers') \/ position_map'[a] = 0
    BY <1>1, <1>3, <1>4, <1>6, Typed DEF CountInv
  <2> QED
    BY <1>11, <2>1, <2>2, <2>3 DEF CountInv
<1>14. RunInv'
  <2> SUFFICES ASSUME ~refused'
               PROVE  /\ pc' = "init" =>
                            \/ Len(controllers') = i' /\ (i' > 0 => owner'[0] # 0)
                            \/ Len(controllers') = squared /\ i' = 0 /\ owner'[0] # 0
                      /\ pc' # "init" => \/ controllers' = <<>>
                                         \/ Len(controllers') = squared /\ owner'[0] # 0
    BY DEF RunInv
  <2>1. good /\ ~refused
    BY <1>2
  <2>2. Len(controllers) = i /\ (i > 0 => owner[0] # 0)
    BY <1>1, <1>3, <2>1 DEF RunInv
  <2>3. owner'[0] # 0
    <3>1. owner \in [SlotIds -> 0..(MaxControllers + 1)] /\ owner' = [owner EXCEPT ![i] = i + 1]
      BY <1>1, <1>3, <2>1, <2>2 DEF TypeOK
    <3>2. CASE i = 0
      BY <1>4, <3>1, <3>2
    <3>3. CASE i > 0
      BY <1>4, <2>2, <3>1, <3>3, Bounds
    <3> QED
      BY <1>4, <3>2, <3>3
  <2>4. Len(controllers') = i + 1
    BY <1>6, <2>2
  <2> QED
    BY <1>1, <1>2, <2>1, <2>3, <2>4
<1>15. HomeInv'
  <2>1. \A k \in Controllers' : \A a \in Addr :
            controllers'[k].mem[a] # NoVal => k \in Controllers /\ controllers[k].mem[a] # NoVal
    BY <1>5, <1>6, <1>7 DEF Empty
  <2>2. ASSUME NEW k \in Controllers', ~controllers'[k].filled, NEW a \in Addr
        PROVE  controllers'[k].mem[a] = NoVal
    BY <1>3, <1>5, <1>6, <1>7, <2>2 DEF HomeInv, Empty
  <2> QED
    BY <1>3, <2>1, <2>2 DEF HomeInv
<1>16. LostInv'
  BY <1>1, <1>3, <1>6, <1>8, <1>11 DEF LostInv
<1>17. SlotsInv'
  BY <1>1, <1>11 DEF IInv, SlotsInv
<1>18. ASSUME ~junked', NEW a \in Addr
       PROVE  StaleAt(a)' /\ KeptAt(a)'
  <2>1. StaleAt(a) /\ KeptAt(a)
    BY <1>1, <1>18 DEF IInv, StaleInv, KeptInv, Running
  <2>2. InSlot(a)' <=> InSlot(a)
    BY <1>1 DEF InSlot
  <2>3. StaleAt(a)'
    BY <1>1, <1>5, <1>6, <1>7, <2>1, <2>2 DEF StaleAt
  <2>4. KeptAt(a)'
    BY <1>1, <1>6, <1>8, <2>1, <2>2 DEF KeptAt
  <2> QED
    BY <2>3, <2>4
<1> QED
  BY <1>11, <1>12, <1>13, <1>14, <1>15, <1>16, <1>17, <1>18
     DEF IInv, FillInv, StaleInv, KeptInv, UndefinedJustified

LEMMA ResetStep == IInv /\ Reset => IInv'
<1> SUFFICES ASSUME IInv, Reset
             PROVE  IInv'
  OBVIOUS
<1>1. /\ pc = "idle" /\ controllers' = <<>> /\ slots' = [s \in SlotIds |-> <<>>]
      /\ position_map' = [a \in Addr |-> 0] /\ latest' = Empty /\ lost' = {} /\ refused' = FALSE
      /\ owner' = [s \in SlotIds |-> IF owner[s] = 0 THEN 0 ELSE MaxControllers + 1]
      /\ UNCHANGED <<nu, is_initialized, pc, i, call, buffer, input, status, faults, junked>>
  BY DEF Reset
<1>2. Len(controllers') = 0 /\ Controllers' = {}
  BY <1>1, EmptySeq DEF Controllers
<1>3. TypeOK'
  <2>1. controllers' \in Seq([id : SlotIds, filled : BOOLEAN, mem : Contents])
        /\ slots' \in [SlotIds -> Seq(Block)]
    BY <1>1, EmptySeq
  <2>2. /\ owner' \in [SlotIds -> 0..(MaxControllers + 1)]
        /\ position_map' \in [Addr -> 0..(MaxControllers - 1)]
    BY <1>1, Bounds
  <2>3. latest' \in Contents /\ lost' \subseteq Addr /\ refused' \in BOOLEAN
    BY <1>1 DEF Contents, Empty
  <2>4. junked' \in BOOLEAN /\ is_initialized' \in BOOLEAN
    BY <1>1, Zenon DEF IInv, TypeOK
  <2> QED
    BY <1>1, <2>1, <2>2, <2>3, <2>4 DEF IInv, TypeOK
<1>4. CountInv'
  BY <1>1, <1>2, Bounds DEF CountInv
<1>5. \A s \in SlotIds : Sound(slots'[s], s, position_map', latest')
  BY <1>1 DEF Sound
<1>6. \A a \in Addr : latest'[a] = NoVal
  BY <1>1 DEF Empty
<1> QED
  BY <1>1, <1>2, <1>3, <1>4, <1>5, <1>6
     DEF IInv, RunInv, HomeInv, LostInv, FillInv, SlotsInv, StaleInv, KeptInv, StaleAt,
         KeptAt, UndefinedJustified

LEMMA FillWithDataStep ==
    ASSUME IInv, NEW d \in Inputs, FillWithData(d)
    PROVE  IInv'
<1>1. /\ pc = "idle" /\ \A k \in Controllers : ~controllers[k].filled
      /\ UNCHANGED <<controllers, owner, slots, position_map, nu, is_initialized,
                     call, buffer, faults, latest, lost, refused, junked>>
  BY DEF FillWithData, Controllers
<1>2. \/ controllers = <<>> /\ pc' = "undefined" /\ i' = i /\ status' = status /\ input' = input
      \/ pc' = "idle" /\ status' = "kInvalidArgument" /\ i' = 0 /\ input' = input
      \/ /\ controllers # <<>> /\ Len(d) = Len(controllers) /\ input' = d
         /\ pc' = "fill" /\ i' = 0 /\ status' = "none"
  BY DEF FillWithData, Stop, Return
<1>3. TypeOK'
  BY <1>1, <1>2, Bounds DEF IInv, TypeOK
<1>4. CountInv'
  <2>1. controllers # <<>> => Len(controllers) > 0
    BY Typed DEF IInv
  <2> QED
    BY <1>1, <1>2, <2>1 DEF IInv, CountInv
<1>5. HomeInv' /\ RunInv' /\ LostInv' /\ UndefinedJustified'
  BY <1>1, <1>2 DEF IInv, HomeInv, RunInv, LostInv, UndefinedJustified, Controllers
<1>6. SlotsInv'
  BY <1>1, <1>2 DEF IInv, SlotsInv
<1>7. \A a : (StaleAt(a)' <=> StaleAt(a)) /\ (KeptAt(a)' <=> KeptAt(a)) /\ (InSlot(a)' <=> InSlot(a))
  BY <1>1 DEF StaleAt, KeptAt, InSlot, Controllers
<1>8. StaleInv' /\ KeptInv'
  BY <1>1, <1>2, <1>7 DEF IInv, StaleInv, KeptInv, Running
<1>9. FillInv'
  <2> SUFFICES ASSUME pc' = "fill"
               PROVE  FillInv'
    BY DEF FillInv
  <2>1. input' = d /\ Len(d) = Len(controllers) /\ i' = 0 /\ Controllers' = Controllers
    BY <1>1, <1>2 DEF Controllers
  <2>2. \A k \in Controllers : k > 0 /\ ~(k <= 0)
    BY Typed DEF IInv
  <2>3. lost = {}
    BY <1>1 DEF IInv, LostInv
  <2>4. ~junked => \A a \in Addr : latest[a] # NoVal => InSlot(a)
    BY <1>1, <2>3 DEF IInv, KeptInv, KeptAt, Running
  <2> QED
    BY <1>1, <1>7, <2>1, <2>2, <2>4 DEF FillInv
<1> QED
  BY <1>3, <1>4, <1>5, <1>6, <1>8, <1>9 DEF IInv
LEMMA FillControllerStep ==
    ASSUME IInv, NEW outcome, FillController(outcome)
    PROVE  IInv'
<1> DEFINE n == i + 1
           m == input[n]
           ok == Accepted(n) /\ ~Failing(outcome)
<1>1. /\ pc = "fill" /\ Rpc(outcome)
      /\ position_map' = ProcessSlot(m, i)
      /\ controllers' = IF ok THEN [controllers EXCEPT ![n] =
                                       [id |-> @.id, filled |-> TRUE, mem |-> m]]
                        ELSE controllers
      /\ latest' = [a \in Addr |-> IF m[a] # NoVal THEN m[a] ELSE latest[a]]
      /\ \/ /\ ok /\ n < Len(controllers) /\ i' = n /\ pc' = pc /\ status' = status
            /\ is_initialized' = is_initialized /\ input' = input
         \/ /\ ok /\ n = Len(controllers) /\ pc' = "idle" /\ i' = 0 /\ status' = "kOK"
            /\ is_initialized' = TRUE /\ input' = <<>>
         \/ /\ ~ok /\ pc' = "aborted" /\ i' = i /\ status' = status
            /\ is_initialized' = is_initialized /\ input' = input
      /\ junked' = (junked \/ \E s \in SlotIds : slots[s] # <<>>)
      /\ UNCHANGED <<owner, slots, nu, call, buffer, lost, refused>>
  BY DEF FillController, GoOn, Return, Stop
<1>2. TypeOK /\ CountInv /\ RunInv /\ HomeInv /\ LostInv /\ FillInv
  BY DEF IInv
<1>3. /\ i \in Nat /\ n \in Controllers /\ n \in Nat /\ i < Len(controllers)
      /\ Len(controllers) \in Nat /\ Controllers = 1..Len(controllers)
      /\ Len(controllers) <= MaxControllers
      /\ controllers \in Seq(Controller)
  BY <1>1, <1>2, Typed DEF CountInv
<1>4. /\ input \in Inputs /\ Len(input) = Len(controllers)
      /\ \A k \in Controllers : k <= i => controllers[k].filled
      /\ \A k \in Controllers : k <= i => controllers[k].mem = input[k]
      /\ \A k \in Controllers : k > i => ~controllers[k].filled
      /\ \A k \in Controllers : k <= i =>
            \A a \in Addr : input[k][a] # NoVal =>
                latest[a] = input[k][a] /\ position_map[a] = k - 1
      /\ ~junked /\ i > 0 => \A s \in SlotIds : slots[s] = <<>>
      /\ ~junked => \A a \in Addr : latest[a] # NoVal =>
            InSlot(a) \/ \E k \in Controllers : k <= i /\ input[k][a] # NoVal
      /\ lost = {}
  BY <1>1, <1>2 DEF FillInv, LostInv
<1>5. /\ input \in Seq(Contents) /\ DOMAIN input = Controllers
      /\ \A k \in Controllers : input[k] \in Contents
      /\ m \in Contents
  <2>1. input \in Seq(Contents)
    BY <1>4, PartitionAssumption
  <2>2. DOMAIN input = Controllers
    BY <1>3, <1>4, <2>1, LenProperties
  <2>3. \A k \in Controllers : input[k] \in Contents
    BY <1>3, <1>4, <2>1, ElementOfSeq
  <2> QED
    BY <1>3, <2>1, <2>2, <2>3
<1>6. \A j, k \in Controllers : \A a \in Addr :
          input[j][a] # NoVal /\ input[k][a] # NoVal => j = k
  <2>1. \A j, k \in DOMAIN input : j # k => Stored(input[j]) \cap Stored(input[k]) = {}
    BY <1>4, InputAssumption
  <2> QED
    BY <1>5, <2>1 DEF Stored
<1>7. m = input[n]
  OBVIOUS
<1> HIDE DEF m
<1>8. /\ controllers' \in Seq(Controller)
      /\ Len(controllers') = Len(controllers) /\ Controllers' = Controllers
      /\ \A k \in Controllers : k # n => controllers'[k] = controllers[k]
      /\ ok => controllers'[n].filled /\ controllers'[n].mem = m
      /\ ~ok => controllers' = controllers
  <2>1. CASE ok
    <3>1. controllers' = [controllers EXCEPT ![n] = [id |-> @.id, filled |-> TRUE, mem |-> m]]
      BY <1>1, <2>1
    <3>2. n \in DOMAIN controllers
      BY <1>3 DEF Controllers
    <3>3. /\ controllers' \in Seq(Controller)
          /\ Len(controllers') = Len(controllers) /\ DOMAIN controllers' = DOMAIN controllers
          /\ controllers'[n].filled /\ controllers'[n].mem = m
          /\ \A k \in DOMAIN controllers : k # n => controllers'[k] = controllers[k]
      BY <1>3, <1>5, <3>1, <3>2, FillUpdate
    <3> QED
      BY <2>1, <3>3 DEF Controllers
  <2>2. CASE ~ok
    BY <1>1, <1>3, <2>2 DEF Controllers
  <2> QED
    BY <2>1, <2>2
<1> HIDE DEF ok
<1>9. \A k \in Controllers : (k <= n <=> k <= i \/ k = n) /\ (k > n => k > i) /\ (k > i => k = n \/ k > n)
  BY <1>3
<1>10. \A a \in Addr : /\ m[a] # NoVal => latest'[a] = m[a] /\ position_map'[a] = i
                       /\ m[a] = NoVal => latest'[a] = latest[a] /\ position_map'[a] = position_map[a]
  BY <1>1 DEF ProcessSlot
<1>11. TypeOK'
  <2>1. position_map' \in [Addr -> 0..(MaxControllers - 1)]
    <3>1. i \in 0..(MaxControllers - 1)
      BY <1>3, Bounds
    <3>2. \A a \in Addr : position_map[a] \in 0..(MaxControllers - 1)
      BY <1>2, Typed
    <3> QED
      BY <1>1, <3>1, <3>2 DEF ProcessSlot
  <2>2. latest' \in Contents
    <3>1. \A a \in Addr : m[a] \in Data /\ latest[a] \in Data
      BY <1>2, <1>5 DEF TypeOK, Contents, Data
    <3> QED
      BY <1>1, <3>1 DEF Contents, Data
  <2>3. faults' \in 0..MaxFaults
    BY <1>1, <1>2, Typed, Bounds DEF Rpc
  <2>4. controllers' \in Seq([id : SlotIds, filled : BOOLEAN, mem : Contents])
    BY <1>8 DEF Controller
  <2>5. junked' \in BOOLEAN
    BY <1>1
  <2>6. is_initialized' \in BOOLEAN
    BY <1>1, <1>2 DEF TypeOK
  <2>7. refused' \in BOOLEAN
    BY <1>1, <1>2, Zenon DEF TypeOK
  <2>8. /\ pc' \in {"idle", "init", "fill", "evict", "aborted", "undefined"} /\ i' \in Nat
        /\ status' \in {"none", "kOK", "kServerError", "kInvalidArgument"}
    BY <1>1, <1>2, <1>3 DEF TypeOK
  <2> QED
    BY <1>1, <1>2, <2>1, <2>2, <2>3, <2>4, <2>5, <2>6, <2>7, <2>8 DEF TypeOK
<1>12. CountInv'
  <2>1. \A a \in Addr : position_map'[a] < Len(controllers) \/ position_map'[a] = 0
    BY <1>2, <1>3, <1>10 DEF CountInv
  <2>2. pc' = "fill" => i' < Len(controllers)
    BY <1>1
  <2> QED
    BY <1>1, <1>3, <1>8, <2>1, <2>2 DEF CountInv
<1>13. RunInv'
  <2>1. controllers' = <<>> <=> controllers = <<>>
    BY <1>2, <1>8, <1>11, Typed, EmptySeq
  <2> QED
    BY <1>1, <1>2, <1>8, <2>1 DEF RunInv
<1>14. HomeInv'
  <2>1. \A k \in Controllers : \A a \in Addr :
            controllers[k].mem[a] # NoVal => k <= i /\ input[k][a] # NoVal
    BY <1>2, <1>3, <1>4 DEF HomeInv
  <2>2. \A k \in Controllers : \A a \in Addr :
            controllers'[k].mem[a] # NoVal => input[k][a] # NoVal
    BY <1>7, <1>8, <2>1
  <2>3. ASSUME NEW k \in Controllers, ~controllers'[k].filled
        PROVE  \A a \in Addr : controllers'[k].mem[a] = NoVal
    BY <1>2, <1>8, <2>3 DEF HomeInv
  <2> QED
    BY <1>6, <1>8, <2>2, <2>3 DEF HomeInv
<1>15. LostInv'
  BY <1>1, <1>4 DEF LostInv
<1>16. UndefinedJustified'
  BY <1>1 DEF UndefinedJustified
<1>17. SlotsInv'
  <2>1. ~junked' => \A s \in SlotIds : slots'[s] = <<>>
    BY <1>1
  <2> QED
    BY <2>1 DEF SlotsInv, Sound
\* The contents of the slices filled so far, afterwards.
<1>18. \A k \in Controllers : k <= n => \A a \in Addr : input[k][a] # NoVal =>
           latest'[a] = input[k][a] /\ position_map'[a] = k - 1
  <2> SUFFICES ASSUME NEW k \in Controllers, k <= n, NEW a \in Addr, input[k][a] # NoVal
               PROVE  latest'[a] = input[k][a] /\ position_map'[a] = k - 1
    OBVIOUS
  <2>1. CASE k = n
    BY <1>3, <1>7, <1>10, <2>1
  <2>2. CASE k # n
    <3>1. m[a] = NoVal
      BY <1>3, <1>6, <1>7, <2>2
    <3>2. k <= i
      BY <1>9, <2>2
    <3> QED
      BY <1>4, <1>10, <3>1, <3>2
  <2> QED
    BY <2>1, <2>2
<1>19. ASSUME ~junked', NEW a \in Addr, latest'[a] # NoVal
       PROVE  \E k \in Controllers : k <= n /\ input[k][a] # NoVal
  <2>1. CASE m[a] # NoVal
    BY <1>3, <1>7, <2>1
  <2>2. CASE m[a] = NoVal
    <3>1. latest[a] # NoVal /\ ~junked /\ \A s \in SlotIds : slots[s] = <<>>
      BY <1>1, <1>10, <1>19, <2>2
    <3>2. ~InSlot(a)
      BY <3>1 DEF InSlot, Has
    <3> QED
      BY <1>4, <1>9, <3>1, <3>2
  <2> QED
    BY <2>1, <2>2
<1>20. ASSUME ok
       PROVE  /\ \A k \in Controllers : k <= n => controllers'[k].filled
              /\ \A k \in Controllers : k <= n => controllers'[k].mem = input[k]
              /\ \A k \in Controllers : k > n => ~controllers'[k].filled
  BY <1>3, <1>4, <1>7, <1>8, <1>9, <1>20
<1>21. CASE ok /\ n < Len(controllers)
  <2>1. pc' = "fill" /\ i' = n /\ input' = input
    BY <1>1, <1>3, <1>21
  <2>2. ~junked' => \A s \in SlotIds : slots'[s] = <<>>
    BY <1>1
  <2>3. FillInv'
    BY <1>4, <1>8, <1>18, <1>19, <1>20, <1>21, <2>1, <2>2 DEF FillInv
  <2>4. StaleInv' /\ KeptInv'
    BY <2>1 DEF StaleInv, KeptInv, Running
  <2> QED
    BY <1>11, <1>12, <1>13, <1>14, <1>15, <1>16, <1>17, <2>3, <2>4 DEF IInv
<1>22. CASE ok /\ n = Len(controllers)
  <2>1. pc' = "idle"
    BY <1>1, <1>3, <1>22
  <2>2. \A k \in Controllers : k <= n
    BY <1>3, <1>22
  <2>3. \A k \in Controllers : controllers'[k].filled /\ controllers'[k].mem = input[k]
    BY <1>20, <1>22, <2>2
  <2>4. ASSUME ~junked', NEW a \in Addr
        PROVE  StaleAt(a)' /\ KeptAt(a)'
    <3>1. StaleAt(a)'
      BY <1>8, <1>18, <2>2, <2>3 DEF StaleAt
    <3>2. KeptAt(a)'
      BY <1>8, <1>18, <1>19, <2>2, <2>3, <2>4 DEF KeptAt
    <3> QED
      BY <3>1, <3>2
  <2> QED
    BY <1>11, <1>12, <1>13, <1>14, <1>15, <1>16, <1>17, <2>1, <2>4
       DEF IInv, FillInv, StaleInv, KeptInv
<1>23. CASE ~ok
  BY <1>1, <1>11, <1>12, <1>13, <1>14, <1>15, <1>16, <1>17, <1>23
     DEF IInv, FillInv, StaleInv, KeptInv, Running
<1> QED
  BY <1>1, <1>21, <1>22, <1>23
-------------------------------------------------------------------------------
(* The theorems. *)

LEMMA StepInv == IInv /\ [Next]_vars => IInv'
<1> SUFFICES ASSUME IInv, [Next]_vars
             PROVE  IInv'
  OBVIOUS
<1>1. CASE Run
  BY <1>1, RunStep
<1>2. CASE Reset
  BY <1>2, ResetStep
<1>3. CASE AccessWithoutRun
  BY <1>3, AccessWithoutRunStep
<1>4. ASSUME NEW d \in Inputs, FillWithData(d)
      PROVE  IInv'
  BY <1>4, FillWithDataStep
<1>5. ASSUME NEW op \in {"kRead", "kWrite"}, NEW a \in Addr, NEW new \in Sampled,
             NEW v \in Arguments(op), AccessController(op, a, v, new)
      PROVE  IInv'
  BY <1>5, AccessControllerStep
<1>6. ASSUME NEW op \in {"kRead", "kWrite"}, NEW a \in Addr, NEW new \in Sampled,
             NEW v \in Arguments(op), AccessSlot(op, a, v, new)
      PROVE  IInv'
  BY <1>6, AccessSlotStep
<1>7. ASSUME NEW op \in {"kRead", "kWrite"}, NEW a \in Addr, NEW new \in Sampled,
             AccessOutOfRange(op, a, new)
      PROVE  IInv'
  BY <1>7, AccessOutOfRangeStep
<1>8. ASSUME NEW outcome, InitOram(outcome)
      PROVE  IInv'
  BY <1>8, InitOramStep
<1>9. ASSUME NEW outcome, FillController(outcome)
      PROVE  IInv'
  BY <1>9, FillControllerStep
<1>10. ASSUME NEW id \in SlotIds, Evict(id)
       PROVE  IInv'
  BY <1>10, EvictStep
<1>11. CASE EvictOutOfRange
  BY <1>11, EvictOutOfRangeStep
<1>12. CASE AccessReturns
  BY <1>12, AccessReturnsStep
<1>13. CASE UNCHANGED vars
  <2>1. /\ UNCHANGED <<controllers, owner, slots, position_map, nu, is_initialized, pc, i>>
        /\ UNCHANGED <<call, buffer, input, status, faults, latest, lost, refused, junked>>
    BY <1>13 DEF vars
  <2>2. \A a : (StaleAt(a)' <=> StaleAt(a)) /\ (KeptAt(a)' <=> KeptAt(a)) /\ (InSlot(a)' <=> InSlot(a))
    BY <2>1 DEF StaleAt, KeptAt, InSlot, Controllers
  <2>3. StaleInv' /\ KeptInv'
    BY <2>1, <2>2 DEF IInv, StaleInv, KeptInv, Running
  <2>4. TypeOK'
    BY <2>1 DEF IInv, TypeOK
  <2>5. FillInv'
    BY <2>1, <2>2 DEF IInv, FillInv, Controllers
  <2> QED
    BY <2>1, <2>3, <2>4, <2>5
       DEF IInv, CountInv, RunInv, HomeInv, LostInv, SlotsInv, UndefinedJustified,
           Controllers
<1> QED
  BY <1>1, <1>2, <1>3, <1>4, <1>5, <1>6, <1>7, <1>8, <1>9, <1>10, <1>11, <1>12, <1>13
     DEF Next, Call, Step

\* The inductive invariant holds: the position map, the slots and the Path ORAMs of
\* the controller agree at every step of Run, FillWithData and Access.
THEOREM Invariance == Spec => []IInv
<1>1. Init => IInv
  BY InitInv
<1>2. IInv /\ [Next]_vars => IInv'
  BY StepInv
<1> QED
  BY <1>1, <1>2, PTL DEF Spec

LEMMA InvConsistent == IInv => Consistent
<1> SUFFICES ASSUME IInv
             PROVE  Consistent
  OBVIOUS
<1>1. TypeOK /\ HomeInv /\ SlotsInv /\ StaleInv
  BY DEF IInv
<1>2. SlotsAgree
  <2> SUFFICES ASSUME ~junked, pc \notin {"aborted", "undefined"},
                      NEW s \in SlotIds, NEW j \in DOMAIN slots[s]
               PROVE  LET b == slots[s][j] IN
                      /\ b.id \in Addr /\ position_map[b.id] = s /\ b.data = latest[b.id]
                      /\ Matches(s, b.id) = {j}
    BY DEF SlotsAgree
  <2>1. Sound(slots[s], s, position_map, latest)
    BY <1>1 DEF SlotsInv
  <2>2. Matches(s, slots[s][j].id) = {j}
    BY <2>1 DEF Sound, Matches
  <2> QED
    BY <2>1, <2>2 DEF Sound
<1>3. StaleCopyHidden
  <2> SUFFICES ASSUME ~junked, pc \in {"idle", "evict"},
                      NEW a \in Addr, NEW k \in DOMAIN controllers,
                      position_map[a] = k - 1, controllers[k].filled, Matches(k - 1, a) = {}
               PROVE  controllers[k].mem[a] \in {latest[a], NoVal}
    BY DEF StaleCopyHidden
  <2>1. StaleAt(a)
    BY <1>1 DEF StaleInv, Running
  <2>2. ~InSlot(a)
    BY MatchesHas DEF InSlot
  <2> QED
    BY <2>1, <2>2 DEF StaleAt, Controllers
<1>4. OneHome
  <2> SUFFICES ASSUME NEW a \in Addr
               PROVE  Cardinality({k \in DOMAIN controllers : controllers[k].mem[a] # NoVal}) <= 1
    BY DEF OneHome
  <2> DEFINE S == {k \in DOMAIN controllers : controllers[k].mem[a] # NoVal}
  <2>1. \A j, k \in S : j = k
    BY <1>1 DEF HomeInv, Controllers
  <2> HIDE DEF S
  <2>2. CASE S = {}
    BY <2>2, FS_EmptySet DEF S
  <2>3. CASE S # {}
    <3> PICK k \in S : S = {k}
      BY <2>1, <2>3
    <3>1. Cardinality({k}) = 1
      BY FS_Singleton
    <3> QED
      BY <3>1 DEF S
  <2> QED
    BY <2>2, <2>3
<1> QED
  BY <1>1, <1>2, <1>3, <1>4 DEF Consistent

\* Slots, position map and Path ORAMs are consistent between any two calls, in
\* whatever order blocks are fetched, moved and evicted and whichever calls of a Path
\* ORAM fail.
THEOREM ConsistentSafe == Spec => []Consistent
BY Invariance, InvConsistent, PTL

\* Access and FillWithData have undefined behaviour only when there is no Path ORAM, or
\* when there are more of them than slots after a Run that has answered an error.
THEOREM UndefinedJustifiedSafe == Spec => []UndefinedJustified
<1>1. IInv => UndefinedJustified
  BY DEF IInv
<1> QED
  BY <1>1, Invariance, PTL

LEMMA GarbageStep ==
    ASSUME IInv, Next, pc = "idle", junked', ~junked
    PROVE  latest[call'.address] = NoVal \/ call'.address \in lost \/ faults' > 0
<1>0. PICK op \in {"kRead", "kWrite"}, a \in Addr, new \in Sampled :
          \E v \in Arguments(op) : AccessController(op, a, v, new)
  <2>1. ~Step
    BY DEF Step, InitOram, FillController, Evict, EvictOutOfRange, AccessReturns
  <2>2. ~Run /\ ~Reset /\ ~AccessWithoutRun /\ \A d \in Inputs : ~FillWithData(d)
    BY DEF Run, Reset, AccessWithoutRun, FillWithData
  <2>3. \A op, a, new : ~AccessOutOfRange(op, a, new)
    BY DEF AccessOutOfRange
  <2>4. \A op, a, v, new : ~AccessSlot(op, a, v, new)
    BY DEF AccessSlot
  <2> QED
    BY <2>1, <2>2, <2>3, <2>4 DEF Next, Call
<1>1. PICK v \in Arguments(op) : AccessController(op, a, v, new)
  BY <1>0
<1> DEFINE s == position_map[a]
<1>2. BeginAccess(op, a, new) /\ s \in Valid /\ Matches(s, a) = {}
  BY <1>1 DEF AccessController
<1>3. call'.address = a
  BY <1>2, BeginStep
<1>4. TypeOK /\ KeptInv
  BY DEF IInv
<1>5. PICK junk \in Junk : \E r \in Answers(controllers[s + 1], op, a, junk.data, FALSE) :
          /\ faults' = IF r.status = "kServerError" THEN faults + 1 ELSE faults
          /\ junked' = (junked \/ (op = "kRead" /\ r.status # "kOK"))
  BY <1>1 DEF AccessController, Answered
<1>6. PICK r \in Answers(controllers[s + 1], op, a, junk.data, FALSE) :
          /\ faults' = IF r.status = "kServerError" THEN faults + 1 ELSE faults
          /\ r.status # "kOK"
  BY <1>5
<1>7. s \in Nat /\ s + 1 \in Controllers /\ controllers[s + 1] \in Controller /\ faults \in Nat
  BY <1>2, <1>4, Typed, BeginStep DEF Valid
<1>8. AnswerOK(r, controllers[s + 1], op, a, junk.data, FALSE)
  <2>1. junk.data \in Data
    BY DEF Junk, Data
  <2> QED
    BY <1>7, <2>1, AnswersSound
<1>9. SUFFICES ASSUME latest[a] # NoVal, a \notin lost
               PROVE  faults' > 0
  BY <1>3
<1>10. controllers[s + 1].filled /\ controllers[s + 1].mem[a] # NoVal
  <2>1. KeptAt(a)
    BY <1>4 DEF KeptInv, Running
  <2>2. ~InSlot(a)
    BY <1>2, MatchesHas DEF InSlot
  <2>3. PICK k \in Controllers : /\ position_map[a] = k - 1 /\ controllers[k].filled
                                 /\ controllers[k].mem[a] # NoVal
    BY <1>9, <2>1, <2>2 DEF KeptAt
  <2>4. k = s + 1
    BY <1>4, <1>7, <2>3, Typed
  <2> QED
    BY <2>3, <2>4
<1> QED
  BY <1>6, <1>7, <1>8, <1>10 DEF AnswerOK

\* A read hands out contents that nobody stored only for an address that has nothing
\* or was dropped by a Path ORAM, or when a call of a Path ORAM fails or has failed.
THEOREM GarbageJustifiedSafe == Spec => GarbageJustified
<1>1. IInv /\ [Next]_vars =>
          [pc = "idle" /\ junked' /\ ~junked =>
              LET a == call'.address IN
              latest[a] = NoVal \/ a \in lost \/ faults' > 0]_vars
  BY GarbageStep
<1> QED
  BY <1>1, Invariance, PTL DEF Spec, GarbageJustified
===============================================================================
