--------------------------- MODULE IngressProofs ---------------------------
(***************************************************************************)
(* Theorems about Ingress, for any deliveries, workers, rows and redrive   *)
(* calls, with outages, faults and restarts.                               *)
(***************************************************************************)
EXTENDS Ingress, SequenceTheorems, FiniteSetTheorems, TLAPS

-----------------------------------------------------------------------------
\* The inductive invariant, in parts.

\* A sequence without repetitions; a first part of it; two sequences that agree on the order.
Distinct(q) == \A i, k \in DOMAIN q : q[i] = q[k] => i = k
FirstOf(q, T) == \A i, k \in DOMAIN q : i < k /\ q[k] \in T => q[i] \in T
Agree(l, q) ==
  \A a, b \in DOMAIN l, i, k \in DOMAIN q : l[a] = q[i] /\ l[b] = q[k] /\ i < k => a < b

\* A row in the hand of a redrive call.
InHand == [ahead : SUBSET FailureRow, row : FailureRow, at : {"adding", "inline", "updating"}]

Typed ==
  /\ recorded \subseteq Deliveries
  /\ request \in [Deliveries -> {"none", "adding", "inline", "done"}]
  /\ queue \in Seq(Job) /\ line \in Seq(Job)
  /\ kept \subseteq Job
  /\ rows \in [FailureRow -> {"none", "open", "redriven"}]
  /\ redrive \in [Operators -> {NoRedrive} \union InHand]
  /\ handled \in [Job -> Nat]
  /\ inlined \subseteq Deliveries /\ dropped \subseteq Deliveries
  /\ crashes \in 0..MaxCrashes

\* The workers run a first part of the queue, and a job that a worker runs is in the line of
\* the lock, or has failed, or is through.
Taken ==
  /\ \A j \in taken : j \in Job /\ InSeq(j, queue)
  /\ failing \subseteq taken /\ settled \subseteq taken /\ failing \intersect settled = {}
  /\ FirstOf(queue, taken)
  /\ \A j \in Job : InSeq(j, line) <=> j \in taken \ (failing \union settled)

\* No more jobs run than there are workers.
Busy == IsFiniteSet(taken) /\ Cardinality(taken) <= Workers

\* Queue and line hold a job once, agree on the order, and forget no job that is kept.
Ordered ==
  /\ Distinct(queue) /\ Distinct(line) /\ Agree(line, queue)
  /\ \A j \in kept : ~InSeq(j, queue)

\* A job is handled at most once, and then ends, between two restarts.
Once == \A j \in Job : handled[j] <= crashes + IF j \in settled \union kept THEN 1 ELSE 0

\* The delivery has a job, or had one.
Engaged(d) == \E j \in Job : j[1] = d /\ (InSeq(j, queue) \/ j \in kept)

\* Rows that no longer count on being redriven: their replay is over, or is about to retire them.
Spent ==
  settled \union kept \union {r \in FailureRow : \E o \in Operators : At(o, "updating") /\ redrive[o].row = r}

\* Somebody has the event, or will have it.
Alive(d) ==
  \/ d \in inlined \union dropped
  \/ \E j \in Job : j[1] = d /\ (handled[j] > 0 \/ (InSeq(j, queue) /\ j \notin settled))
  \/ \E r \in FailureRow : r[1] = d /\ rows[r] = "open" /\ r \notin Spent

\* A row comes from a job of its delivery and before its replay; a request that is over has
\* left a job, an inline call or a loss.
Traced ==
  /\ \A j \in Job : j \in FailureRow /\ (InSeq(j, queue) \/ j \in kept) => rows[j] # "none"
  /\ \A r \in FailureRow : rows[r] # "none" => Engaged(r[1])
  /\ \A o \in Operators : redrive[o] # NoRedrive =>
       /\ rows[redrive[o].row] # "none"
       /\ \A r \in redrive[o].ahead : rows[r] # "none"
  /\ \A d \in recorded : request[d] = "done" => Engaged(d) \/ d \in inlined \union dropped
  /\ \A d \in Deliveries : request[d] = "none" <=> d \notin recorded

Kept == \A d \in Deliveries : Engaged(d) => Alive(d)

Inv == Typed /\ Taken /\ Busy /\ Ordered /\ Once /\ Traced /\ Kept

-----------------------------------------------------------------------------
\* What the sequence operations do to order and membership.

LEMMA Domain == ASSUME NEW S, NEW q \in Seq(S) PROVE DOMAIN q = 1..Len(q) /\ Len(q) \in Nat
  BY LenProperties

\* w is what is left of q when some elements go.
Thins(w, q) ==
  \A i, k \in DOMAIN w : \E m, n \in DOMAIN q :
    /\ w[i] = q[m] /\ w[k] = q[n]
    /\ i < k <=> m < n
    /\ k < i <=> n < m

LEMMA ThinDistinct ==
  ASSUME NEW S, NEW q \in Seq(S), NEW w \in Seq(S), Thins(w, q), Distinct(q)
  PROVE  Distinct(w)
<1> SUFFICES ASSUME NEW i \in DOMAIN w, NEW k \in DOMAIN w, w[i] = w[k] PROVE i = k
  BY DEF Distinct
<1>1. PICK m \in DOMAIN q, n \in DOMAIN q :
        /\ w[i] = q[m] /\ w[k] = q[n]
        /\ i < k <=> m < n
        /\ k < i <=> n < m
  BY DEF Thins
<1>2. m = n
  BY <1>1 DEF Distinct
<1> QED BY <1>1, <1>2, Domain

LEMMA ThinFirst ==
  ASSUME NEW S, NEW q \in Seq(S), NEW w \in Seq(S), NEW x, NEW T, Thins(w, q), FirstOf(q, T), ~InSeq(x, w)
  PROVE  FirstOf(w, T \ {x})
<1> SUFFICES ASSUME NEW i \in DOMAIN w, NEW k \in DOMAIN w, i < k, w[k] \in T \ {x} PROVE w[i] \in T \ {x}
  BY DEF FirstOf
<1>1. PICK m \in DOMAIN q, n \in DOMAIN q : w[i] = q[m] /\ w[k] = q[n] /\ m < n
  BY DEF Thins
<1>2. w[i] \in T
  BY <1>1 DEF FirstOf
<1> QED BY <1>2 DEF InSeq

LEMMA ThinAgree ==
  ASSUME NEW S, NEW q \in Seq(S), NEW l \in Seq(S), NEW w \in Seq(S), Agree(l, q)
  PROVE  /\ Thins(w, q) => Agree(l, w)
         /\ Thins(w, l) => Agree(w, q)
<1>1. ASSUME Thins(w, q) PROVE Agree(l, w)
  <2> SUFFICES ASSUME NEW a \in DOMAIN l, NEW b \in DOMAIN l, NEW i \in DOMAIN w, NEW k \in DOMAIN w,
                      l[a] = w[i], l[b] = w[k], i < k
               PROVE  a < b
    BY DEF Agree
  <2>1. PICK m \in DOMAIN q, n \in DOMAIN q : w[i] = q[m] /\ w[k] = q[n] /\ m < n
    BY <1>1 DEF Thins
  <2> QED BY <2>1 DEF Agree
<1>2. ASSUME Thins(w, l) PROVE Agree(w, q)
  <2> SUFFICES ASSUME NEW a \in DOMAIN w, NEW b \in DOMAIN w, NEW i \in DOMAIN q, NEW k \in DOMAIN q,
                      w[a] = q[i], w[b] = q[k], i < k
               PROVE  a < b
    BY DEF Agree
  <2>1. PICK m \in DOMAIN l, n \in DOMAIN l : w[a] = l[m] /\ w[b] = l[n] /\ (a < b <=> m < n)
    BY <1>2 DEF Thins
  <2> QED BY <2>1 DEF Agree
<1> QED BY <1>1, <1>2

LEMMA Removed ==
  ASSUME NEW S, NEW q \in Seq(S), NEW x, InSeq(x, q), Distinct(q)
  PROVE  /\ Without(x, q) \in Seq(S) /\ Thins(Without(x, q), q)
         /\ \A y : InSeq(y, Without(x, q)) <=> InSeq(y, q) /\ y # x
<1> DEFINE p == CHOOSE k \in DOMAIN q : q[k] = x
           w == Without(x, q)
           f == SubSeq(q, 1, p - 1)
           g == SubSeq(q, p + 1, Len(q))
<1>1. p \in 1..Len(q) /\ q[p] = x /\ Len(q) \in Nat /\ DOMAIN q = 1..Len(q)
  BY Domain DEF InSeq
<1>2. w = f \o g
  BY DEF Without
<1> HIDE DEF p, w
<1>3. \A i \in 1..Len(q) : q[i] \in S
  BY ElementOfSeq
<1>4. f \in Seq(S) /\ Len(f) = p - 1 /\ \A i \in 1..(p - 1) : f[i] = q[i]
  <2>1. \A i \in 1..(p - 1) : q[i] \in S
    BY <1>1, <1>3
  <2>2. 1 \in Int /\ p - 1 \in Int
    BY <1>1
  <2> QED BY <1>1, <2>1, <2>2, SubSeqProperties
<1>5. g \in Seq(S) /\ Len(g) = Len(q) - p /\ \A i \in 1..(Len(q) - p) : g[i] = q[p + i]
  <2>1. \A i \in (p + 1)..Len(q) : q[i] \in S
    BY <1>1, <1>3
  <2>2. p + 1 \in Int /\ Len(q) \in Int
    BY <1>1
  <2>3. /\ g \in Seq(S)
        /\ Len(g) = IF p + 1 <= Len(q) THEN Len(q) - (p + 1) + 1 ELSE 0
        /\ \A i \in 1..(Len(q) - (p + 1) + 1) : g[i] = q[(p + 1) + i - 1]
    BY <2>1, <2>2, SubSeqProperties
  <2> HIDE DEF g, p
  <2> DEFINE n == Len(q)
  <2> HIDE DEF n
  <2>4. Len(g) = Len(q) - p /\ Len(q) - (p + 1) + 1 = Len(q) - p
    <3>1. p \in 1..n /\ n \in Nat
      BY <1>1 DEF n
    <3>2. n - (p + 1) + 1 = n - p /\ (p + 1 <= n \/ n - p = 0)
      BY <3>1
    <3>3. Len(g) = IF p + 1 <= n THEN n - (p + 1) + 1 ELSE 0
      BY <2>3 DEF n
    <3>4. Len(g) = n - p
      BY <3>2, <3>3
    <3> QED BY <3>2, <3>4 DEF n
  <2>5. ASSUME NEW i \in 1..(Len(q) - p) PROVE g[i] = q[p + i]
    <3>1. (p + 1) + i - 1 = p + i
      BY <1>1
    <3> QED BY <2>3, <2>4, <3>1
  <2> QED BY <2>3, <2>4, <2>5
<1> HIDE DEF f, g
<1>6. /\ w \in Seq(S) /\ Len(w) = Len(q) - 1
      /\ \A i \in 1..(Len(q) - 1) : w[i] = q[IF i < p THEN i ELSE i + 1]
  <2>1. /\ w \in Seq(S) /\ Len(w) = Len(f) + Len(g)
        /\ \A i \in 1..(Len(f) + Len(g)) : w[i] = IF i <= Len(f) THEN f[i] ELSE g[i - Len(f)]
    BY <1>2, <1>4, <1>5, ConcatProperties
  <2>2. ASSUME NEW i \in 1..(Len(q) - 1) PROVE w[i] = q[IF i < p THEN i ELSE i + 1]
    <3> DEFINE h == i - (p - 1)
    <3>0. i \in 1..(Len(f) + Len(g)) /\ (i < p <=> i <= Len(f)) /\ i - Len(f) = h
      BY <1>1, <1>4, <1>5
    <3>1. CASE i < p
      <4>1. i \in 1..(p - 1)
        BY <3>1, <1>1
      <4>2. w[i] = f[i]
        BY <3>0, <3>1, <2>1
      <4> QED BY <3>1, <4>1, <4>2, <1>4
    <3>2. CASE ~(i < p)
      <4>1. h \in 1..(Len(q) - p) /\ p + h = i + 1
        BY <3>2, <1>1
      <4>2. w[i] = g[h]
        BY <3>0, <3>2, <2>1
      <4> HIDE DEF h
      <4>3. g[h] = q[p + h]
        BY <4>1, <1>5
      <4> QED BY <3>2, <4>1, <4>2, <4>3
    <3> QED BY <3>1, <3>2
  <2> QED BY <2>1, <2>2, <1>1, <1>4, <1>5
<1>7. DOMAIN w = 1..(Len(q) - 1)
  BY <1>6, Domain
<1>8. Thins(w, q)
  <2> SUFFICES ASSUME NEW i \in 1..(Len(q) - 1), NEW k \in 1..(Len(q) - 1)
               PROVE  \E m, n \in DOMAIN q :
                        /\ w[i] = q[m] /\ w[k] = q[n]
                        /\ i < k <=> m < n
                        /\ k < i <=> n < m
    BY <1>7 DEF Thins
  <2> DEFINE m == IF i < p THEN i ELSE i + 1
             n == IF k < p THEN k ELSE k + 1
  <2>1. m \in DOMAIN q /\ n \in DOMAIN q /\ (i < k <=> m < n) /\ (k < i <=> n < m)
    BY <1>1
  <2>2. w[i] = q[m] /\ w[k] = q[n]
    BY <1>6
  <2> QED BY <2>1, <2>2
<1>9. ASSUME NEW y PROVE InSeq(y, w) <=> InSeq(y, q) /\ y # x
  <2>1. ASSUME InSeq(y, w) PROVE InSeq(y, q) /\ y # x
    <3>1. PICK i \in 1..(Len(q) - 1) : w[i] = y
      BY <2>1, <1>7 DEF InSeq
    <3> DEFINE m == IF i < p THEN i ELSE i + 1
    <3>2. m \in DOMAIN q /\ m # p
      BY <1>1
    <3>3. y = q[m]
      BY <3>1, <1>6
    <3> HIDE DEF m
    <3> QED BY <3>2, <3>3, <1>1 DEF InSeq, Distinct
  <2>2. ASSUME InSeq(y, q), y # x PROVE InSeq(y, w)
    <3>1. PICK m \in 1..Len(q) : q[m] = y
      BY <2>2, <1>1 DEF InSeq
    <3>2. m # p
      BY <2>2, <3>1, <1>1
    <3> DEFINE i == IF m < p THEN m ELSE m - 1
    <3>3. i \in 1..(Len(q) - 1) /\ m = IF i < p THEN i ELSE i + 1
      BY <3>2, <1>1
    <3>4. w[i] = y
      BY <3>1, <3>3, <1>6
    <3> QED BY <3>3, <3>4, <1>7 DEF InSeq
  <2> QED BY <2>1, <2>2
<1> QED BY <1>6, <1>8, <1>9 DEF w

LEMMA Appended ==
  ASSUME NEW S, NEW q \in Seq(S), NEW x \in S
  PROVE  /\ Append(q, x) \in Seq(S)
         /\ DOMAIN Append(q, x) = DOMAIN q \union {Len(q) + 1}
         /\ \A i \in DOMAIN q : Append(q, x)[i] = q[i] /\ i < Len(q) + 1
         /\ Append(q, x)[Len(q) + 1] = x
         /\ \A y : InSeq(y, Append(q, x)) <=> InSeq(y, q) \/ y = x
<1> DEFINE w == Append(q, x)
<1>1. /\ w \in Seq(S) /\ Len(w) = Len(q) + 1
      /\ \A i \in 1..Len(q) : w[i] = q[i]
      /\ w[Len(q) + 1] = x
  BY AppendProperties
<1>2. DOMAIN q = 1..Len(q) /\ Len(q) \in Nat /\ DOMAIN w = 1..(Len(q) + 1)
  BY <1>1, Domain
<1> HIDE DEF w
<1>3. DOMAIN w = DOMAIN q \union {Len(q) + 1} /\ \A i \in DOMAIN q : w[i] = q[i] /\ i < Len(q) + 1
  BY <1>1, <1>2
<1>4. \A y : InSeq(y, w) <=> InSeq(y, q) \/ y = x
  BY <1>1, <1>3 DEF InSeq
<1> QED BY <1>1, <1>3, <1>4 DEF w

\* A new element at the end of the queue, and at the end of the line.
LEMMA GrownQueue ==
  ASSUME NEW S, NEW q \in Seq(S), NEW l \in Seq(S), NEW x \in S, NEW T,
         ~InSeq(x, q), \A y : InSeq(y, l) => InSeq(y, q), \A y \in T : InSeq(y, q),
         Distinct(q), Agree(l, q), FirstOf(q, T)
  PROVE  Distinct(Append(q, x)) /\ Agree(l, Append(q, x)) /\ FirstOf(Append(q, x), T)
<1> DEFINE w == Append(q, x)
           e == Len(q) + 1
<1>1. /\ w \in Seq(S) /\ DOMAIN w = DOMAIN q \union {e} /\ w[e] = x
      /\ \A i \in DOMAIN q : w[i] = q[i] /\ i < e /\ w[i] # x
  BY Appended DEF InSeq
<1>2. e \in Nat /\ DOMAIN q \subseteq Nat /\ DOMAIN l \subseteq Nat
  BY Domain
<1> HIDE DEF w, e
<1>3. Distinct(w)
  BY <1>1, <1>2 DEF Distinct
<1>4. Agree(l, w)
  <2> SUFFICES ASSUME NEW a \in DOMAIN l, NEW b \in DOMAIN l, NEW i \in DOMAIN w, NEW k \in DOMAIN w,
                      l[a] = w[i], l[b] = w[k], i < k
               PROVE  a < b
    BY DEF Agree
  <2>1. w[i] # x /\ w[k] # x
    BY DEF InSeq
  <2>2. i \in DOMAIN q /\ k \in DOMAIN q
    BY <1>1, <2>1
  <2> QED BY <1>1, <2>2 DEF Agree
<1>5. FirstOf(w, T)
  <2> SUFFICES ASSUME NEW i \in DOMAIN w, NEW k \in DOMAIN w, i < k, w[k] \in T PROVE w[i] \in T
    BY DEF FirstOf
  <2>1. x \notin T
    OBVIOUS
  <2>2. k \in DOMAIN q /\ i \in DOMAIN q
    BY <1>1, <1>2, <2>1
  <2> QED BY <1>1, <2>2 DEF FirstOf
<1> QED BY <1>3, <1>4, <1>5 DEF w

LEMMA GrownLine ==
  ASSUME NEW S, NEW q \in Seq(S), NEW l \in Seq(S), NEW T, NEW i \in DOMAIN q,
         q[i] \notin T, \A k \in 1..(i - 1) : q[k] \in T,
         \A y : InSeq(y, l) => y \in T, Distinct(q), Distinct(l), Agree(l, q), FirstOf(q, T)
  PROVE  /\ Distinct(Append(l, q[i])) /\ Agree(Append(l, q[i]), q)
         /\ FirstOf(q, T \union {q[i]})
<1> DEFINE w == Append(l, q[i])
           e == Len(l) + 1
<1>1. e \in Nat /\ DOMAIN q \subseteq Nat /\ DOMAIN l \subseteq Nat /\ DOMAIN q = 1..Len(q) /\ Len(q) \in Nat
  BY Domain
<1>2. q[i] \in S
  BY <1>1, ElementOfSeq
<1>3. /\ w \in Seq(S) /\ DOMAIN w = DOMAIN l \union {e} /\ w[e] = q[i]
      /\ \A a \in DOMAIN l : w[a] = l[a] /\ a < e /\ l[a] \in T /\ l[a] # q[i]
  BY <1>2, Appended DEF InSeq
<1> HIDE DEF w, e
<1>4. Distinct(w)
  BY <1>1, <1>3 DEF Distinct
<1>5. Agree(w, q)
  <2> SUFFICES ASSUME NEW a \in DOMAIN w, NEW b \in DOMAIN w, NEW m \in DOMAIN q, NEW n \in DOMAIN q,
                      w[a] = q[m], w[b] = q[n], m < n
               PROVE  a < b
    BY DEF Agree
  <2>1. CASE a \in DOMAIN l /\ b \in DOMAIN l
    BY <2>1, <1>3 DEF Agree
  <2>2. CASE a \in DOMAIN l /\ b = e
    BY <2>2, <1>3
  <2>3. CASE a = e
    <3>1. m = i
      BY <2>3, <1>3 DEF Distinct
    <3>2. b # e
      BY <3>1, <1>1, <1>3 DEF Distinct
    <3>3. q[n] \in T
      BY <3>2, <1>3
    <3> QED BY <3>1, <3>3 DEF FirstOf
  <2> QED BY <2>1, <2>2, <2>3, <1>3
<1>6. FirstOf(q, T \union {q[i]})
  <2> SUFFICES ASSUME NEW m \in DOMAIN q, NEW n \in DOMAIN q, m < n, q[n] \in T \union {q[i]}
               PROVE  q[m] \in T \union {q[i]}
    BY DEF FirstOf
  <2>1. CASE q[n] \in T
    BY <2>1 DEF FirstOf
  <2>2. CASE q[n] = q[i]
    BY <2>2, <1>1 DEF Distinct
  <2> QED BY <2>1, <2>2
<1> QED BY <1>4, <1>5, <1>6 DEF w

-----------------------------------------------------------------------------
\* The same, for the queue and the line.

LEMMA Pairs ==
  /\ FailureRow \subseteq Job
  /\ \A d \in Deliveries : <<d, 0>> \in Job \ FailureRow
  /\ \A j \in Job : j[1] \in Deliveries
  BY IngressAssumption DEF Job, FailureRow

LEMMA Grows ==
  ASSUME Typed, Taken, Ordered, NEW j \in Job, NEW q \in {queue, Added(j)}
  PROVE  /\ q \in Seq(Job) /\ Distinct(q) /\ Agree(line, q) /\ FirstOf(q, taken)
         /\ \A y : InSeq(y, queue) => InSeq(y, q)
         /\ \A y : InSeq(y, q) => InSeq(y, queue) \/ (y = j /\ j \notin kept)
         /\ q = Added(j) => InSeq(j, q) \/ j \in kept
<1>1. CASE q = queue
  BY <1>1 DEF Typed, Taken, Ordered, Added
<1>2. CASE q # queue
  <2>1. q = Append(queue, j) /\ j \notin kept /\ ~InSeq(j, queue)
    BY <1>2 DEF Added
  <2>2. \A y : InSeq(y, line) => InSeq(y, queue)
    <3>1. \A y : InSeq(y, line) => y \in Job
      BY Domain, ElementOfSeq DEF InSeq, Typed
    <3> QED BY <3>1 DEF Taken
  <2>3. Distinct(q) /\ Agree(line, q) /\ FirstOf(q, taken)
    BY <2>1, <2>2, GrownQueue DEF Typed, Taken, Ordered
  <2>4. q \in Seq(Job) /\ \A y : InSeq(y, q) <=> InSeq(y, queue) \/ y = j
    BY <2>1, Appended DEF Typed
  <2> QED BY <2>1, <2>3, <2>4
<1> QED BY <1>1, <1>2

LEMMA LineShrinks ==
  ASSUME Typed, Ordered, NEW j \in Job, InSeq(j, line)
  PROVE  /\ Without(j, line) \in Seq(Job)
         /\ Distinct(Without(j, line)) /\ Agree(Without(j, line), queue)
         /\ \A y : InSeq(y, Without(j, line)) <=> InSeq(y, line) /\ y # j
<1> DEFINE w == Without(j, line)
<1>1. w \in Seq(Job) /\ Thins(w, line) /\ \A y : InSeq(y, w) <=> InSeq(y, line) /\ y # j
  BY Removed DEF Typed, Ordered
<1> HIDE DEF w
<1>2. Distinct(w)
  BY <1>1, ThinDistinct DEF Typed, Ordered
<1>3. Agree(w, queue)
  BY <1>1, ThinAgree DEF Typed, Ordered
<1> QED BY <1>1, <1>2, <1>3 DEF w

LEMMA QueueShrinks ==
  ASSUME Typed, Taken, Ordered, NEW j \in settled
  PROVE  /\ Without(j, queue) \in Seq(Job)
         /\ Distinct(Without(j, queue)) /\ Agree(line, Without(j, queue))
         /\ FirstOf(Without(j, queue), taken \ {j})
         /\ \A y : InSeq(y, Without(j, queue)) <=> InSeq(y, queue) /\ y # j
<1> DEFINE w == Without(j, queue)
<1>1. InSeq(j, queue)
  BY DEF Taken
<1>2. w \in Seq(Job) /\ Thins(w, queue) /\ \A y : InSeq(y, w) <=> InSeq(y, queue) /\ y # j
  BY <1>1, Removed DEF Typed, Ordered
<1> HIDE DEF w
<1>3. Distinct(w)
  BY <1>2, ThinDistinct DEF Typed, Ordered
<1>4. Agree(line, w)
  BY <1>2, ThinAgree DEF Typed, Ordered
<1>5. FirstOf(w, taken \ {j})
  BY <1>2, ThinFirst DEF Typed, Taken
<1> QED BY <1>2, <1>3, <1>4, <1>5 DEF w

\* Only a job that waits for its turn or is dispatched has it.
LEMMA Turn ==
  ASSUME Taken, Ordered, NEW j \in Job, HasTurn(j)
  PROVE  InSeq(j, line) /\ j \in taken /\ j \notin failing \union settled /\ InSeq(j, queue) /\ j \notin kept
<1>1. InSeq(j, line)
  BY DEF HasTurn, InSeq
<1>2. j \in taken \ (failing \union settled)
  BY <1>1 DEF Taken
<1> QED BY <1>1, <1>2 DEF Taken, Ordered

-----------------------------------------------------------------------------
\* Every step preserves the invariant, part by part.

LEMMA InvInit == Init => Inv
<1> SUFFICES ASSUME Init PROVE Inv
  OBVIOUS
<1>1. \A y : ~InSeq(y, <<>>)
  BY DEF InSeq
<1>2. Typed
  BY IngressAssumption DEF Init, Typed
<1>3. Taken /\ Ordered
  BY <1>1 DEF Init, Taken, Ordered, FirstOf, Distinct, Agree
<1>4. Busy
  BY FS_EmptySet, IngressAssumption DEF Init, Busy
<1>5. Once
  BY DEF Init, Once
<1>6. Traced
  BY <1>1, Pairs DEF Init, Traced
<1>7. Kept
  BY <1>1 DEF Init, Kept, Engaged
<1> QED BY <1>2, <1>3, <1>4, <1>5, <1>6, <1>7 DEF Inv

LEMMA NextRowTyped ==
  ASSUME NEW todo \in SUBSET FailureRow, NEW next \in NextRow(todo)
  PROVE  next \in {NoRedrive} \union InHand
  BY DEF NextRow, InHand

LEMMA Hand ==
  ASSUME Typed, NEW o \in Operators, redrive[o] # NoRedrive
  PROVE  /\ redrive[o].row \in FailureRow /\ redrive[o].row[1] \in Deliveries
         /\ redrive[o].ahead \in SUBSET FailureRow
         /\ \A stage \in {"adding", "inline", "updating"} : [redrive[o] EXCEPT !.at = stage] \in InHand
<1>1. redrive[o] \in InHand
  BY DEF Typed
<1> QED BY <1>1, Pairs DEF InHand

\* The next row of a redrive call, or the next stage of the row in hand.
LEMMA HandMoves ==
  ASSUME Typed, NEW o \in Operators, redrive[o] # NoRedrive,
         \/ \E next \in NextRow(redrive[o].ahead) : redrive' = [redrive EXCEPT ![o] = next]
         \/ \E stage \in {"adding", "inline", "updating"} : redrive' = [redrive EXCEPT ![o].at = stage]
  PROVE  redrive' \in [Operators -> {NoRedrive} \union InHand]
<1>1. CASE \E next \in NextRow(redrive[o].ahead) : redrive' = [redrive EXCEPT ![o] = next]
  BY <1>1, Hand, NextRowTyped DEF Typed
<1>2. CASE \E stage \in {"adding", "inline", "updating"} : redrive' = [redrive EXCEPT ![o].at = stage]
  <2>1. PICK stage \in {"adding", "inline", "updating"} : redrive' = [redrive EXCEPT ![o].at = stage]
    BY <1>2
  <2>2. redrive' = [redrive EXCEPT ![o] = [redrive[o] EXCEPT !.at = stage]]
    BY <2>1
  <2> QED BY <2>2, Hand DEF Typed
<1> QED BY <1>1, <1>2

LEMMA TypedNext == Typed /\ Taken /\ Ordered /\ [Next]_vars => Typed'
<1> SUFFICES ASSUME Typed, Taken, Ordered, [Next]_vars PROVE Typed'
  OBVIOUS
<1>1. ASSUME NEW d \in Deliveries, Record(d) PROVE Typed'
  BY <1>1 DEF Record, Typed, jobs, history
<1>2. ASSUME NEW d \in Deliveries, RequestAdds(d) \/ RequestFallsBack(d) PROVE Typed'
  <2>1. queue' \in Seq(Job)
    BY <1>2, Pairs, Grows DEF RequestAdds, RequestFallsBack
  <2> QED BY <1>2, <2>1 DEF RequestAdds, RequestFallsBack, Typed, history
<1>3. ASSUME NEW d \in Deliveries, RequestDispatches(d) PROVE Typed'
  BY <1>3 DEF RequestDispatches, Typed, jobs
<1>4. CASE Process
  <2>1. line' \in Seq(Job)
    BY <1>4, Domain, ElementOfSeq, Appended DEF Process, Typed
  <2> QED BY <1>4, <2>1 DEF Process, Typed, history
<1>5. ASSUME NEW j \in Job, DispatchSucceeds(j) PROVE Typed'
  <2>1. line' \in Seq(Job)
    BY <1>5, Turn, LineShrinks DEF DispatchSucceeds
  <2>2. handled' \in [Job -> Nat]
    BY <1>5 DEF DispatchSucceeds, Typed
  <2> QED BY <1>5, <2>1, <2>2 DEF DispatchSucceeds, Typed
<1>6. ASSUME NEW j \in Job, DispatchFails(j) PROVE Typed'
  <2>1. line' \in Seq(Job)
    BY <1>6, Turn, LineShrinks DEF DispatchFails, Fails
  <2> QED BY <1>6, <2>1 DEF DispatchFails, Fails, Typed, history
<1>7. ASSUME NEW j \in Job, FailureRecorded(j) PROVE Typed'
  <2>1. rows' \in [FailureRow -> {"none", "open", "redriven"}]
    BY <1>7 DEF FailureRecorded, Typed, FreshRow
  <2>2. dropped' \subseteq Deliveries
    BY <1>7, Pairs DEF FailureRecorded, Typed
  <2> QED BY <1>7, <2>1, <2>2 DEF FailureRecorded, Typed
<1>8. ASSUME NEW j \in Job, JobEnds(j) PROVE Typed'
  <2>1. queue' \in Seq(Job)
    BY <1>8, QueueShrinks DEF JobEnds
  <2> QED BY <1>8, <2>1 DEF JobEnds, Typed, history
<1>9. ASSUME NEW o \in Operators, RedriveStarts(o) PROVE Typed'
  <2>1. OpenRows \in SUBSET FailureRow
    BY DEF OpenRows
  <2> QED BY <1>9, <2>1, NextRowTyped DEF RedriveStarts, Typed, jobs, history
<1>10. ASSUME NEW o \in Operators, RedriveAdds(o) PROVE Typed'
  <2>1. redrive[o] # NoRedrive
    BY <1>10 DEF RedriveAdds, At
  <2>2. queue' \in Seq(Job)
    BY <1>10, <2>1, Hand, Pairs, Grows DEF RedriveAdds
  <2>3. redrive' \in [Operators -> {NoRedrive} \union InHand]
    BY <1>10, <2>1, HandMoves DEF RedriveAdds
  <2> QED BY <1>10, <2>2, <2>3 DEF RedriveAdds, Typed, history
<1>11. ASSUME NEW o \in Operators, RedriveDispatches(o) PROVE Typed'
  <2>1. redrive[o] # NoRedrive
    BY <1>11 DEF RedriveDispatches, At
  <2>2. inlined' \subseteq Deliveries
    <3>1. redrive[o].row[1] \in Deliveries
      BY <2>1, Hand
    <3>2. inlined' \in {inlined, inlined \union {redrive[o].row[1]}}
      BY <1>11 DEF RedriveDispatches
    <3> QED BY <3>1, <3>2 DEF Typed
  <2>3. redrive' \in [Operators -> {NoRedrive} \union InHand]
    <3>1. \/ \E next \in NextRow(redrive[o].ahead) : redrive' = [redrive EXCEPT ![o] = next]
          \/ redrive' = [redrive EXCEPT ![o].at = "updating"]
      BY <1>11 DEF RedriveDispatches
    <3> QED BY <2>1, <3>1, HandMoves
  <2> QED BY <1>11, <2>2, <2>3 DEF RedriveDispatches, Typed, jobs
<1>12. ASSUME NEW o \in Operators, RedriveUpdates(o) PROVE Typed'
  <2>1. redrive[o] # NoRedrive
    BY <1>12 DEF RedriveUpdates, At
  <2>2. redrive' \in [Operators -> {NoRedrive} \union InHand]
    <3>1. CASE \E next \in NextRow(redrive[o].ahead) : redrive' = [redrive EXCEPT ![o] = next]
      BY <2>1, <3>1, HandMoves
    <3>2. CASE redrive' = [redrive EXCEPT ![o] = NoRedrive]
      BY <3>2 DEF Typed
    <3> QED BY <1>12, <3>1, <3>2 DEF RedriveUpdates
  <2>3. rows' \in [FailureRow -> {"none", "open", "redriven"}]
    BY <1>12 DEF RedriveUpdates, Typed
  <2> QED BY <1>12, <2>2, <2>3 DEF RedriveUpdates, Typed, jobs, history
<1>13. CASE Crash
  BY <1>13, IngressAssumption DEF Crash, Typed
<1>14. CASE UNCHANGED vars
  BY <1>14 DEF vars, jobs, history, Typed
<1> QED BY <1>1, <1>2, <1>3, <1>4, <1>5, <1>6, <1>7, <1>8, <1>9, <1>10, <1>11, <1>12, <1>13, <1>14
        DEF Next, RequestStep, JobStep, RedriveStep

\* The steps that touch neither the queue nor the workers.
Aside ==
  \/ \E d \in Deliveries : Record(d) \/ RequestDispatches(d)
  \/ \E o \in Operators : RedriveStarts(o) \/ RedriveDispatches(o) \/ RedriveUpdates(o)
  \/ UNCHANGED vars

\* The steps that may add a job to the queue.
Adds(j) ==
  /\ queue' \in {queue, Added(j)}
  /\ \/ \E d \in Deliveries : j = <<d, 0>> /\ (RequestAdds(d) \/ RequestFallsBack(d))
     \/ \E o \in Operators : redrive[o] # NoRedrive /\ j = redrive[o].row /\ RedriveAdds(o)

LEMMA Steps ==
  ASSUME Typed, [Next]_vars
  PROVE  \/ Aside
         \/ \E j \in Job : Adds(j)
         \/ Process
         \/ \E j \in Job : DispatchSucceeds(j)
         \/ \E j \in Job : DispatchFails(j)
         \/ \E j \in Job : FailureRecorded(j)
         \/ \E j \in Job : JobEnds(j)
         \/ Crash
<1>1. ASSUME NEW d \in Deliveries, RequestAdds(d) \/ RequestFallsBack(d) PROVE \E j \in Job : Adds(j)
  <2>1. queue' \in {queue, Added(<<d, 0>>)}
    BY <1>1 DEF RequestAdds, RequestFallsBack
  <2>2. Adds(<<d, 0>>)
    BY <1>1, <2>1 DEF Adds
  <2> QED BY <2>2, Pairs
<1>2. ASSUME NEW o \in Operators, RedriveAdds(o) PROVE \E j \in Job : Adds(j)
  <2>1. redrive[o] # NoRedrive /\ redrive[o].row \in FailureRow
    BY <1>2, Hand DEF RedriveAdds, At
  <2>2. queue' \in {queue, Added(redrive[o].row)}
    BY <1>2 DEF RedriveAdds
  <2>3. Adds(redrive[o].row)
    BY <1>2, <2>1, <2>2 DEF Adds
  <2> QED BY <2>1, <2>3, Pairs
<1> QED BY <1>1, <1>2 DEF Next, RequestStep, JobStep, RedriveStep, Aside

LEMMA AsideJobs == Aside => UNCHANGED jobs
  BY DEF Aside, Record, RequestDispatches, RedriveStarts, RedriveDispatches, RedriveUpdates, vars

LEMMA AddsJobs == ASSUME NEW j, Adds(j) PROVE UNCHANGED <<taken, line, failing, settled, kept>>
  BY DEF Adds, RequestAdds, RequestFallsBack, RedriveAdds

LEMMA OrderNext == Typed /\ Taken /\ Ordered /\ [Next]_vars => Taken' /\ Ordered'
<1> SUFFICES ASSUME Typed, Taken, Ordered, [Next]_vars PROVE Taken' /\ Ordered'
  OBVIOUS
<1>1. CASE UNCHANGED jobs
  BY <1>1 DEF jobs, Taken, Ordered
<1>2. ASSUME NEW j \in Job, Adds(j) PROVE Taken' /\ Ordered'
  <2>1. UNCHANGED <<taken, line, failing, settled, kept>> /\ queue' \in {queue, Added(j)}
    BY <1>2, AddsJobs DEF Adds
  <2>2. /\ Distinct(queue') /\ Agree(line, queue') /\ FirstOf(queue', taken)
        /\ \A y : InSeq(y, queue) => InSeq(y, queue')
        /\ \A y : InSeq(y, queue') => InSeq(y, queue) \/ (y = j /\ j \notin kept)
    BY <2>1, Grows
  <2>3. Taken'
    BY <2>1, <2>2 DEF Taken
  <2>4. Ordered'
    BY <2>1, <2>2 DEF Ordered
  <2> QED BY <2>3, <2>4
<1>3. CASE Process
  <2>1. PICK i \in DOMAIN queue :
          /\ queue[i] \notin taken /\ \A k \in 1..(i - 1) : queue[k] \in taken
          /\ taken' = taken \union {queue[i]} /\ line' = Append(line, queue[i])
    BY <1>3 DEF Process
  <2>2. queue[i] \in Job /\ InSeq(queue[i], queue)
    BY Domain, ElementOfSeq DEF Typed, InSeq
  <2>3. \A y : InSeq(y, line') <=> InSeq(y, line) \/ y = queue[i]
    BY <2>1, <2>2, Appended DEF Typed
  <2>4. \A y : InSeq(y, line) => y \in taken
    <3>1. \A y : InSeq(y, line) => y \in Job
      BY Domain, ElementOfSeq DEF InSeq, Typed
    <3> QED BY <3>1 DEF Taken
  <2>5. Distinct(line') /\ Agree(line', queue) /\ FirstOf(queue, taken')
    BY <2>1, <2>4, GrownLine DEF Typed, Taken, Ordered
  <2>6. UNCHANGED <<queue, failing, settled, kept>>
    BY <1>3 DEF Process
  <2>7. Taken'
    BY <2>1, <2>2, <2>3, <2>5, <2>6 DEF Taken
  <2> QED BY <2>5, <2>6, <2>7 DEF Ordered
<1>4. ASSUME NEW j \in Job, DispatchSucceeds(j) \/ DispatchFails(j) PROVE Taken' /\ Ordered'
  <2>1. /\ HasTurn(j) /\ line' = Without(j, line) /\ UNCHANGED <<queue, taken, kept>>
        /\ \/ settled' = settled \union {j} /\ UNCHANGED failing
           \/ failing' = failing \union {j} /\ UNCHANGED settled
    BY <1>4 DEF DispatchSucceeds, DispatchFails, Fails
  <2>2. InSeq(j, line) /\ j \in taken /\ j \notin failing \union settled
    BY <2>1, Turn
  <2>3. /\ Distinct(line') /\ Agree(line', queue)
        /\ \A y : InSeq(y, line') <=> InSeq(y, line) /\ y # j
    BY <2>1, <2>2, LineShrinks
  <2>4. Taken'
    BY <2>1, <2>2, <2>3 DEF Taken
  <2> QED BY <2>1, <2>3, <2>4 DEF Ordered
<1>5. ASSUME NEW j \in Job, FailureRecorded(j) PROVE Taken' /\ Ordered'
  BY <1>5 DEF FailureRecorded, Taken, Ordered
<1>6. ASSUME NEW j \in Job, JobEnds(j) PROVE Taken' /\ Ordered'
  <2>1. /\ j \in settled /\ queue' = Without(j, queue) /\ settled' = settled \ {j}
        /\ kept' = kept \union {j} /\ taken' = taken \ {j} /\ UNCHANGED <<line, failing>>
    BY <1>6 DEF JobEnds
  <2>2. /\ Distinct(queue') /\ Agree(line, queue') /\ FirstOf(queue', taken')
        /\ \A y : InSeq(y, queue') <=> InSeq(y, queue) /\ y # j
    BY <2>1, QueueShrinks
  <2>3. Taken'
    BY <2>1, <2>2 DEF Taken
  <2> QED BY <2>1, <2>2, <2>3 DEF Ordered
<1>7. CASE Crash
  <2>1. \A y : ~InSeq(y, <<>>)
    BY DEF InSeq
  <2>2. taken' = {} /\ line' = <<>> /\ failing' = {} /\ settled' = {} /\ UNCHANGED <<queue, kept>>
    BY <1>7 DEF Crash
  <2>3. Taken'
    BY <2>1, <2>2 DEF Taken, FirstOf
  <2>4. Ordered'
    BY <2>2 DEF Ordered, Distinct, Agree
  <2> QED BY <2>3, <2>4
<1> QED BY <1>1, <1>2, <1>3, <1>4, <1>5, <1>6, <1>7, Steps, AsideJobs

LEMMA BusyNext == Typed /\ Busy /\ [Next]_vars => Busy'
<1> SUFFICES ASSUME Typed, Busy, [Next]_vars PROVE Busy'
  OBVIOUS
<1>1. CASE UNCHANGED taken
  BY <1>1 DEF Busy
<1>2. CASE Process
  <2>1. PICK x : taken' = taken \union {x}
    BY <1>2 DEF Process
  <2>2. Cardinality(taken) < Workers /\ Workers \in Nat /\ Cardinality(taken) \in Nat
    BY <1>2, IngressAssumption, FS_CardinalityType DEF Process, Busy
  <2>3. IsFiniteSet(taken') /\ Cardinality(taken') <= Cardinality(taken) + 1
    BY <2>1, <2>2, FS_AddElement DEF Busy
  <2>4. Cardinality(taken') \in Nat
    BY <2>3, FS_CardinalityType
  <2> QED BY <2>2, <2>3, <2>4 DEF Busy
<1>3. ASSUME NEW j \in Job, JobEnds(j) PROVE Busy'
  <2>1. IsFiniteSet(taken') /\ Cardinality(taken') <= Cardinality(taken)
    BY <1>3, FS_Subset DEF JobEnds, Busy
  <2>2. Cardinality(taken') \in Nat /\ Cardinality(taken) \in Nat /\ Workers \in Nat
    BY <2>1, FS_CardinalityType, IngressAssumption DEF Busy
  <2> QED BY <2>1, <2>2 DEF Busy
<1>4. CASE Crash
  BY <1>4, FS_EmptySet, IngressAssumption DEF Crash, Busy
<1>5. ASSUME NEW j \in Job, DispatchSucceeds(j) \/ DispatchFails(j) \/ FailureRecorded(j) PROVE UNCHANGED taken
  BY <1>5 DEF DispatchSucceeds, DispatchFails, Fails, FailureRecorded
<1> QED BY <1>1, <1>2, <1>3, <1>4, <1>5, Steps, AsideJobs, AddsJobs DEF jobs

LEMMA HandledSame == ASSUME Aside \/ \E j : Adds(j) PROVE UNCHANGED <<handled, crashes>>
  BY DEF Aside, Adds, Record, RequestDispatches, RequestAdds, RequestFallsBack, RedriveStarts, RedriveAdds,
         RedriveDispatches, RedriveUpdates, vars, history

LEMMA OnceNext == Typed /\ Taken /\ Ordered /\ Once /\ [Next]_vars => Once'
<1> SUFFICES ASSUME Typed, Taken, Ordered, Once, [Next]_vars PROVE Once'
  OBVIOUS
<1>0. \A j \in Job : handled[j] \in Nat /\ crashes \in Nat
  BY IngressAssumption DEF Typed
<1>1. CASE UNCHANGED <<handled, crashes, settled, kept>>
  BY <1>1 DEF Once
<1>2. CASE Process
  BY <1>1, <1>2 DEF Process, history
<1>3. ASSUME NEW j \in Job, DispatchSucceeds(j) PROVE Once'
  <2>1. j \notin settled \union kept
    BY <1>3, Turn DEF DispatchSucceeds
  <2>2. handled[j] <= crashes
    BY <2>1, <1>0 DEF Once
  <2>3. /\ \A k \in Job : handled'[k] = IF k = j THEN handled[j] + 1 ELSE handled[k]
        /\ settled' = settled \union {j} /\ UNCHANGED <<kept, crashes>>
    BY <1>3 DEF DispatchSucceeds, Typed
  <2>4. ASSUME NEW k \in Job PROVE handled'[k] <= crashes' + IF k \in settled' \union kept' THEN 1 ELSE 0
    <3>1. CASE k = j
      BY <3>1, <2>2, <2>3, <1>0
    <3>2. CASE k # j
      BY <3>2, <2>3, <1>0 DEF Once
    <3> QED BY <3>1, <3>2
  <2> QED BY <2>4 DEF Once
<1>4. ASSUME NEW j \in Job, DispatchFails(j) PROVE Once'
  BY <1>1, <1>4 DEF DispatchFails, Fails, history
<1>5. ASSUME NEW j \in Job, FailureRecorded(j) PROVE Once'
  <2>1. settled \subseteq settled' /\ UNCHANGED <<handled, crashes, kept>>
    BY <1>5 DEF FailureRecorded
  <2> QED BY <2>1, <1>0 DEF Once
<1>6. ASSUME NEW j \in Job, JobEnds(j) PROVE Once'
  <2>1. settled' \union kept' = settled \union kept /\ UNCHANGED <<handled, crashes>>
    BY <1>6 DEF JobEnds, history
  <2> QED BY <2>1 DEF Once
<1>7. CASE Crash
  <2>1. crashes' = crashes + 1 /\ UNCHANGED handled
    BY <1>7 DEF Crash
  <2>2. \A j \in Job : handled[j] <= crashes + 1
    BY <1>0 DEF Once
  <2>3. ASSUME NEW j \in Job PROVE handled'[j] <= crashes' + IF j \in settled' \union kept' THEN 1 ELSE 0
    BY <2>1, <2>2, <1>0
  <2> QED BY <2>3 DEF Once
<1> QED BY <1>1, <1>2, <1>3, <1>4, <1>5, <1>6, <1>7, Steps, AsideJobs, AddsJobs, HandledSame DEF jobs

-----------------------------------------------------------------------------
\* Jobs that Redis knows, and what the steps do to them.

Known(j) == InSeq(j, queue) \/ j \in kept

LEMMA KnownNext ==
  ASSUME Typed, Taken, Ordered, [Next]_vars
  PROVE  /\ \A y : Known(y) => Known(y)'
         /\ \/ \A y : Known(y)' => Known(y)
            \/ \E j \in Job : Adds(j) /\ \A y : Known(y)' => Known(y) \/ y = j
<1>1. CASE UNCHANGED <<queue, kept>>
  BY <1>1 DEF Known
<1>2. ASSUME NEW j \in Job, Adds(j)
      PROVE  (\A y : Known(y) => Known(y)') /\ (\A y : Known(y)' => Known(y) \/ y = j)
  <2>1. UNCHANGED kept /\ queue' \in {queue, Added(j)}
    BY <1>2, AddsJobs DEF Adds
  <2>2. /\ \A y : InSeq(y, queue) => InSeq(y, queue')
        /\ \A y : InSeq(y, queue') => InSeq(y, queue) \/ y = j
    BY <2>1, Grows
  <2> QED BY <2>1, <2>2 DEF Known
<1>3. ASSUME NEW j \in Job, JobEnds(j)
      PROVE  (\A y : Known(y) => Known(y)') /\ (\A y : Known(y)' => Known(y))
  <2>1. j \in settled /\ queue' = Without(j, queue) /\ kept' = kept \union {j}
    BY <1>3 DEF JobEnds
  <2>2. InSeq(j, queue) /\ \A y : InSeq(y, queue') <=> InSeq(y, queue) /\ y # j
    BY <2>1, QueueShrinks DEF Taken
  <2> QED BY <2>1, <2>2 DEF Known
<1>4. ASSUME NEW j \in Job, DispatchSucceeds(j) \/ DispatchFails(j) \/ FailureRecorded(j)
      PROVE  UNCHANGED <<queue, kept>>
  BY <1>4 DEF DispatchSucceeds, DispatchFails, Fails, FailureRecorded
<1>5. Process \/ Crash => UNCHANGED <<queue, kept>>
  BY DEF Process, Crash
<1> QED BY <1>1, <1>2, <1>3, <1>4, <1>5, Steps, AsideJobs DEF jobs

LEMMA EngagedStays ==
  ASSUME Typed, Taken, Ordered, [Next]_vars, NEW d, Engaged(d)
  PROVE  Engaged(d)'
<1>1. PICK j \in Job : j[1] = d /\ Known(j)
  BY DEF Engaged, Known
<1>2. Known(j)'
  BY <1>1, KnownNext
<1> QED BY <1>1, <1>2 DEF Engaged, Known

\* What the steps do to the failure rows.
LEMMA RowsNext ==
  ASSUME Typed, [Next]_vars
  PROVE  \/ UNCHANGED rows
         \/ \E j \in Job : FailureRecorded(j) /\ \E r \in FreshRow(j[1]) : rows' = [rows EXCEPT ![r] = "open"]
         \/ \E o \in Operators : RedriveUpdates(o) /\ rows' = [rows EXCEPT ![redrive[o].row] = "redriven"]
<1>1. ASSUME NEW d \in Deliveries, RequestStep(d) PROVE UNCHANGED rows
  BY <1>1 DEF RequestStep, Record, RequestAdds, RequestFallsBack, RequestDispatches
<1>2. ASSUME NEW j \in Job, DispatchSucceeds(j) \/ DispatchFails(j) \/ JobEnds(j) PROVE UNCHANGED rows
  BY <1>2 DEF DispatchSucceeds, DispatchFails, Fails, JobEnds
<1>3. ASSUME NEW o \in Operators, RedriveStarts(o) \/ RedriveAdds(o) \/ RedriveDispatches(o) PROVE UNCHANGED rows
  BY <1>3 DEF RedriveStarts, RedriveAdds, RedriveDispatches
<1>4. Process \/ Crash \/ UNCHANGED vars => UNCHANGED rows
  BY DEF Process, Crash, vars
<1>5. ASSUME NEW j \in Job, FailureRecorded(j)
      PROVE  UNCHANGED rows \/ \E r \in FreshRow(j[1]) : rows' = [rows EXCEPT ![r] = "open"]
  BY <1>5 DEF FailureRecorded
<1>6. ASSUME NEW o \in Operators, RedriveUpdates(o) 
      PROVE UNCHANGED rows \/ rows' = [rows EXCEPT ![redrive[o].row] = "redriven"]
  BY <1>6 DEF RedriveUpdates
<1> QED BY <1>1, <1>2, <1>3, <1>4, <1>5, <1>6 DEF Next, JobStep, RedriveStep

LEMMA RowsStay == ASSUME Typed, [Next]_vars, NEW r \in FailureRow, rows[r] # "none" PROVE rows'[r] # "none"
  BY RowsNext DEF Typed

LEMMA RecordedNext ==
  ASSUME Typed, Taken, Ordered, Traced, [Next]_vars
  PROVE  /\ \A d \in recorded' : request'[d] = "done" => Engaged(d)' \/ d \in inlined' \union dropped'
         /\ \A d \in Deliveries : request'[d] = "none" <=> d \notin recorded'
<1> DEFINE Over(d) == Engaged(d) \/ d \in inlined \union dropped
<1>1. inlined \subseteq inlined' /\ dropped \subseteq dropped'
  BY DEF Next, RequestStep, JobStep, RedriveStep, Record, RequestAdds, RequestFallsBack, RequestDispatches, Process,
         DispatchSucceeds, DispatchFails, Fails, FailureRecorded, JobEnds, RedriveStarts, RedriveAdds,
         RedriveDispatches, RedriveUpdates, Crash, vars, history
<1>2. \A d : Over(d) => Over(d)'
  BY <1>1, EngagedStays
<1>3. CASE UNCHANGED <<recorded, request>>
  BY <1>2, <1>3 DEF Traced
<1>4. ASSUME NEW d \in Deliveries, RequestStep(d)
      PROVE  /\ request' = [request EXCEPT ![d] = request'[d]] /\ request'[d] # "none"
             /\ recorded' = recorded \union {d}
             /\ request'[d] = "done" => Over(d)'
  <2>1. CASE Record(d)
    BY <2>1 DEF Record, Typed
  <2>2. CASE RequestAdds(d)
    <3>1. Added(<<d, 0>>) = queue' /\ UNCHANGED kept
      BY <2>2 DEF RequestAdds
    <3>2. Known(<<d, 0>>)'
      BY <3>1, Pairs, Grows DEF Known
    <3>3. Engaged(d)'
      BY <3>2, Pairs DEF Known, Engaged
    <3> QED BY <2>2, <3>3 DEF RequestAdds, Typed, Traced
  <2>3. CASE RequestFallsBack(d)
    BY <2>3 DEF RequestFallsBack, Typed, Traced
  <2>4. CASE RequestDispatches(d)
    <3>1. d \in inlined' \union dropped'
      BY <2>4 DEF RequestDispatches
    <3> QED BY <2>4, <3>1 DEF RequestDispatches, Typed, Traced
  <2> QED BY <1>4, <2>1, <2>2, <2>3, <2>4 DEF RequestStep
<1>5. ASSUME NEW d \in Deliveries, RequestStep(d)
      PROVE  /\ \A e \in recorded' : request'[e] = "done" => Over(e)'
             /\ \A e \in Deliveries : request'[e] = "none" <=> e \notin recorded'
  <2>1. \A e \in Deliveries : e # d => request'[e] = request[e] /\ (e \in recorded' <=> e \in recorded)
    BY <1>4, <1>5 DEF Typed
  <2> HIDE DEF Over
  <2>2. \A e \in recorded' : e \in Deliveries
    BY <1>4, <1>5 DEF Typed
  <2>3. \A e \in recorded : request[e] = "done" => Over(e)
    BY DEF Over, Traced
  <2>4. request'[d] # "none" /\ d \in recorded' /\ (request'[d] = "done" => Over(d)')
    BY <1>4, <1>5
  <2> QED BY <2>1, <2>2, <2>3, <2>4, <1>2 DEF Traced
<1>6. CASE Crash
  <2>1. /\ request' = [d \in Deliveries |-> IF d \in recorded THEN "done" ELSE "none"] /\ UNCHANGED recorded
        /\ \A d \in Deliveries : request[d] \in {"adding", "inline"} => d \in dropped'
    BY <1>6 DEF Crash
  <2>2. \A d \in recorded : d \in Deliveries /\ request[d] \in {"adding", "inline", "done"}
    BY DEF Traced, Typed
  <2>3. \A d \in recorded : Over(d)'
    BY <2>1, <2>2, <1>2 DEF Traced
  <2> QED BY <2>1, <2>3
<1>7. ASSUME NEW j \in Job, JobStep(j) PROVE UNCHANGED <<recorded, request>>
  BY <1>7 DEF JobStep, DispatchSucceeds, DispatchFails, Fails, FailureRecorded, JobEnds
<1>8. ASSUME NEW o \in Operators, RedriveStarts(o) \/ RedriveStep(o) PROVE UNCHANGED <<recorded, request>>
  BY <1>8 DEF RedriveStep, RedriveStarts, RedriveAdds, RedriveDispatches, RedriveUpdates
<1>9. Process \/ UNCHANGED vars => UNCHANGED <<recorded, request>>
  BY DEF Process, vars
<1> QED BY <1>3, <1>5, <1>6, <1>7, <1>8, <1>9 DEF Next

\* A redrive call has rows in hand and ahead that were written.
LEMMA RedriveNext ==
  ASSUME Typed, Traced, [Next]_vars, NEW o \in Operators, redrive'[o] # NoRedrive
  PROVE  rows'[redrive'[o].row] # "none" /\ \A r \in redrive'[o].ahead : rows'[r] # "none"
<1> DEFINE Written(next) == rows[next.row] # "none" /\ \A r \in next.ahead : rows[r] # "none"
           Fits(next) == next.row \in FailureRow /\ next.ahead \in SUBSET FailureRow
<1>1. ASSUME NEW todo \in SUBSET FailureRow, \A r \in todo : rows[r] # "none",
             NEW next \in NextRow(todo), next # NoRedrive
      PROVE  Written(next) /\ Fits(next)
  BY <1>1 DEF NextRow
<1>2. redrive[o] # NoRedrive => Written(redrive[o]) /\ Fits(redrive[o])
  BY Hand DEF Traced
<1>3. Written(redrive'[o]) /\ Fits(redrive'[o])
  <2>1. CASE redrive'[o] = redrive[o]
    BY <1>2, <2>1
  <2>2. CASE RedriveStarts(o)
    <3>1. \A r \in OpenRows : rows[r] # "none"
      BY DEF OpenRows
    <3>2. redrive'[o] \in NextRow(OpenRows)
      BY <2>2 DEF RedriveStarts, Typed
    <3> QED BY <1>1, <3>1, <3>2 DEF OpenRows
  <2>3. CASE redrive[o] # NoRedrive /\ redrive'[o] \in NextRow(redrive[o].ahead)
    <3> HIDE DEF Written, Fits
    <3>1. redrive[o].ahead \in SUBSET FailureRow /\ \A r \in redrive[o].ahead : rows[r] # "none"
      BY <1>2, <2>3 DEF Written, Fits
    <3> QED BY <1>1, <2>3, <3>1
  <2>4. CASE /\ redrive[o] # NoRedrive
             /\ redrive'[o].row = redrive[o].row /\ redrive'[o].ahead = redrive[o].ahead
    BY <1>2, <2>4
  <2>5. RedriveAdds(o) \/ RedriveDispatches(o) \/ RedriveUpdates(o) =>
          /\ redrive[o] # NoRedrive
          /\ \/ redrive'[o] \in NextRow(redrive[o].ahead)
             \/ \E stage \in {"inline", "updating"} : redrive' = [redrive EXCEPT ![o].at = stage]
    BY DEF RedriveAdds, RedriveDispatches, RedriveUpdates, At, Typed
  <2>6. ASSUME redrive[o] # NoRedrive, NEW stage \in {"inline", "updating"}, redrive' = [redrive EXCEPT ![o].at = stage]
        PROVE  redrive'[o].row = redrive[o].row /\ redrive'[o].ahead = redrive[o].ahead
    BY <2>6 DEF Typed, InHand
  <2>7. ASSUME NEW p \in Operators, p # o, RedriveStarts(p) \/ RedriveStep(p) PROVE redrive'[o] = redrive[o]
    BY <2>7 DEF RedriveStarts, RedriveStep, RedriveAdds, RedriveDispatches, RedriveUpdates, Typed
  <2>8. \/ \E p \in Operators : RedriveStarts(p) \/ RedriveStep(p)
        \/ UNCHANGED redrive \/ Crash
    BY DEF Next, RequestStep, JobStep, Record, RequestAdds, RequestFallsBack, RequestDispatches, Process,
           DispatchSucceeds, DispatchFails, Fails, FailureRecorded, JobEnds, vars
  <2>9. ~Crash
    BY DEF Crash
  <2> QED BY <2>1, <2>2, <2>3, <2>4, <2>5, <2>6, <2>7, <2>8, <2>9 DEF RedriveStep
<1> QED BY <1>3, RowsStay

LEMMA TracedNext == Typed /\ Taken /\ Ordered /\ Traced /\ [Next]_vars => Traced'
<1> SUFFICES ASSUME Typed, Taken, Ordered, Traced, [Next]_vars PROVE Traced'
  OBVIOUS
<1>1. ASSUME NEW j \in Job, j \in FailureRow, Known(j)' PROVE rows'[j] # "none"
  <2>1. CASE Known(j)
    BY <1>1, <2>1, RowsStay DEF Known, Traced
  <2>2. CASE ~Known(j)
    <3>1. Adds(j)
      BY <1>1, <2>2, KnownNext
    <3>2. ~ \E d \in Deliveries : j = <<d, 0>>
      BY <1>1, Pairs
    <3>3. PICK o \in Operators : redrive[o] # NoRedrive /\ j = redrive[o].row
      BY <3>1, <3>2 DEF Adds
    <3> QED BY <1>1, <3>3, RowsStay DEF Traced
  <2> QED BY <2>1, <2>2
<1>2. ASSUME NEW r \in FailureRow, rows'[r] # "none" PROVE Engaged(r[1])'
  <2>1. CASE rows[r] # "none"
    BY <2>1, EngagedStays DEF Traced
  <2>2. CASE rows[r] = "none"
    <3>1. \A o \in Operators : RedriveUpdates(o) => redrive[o].row # r
      BY <2>2 DEF RedriveUpdates, At, Traced
    <3>2. PICK j \in Job : FailureRecorded(j) /\ r \in FreshRow(j[1])
      BY <1>2, <2>2, <3>1, RowsNext DEF Typed
    <3>3. r[1] = j[1] /\ InSeq(j, queue)
      BY <3>2 DEF FailureRecorded, FreshRow, Taken
    <3>4. Engaged(r[1])
      BY <3>3 DEF Engaged
    <3> QED BY <3>4, EngagedStays
  <2> QED BY <2>1, <2>2
<1> QED BY <1>1, <1>2, RedriveNext, RecordedNext DEF Traced, Known

-----------------------------------------------------------------------------
\* Somebody has the event after every step.

\* What the plugin had and what was lost stays so.
LEMMA HistoryGrows ==
  ASSUME Typed, [Next]_vars
  PROVE  /\ inlined \subseteq inlined' /\ dropped \subseteq dropped'
         /\ \A j \in Job : handled[j] > 0 => handled'[j] > 0
<1>1. inlined \subseteq inlined' /\ dropped \subseteq dropped'
  BY DEF Next, RequestStep, JobStep, RedriveStep, Record, RequestAdds, RequestFallsBack, RequestDispatches, Process,
         DispatchSucceeds, DispatchFails, Fails, FailureRecorded, JobEnds, RedriveStarts, RedriveAdds,
         RedriveDispatches, RedriveUpdates, Crash, vars, history
<1>2. UNCHANGED handled \/ \E j \in Job : DispatchSucceeds(j)
  BY Steps, HandledSame DEF Process, DispatchFails, Fails, FailureRecorded, JobEnds, Crash, history
<1>3. ASSUME NEW j \in Job, DispatchSucceeds(j), NEW k \in Job, handled[k] > 0 PROVE handled'[k] > 0
  BY <1>3 DEF DispatchSucceeds, Typed
<1> QED BY <1>1, <1>2, <1>3

LEMMA SettledNext ==
  ASSUME Typed, Taken, Ordered, [Next]_vars, NEW y \in settled'
  PROVE  y \in settled \/ (y \in Job /\ (DispatchSucceeds(y) \/ FailureRecorded(y)))
  BY Steps, AsideJobs, AddsJobs DEF jobs, Process, DispatchSucceeds, DispatchFails, Fails, FailureRecorded, JobEnds, Crash

LEMMA KeptEnded ==
  ASSUME Typed, Taken, Ordered, [Next]_vars, NEW y \in kept'
  PROVE  y \in kept \/ y \in settled
  BY Steps, AsideJobs, AddsJobs DEF jobs, Process, DispatchSucceeds, DispatchFails, Fails, FailureRecorded, JobEnds, Crash

\* A row is about to be retired because its replay is queued or has run.
LEMMA UpdatingNext ==
  ASSUME Typed, [Next]_vars, NEW o \in Operators, At(o, "updating")'
  PROVE  \/ At(o, "updating") /\ redrive'[o].row = redrive[o].row
         \/ /\ redrive[o] # NoRedrive /\ redrive'[o].row = redrive[o].row
            /\ \/ redrive[o].row[1] \in inlined'
               \/ queue' = Added(redrive[o].row) /\ UNCHANGED <<kept, settled>>
<1>1. redrive'[o] # NoRedrive /\ redrive'[o].at = "updating"
  BY DEF At
<1>2. \A todo, next : next \in NextRow(todo) /\ next # NoRedrive => next.at = "adding"
  BY DEF NextRow
<1>3. CASE redrive'[o] = redrive[o]
  BY <1>1, <1>3 DEF At
<1>4. ~RedriveStarts(o) /\ ~RedriveUpdates(o)
  BY <1>1, <1>2 DEF RedriveStarts, RedriveUpdates, Typed
<1>5. CASE RedriveAdds(o)
  <2>1. redrive[o] # NoRedrive /\ UNCHANGED <<kept, settled>>
    BY <1>5 DEF RedriveAdds, At
  <2>2. redrive[o] \in InHand
    BY <2>1 DEF Typed
  <2>3. redrive' # [redrive EXCEPT ![o].at = "inline"]
    BY <1>1, <2>2 DEF Typed, InHand
  <2>4. queue' = Added(redrive[o].row) /\ redrive' = [redrive EXCEPT ![o].at = "updating"]
    BY <1>5, <2>3 DEF RedriveAdds
  <2>5. redrive'[o].row = redrive[o].row
    BY <2>2, <2>4 DEF Typed, InHand
  <2> QED BY <2>1, <2>4, <2>5
<1>6. CASE RedriveDispatches(o)
  <2>1. redrive[o] # NoRedrive
    BY <1>6 DEF RedriveDispatches, At
  <2>2. redrive[o] \in InHand
    BY <2>1 DEF Typed
  <2>3. ~ \E next \in NextRow(redrive[o].ahead) : redrive' = [redrive EXCEPT ![o] = next]
    BY <1>1, <1>2 DEF Typed
  <2>4. redrive[o].row[1] \in inlined' /\ redrive' = [redrive EXCEPT ![o].at = "updating"]
    BY <1>6, <2>3 DEF RedriveDispatches
  <2>5. redrive'[o].row = redrive[o].row
    BY <2>2, <2>4 DEF Typed, InHand
  <2> QED BY <2>1, <2>4, <2>5
<1>7. ASSUME NEW p \in Operators, p # o, RedriveStarts(p) \/ RedriveStep(p) PROVE redrive'[o] = redrive[o]
  BY <1>7 DEF RedriveStarts, RedriveStep, RedriveAdds, RedriveDispatches, RedriveUpdates, Typed
<1>8. \/ \E p \in Operators : RedriveStarts(p) \/ RedriveStep(p)
      \/ UNCHANGED redrive \/ Crash
  BY DEF Next, RequestStep, JobStep, Record, RequestAdds, RequestFallsBack, RequestDispatches, Process,
         DispatchSucceeds, DispatchFails, Fails, FailureRecorded, JobEnds, vars
<1>9. ~Crash
  BY <1>1 DEF Crash
<1> QED BY <1>3, <1>4, <1>5, <1>6, <1>7, <1>8, <1>9 DEF RedriveStep

\* A failed job leaves a row that no replay counts on yet, or a loss.
LEMMA FailedAlive ==
  ASSUME Typed, Taken, Ordered, Traced, NEW j \in Job, FailureRecorded(j)
  PROVE  Alive(j[1])'
<1>1. CASE j[1] \in dropped'
  BY <1>1 DEF Alive
<1>2. CASE \E r \in FreshRow(j[1]) : rows' = [rows EXCEPT ![r] = "open"]
  <2>1. PICK r \in FreshRow(j[1]) : rows' = [rows EXCEPT ![r] = "open"]
    BY <1>2
  <2>2. r \in FailureRow /\ r[1] = j[1] /\ rows[r] = "none" /\ rows'[r] = "open"
    BY <2>1 DEF FreshRow, Typed
  <2>3. settled' = settled \union {j} /\ UNCHANGED <<kept, redrive>> /\ j \in taken
    BY DEF FailureRecorded, Taken
  <2>4. ~Known(r)
    BY <2>2, Pairs DEF Known, Traced
  <2>5. r \notin settled' \union kept'
    BY <2>3, <2>4 DEF Known, Taken
  <2>6. \A o \in Operators : At(o, "updating") => redrive[o].row # r
    BY <2>2 DEF At, Traced
  <2>7. r \notin Spent'
    BY <2>3, <2>5, <2>6 DEF Spent, At
  <2> QED BY <2>2, <2>7 DEF Alive
<1> QED BY <1>1, <1>2 DEF FailureRecorded

LEMMA AliveStays ==
  ASSUME Typed, Taken, Ordered, Traced, [Next]_vars, NEW d \in Deliveries, Alive(d)
  PROVE  Alive(d)'
<1>1. CASE d \in inlined \union dropped
  BY <1>1, HistoryGrows DEF Alive
<1>2. ASSUME NEW j \in Job, j[1] = d, handled[j] > 0 PROVE Alive(d)'
  BY <1>2, HistoryGrows DEF Alive
<1>3. ASSUME NEW j \in Job, j[1] = d, DispatchSucceeds(j) PROVE Alive(d)'
  <2>1. handled'[j] > 0
    BY <1>3 DEF DispatchSucceeds, Typed
  <2> QED BY <1>3, <2>1 DEF Alive
<1>4. ASSUME NEW j \in Job, j[1] = d, j \in settled' \ settled PROVE Alive(d)'
  BY <1>3, <1>4, SettledNext, FailedAlive
<1>5. ASSUME NEW j \in Job, j[1] = d, InSeq(j, queue), j \notin settled PROVE Alive(d)'
  <2>1. Known(j)' /\ j \notin kept'
    BY <1>5, KnownNext, KeptEnded DEF Known, Ordered
  <2>2. InSeq(j, queue')
    BY <2>1 DEF Known
  <2>3. CASE j \notin settled'
    BY <1>5, <2>2, <2>3 DEF Alive
  <2> QED BY <1>4, <1>5, <2>3
<1>6. ASSUME NEW r \in FailureRow, r[1] = d, rows[r] = "open", r \notin Spent PROVE Alive(d)'
  <2>1. r \in Job /\ r \notin settled /\ r \notin kept
    BY <1>6, Pairs DEF Spent
  <2>2. \A o \in Operators : At(o, "updating") => redrive[o].row # r
    BY <1>6 DEF Spent
  <2>3. rows'[r] = "open"
    <3>1. \A o \in Operators : RedriveUpdates(o) => redrive[o].row # r
      BY <2>2 DEF RedriveUpdates
    <3> QED BY <1>6, <3>1, RowsNext DEF Typed
  <2>4. CASE r \notin Spent'
    BY <1>6, <2>3, <2>4 DEF Alive
  <2>5. CASE r \in settled'
    BY <1>4, <1>6, <2>1, <2>5
  <2>6. r \notin kept'
    BY <2>1, KeptEnded
  <2>7. ASSUME NEW o \in Operators, At(o, "updating")', redrive'[o].row = r PROVE Alive(d)'
    <3>1. redrive[o].row = r /\ (r[1] \in inlined' \/ (queue' = Added(r) /\ UNCHANGED <<kept, settled>>))
      BY <2>2, <2>7, UpdatingNext
    <3>2. CASE r[1] \in inlined'
      BY <1>6, <3>2 DEF Alive
    <3>3. CASE queue' = Added(r) /\ UNCHANGED <<kept, settled>>
      <4>1. InSeq(r, queue') /\ r \notin settled'
        BY <2>1, <3>3, Grows
      <4> QED BY <1>6, <2>1, <4>1 DEF Alive
    <3> QED BY <3>1, <3>2, <3>3
  <2>8. r \in Spent' => r \in settled' \union kept' \/ \E o \in Operators : At(o, "updating")' /\ redrive'[o].row = r
    BY DEF Spent
  <2> QED BY <2>4, <2>5, <2>6, <2>7, <2>8
<1> QED BY <1>1, <1>2, <1>5, <1>6 DEF Alive

LEMMA KeptNext == Typed /\ Taken /\ Ordered /\ Traced /\ Kept /\ [Next]_vars => Kept'
<1> SUFFICES ASSUME Typed, Taken, Ordered, Traced, Kept, [Next]_vars, NEW d \in Deliveries, Engaged(d)'
             PROVE  Alive(d)'
  BY DEF Kept
<1>1. CASE Engaged(d)
  BY <1>1, AliveStays DEF Kept
<1>2. CASE ~Engaged(d)
  <2>1. PICK j \in Job : j[1] = d /\ Known(j)'
    BY DEF Engaged, Known
  <2>2. ~Known(j)
    BY <1>2, <2>1 DEF Engaged, Known
  <2>3. Adds(j)
    BY <2>1, <2>2, KnownNext
  <2>4. j \notin kept' /\ j \notin settled'
    BY <2>2, <2>3, AddsJobs DEF Known, Taken
  <2>5. InSeq(j, queue')
    BY <2>1, <2>4 DEF Known
  <2> QED BY <2>1, <2>4, <2>5 DEF Alive
<1> QED BY <1>1, <1>2

THEOREM Invariance == Spec => []Inv
<1>1. Inv /\ [Next]_vars => Inv'
  BY TypedNext, OrderNext, BusyNext, OnceNext, TracedNext, KeptNext DEF Inv
<1> QED BY <1>1, InvInit, PTL DEF Spec

-----------------------------------------------------------------------------
\* Rows, queue and handlers keep their types, and no more jobs run than there are workers.
THEOREM TypeCorrect == Spec => []TypeOK
<1>1. Inv => TypeOK
  <2> SUFFICES ASSUME Inv PROVE TypeOK
    OBVIOUS
  <2>1. taken \subseteq {queue[i] : i \in DOMAIN queue}
    BY DEF Inv, Taken, InSeq
  <2>2. failing \union settled \subseteq taken
    BY DEF Inv, Taken
  <2>3. Cardinality(taken) <= Workers
    BY DEF Inv, Busy
  <2> QED BY <2>1, <2>2, <2>3 DEF Inv, Typed, TypeOK, InHand
<1> QED BY <1>1, Invariance, PTL

\* No acknowledged event disappears, whatever crashes, outages and redrive calls do: it was
\* handled, is queued, has an open failure row, or is one of the losses `dropped` counts.
THEOREM NothingIsLost == Spec => []NoSilentLoss
<1>1. Inv => NoSilentLoss
  <2> SUFFICES ASSUME Inv, NEW d \in recorded, request[d] = "done", d \notin inlined \union dropped
               PROVE  \/ \E j \in Job : j[1] = d /\ (handled[j] > 0 \/ InSeq(j, queue))
                      \/ \E r \in FailureRow : r[1] = d /\ rows[r] = "open"
    BY DEF NoSilentLoss
  <2>1. d \in Deliveries
    BY DEF Inv, Typed
  <2>2. Alive(d)
    BY <2>1 DEF Inv, Traced, Kept
  <2> QED BY <2>2 DEF Alive
<1> QED BY <1>1, Invariance, PTL

\* No job reaches the plugin twice between two restarts.
THEOREM HandledAtMostOnce == Spec => []HandledOnce
<1>1. Inv => HandledOnce
  <2> SUFFICES ASSUME Inv, NEW j \in Job PROVE handled[j] <= 1 + crashes
    BY DEF HandledOnce
  <2>1. handled[j] \in Nat /\ crashes \in Nat
    BY IngressAssumption DEF Inv, Typed
  <2>2. handled[j] <= crashes + IF j \in settled \union kept THEN 1 ELSE 0
    BY DEF Inv, Once
  <2> QED BY <2>1, <2>2
<1> QED BY <1>1, Invariance, PTL

\* The lock keeps the order of the queue for every conversation and number of workers.
THEOREM InOrder == Spec => []ConversationInOrder
<1>1. Inv => ConversationInOrder
  <2> SUFFICES ASSUME Inv, NEW j \in Job, HasTurn(j), NEW i \in DOMAIN queue, NEW k \in DOMAIN queue,
                      queue[k] = j, i < k, SameKey(queue[i], j), queue[i] \notin failing \union settled
               PROVE  FALSE
    BY DEF ConversationInOrder
  <2>1. PICK a \in DOMAIN line : line[a] = j /\ \A b \in 1..(a - 1) : ~SameKey(line[b], j)
    BY DEF HasTurn
  <2>2. j \in taken
    BY Turn DEF Inv
  <2>3. queue[i] \in taken /\ queue[i] \in Job
    BY <2>2 DEF Inv, Taken, FirstOf
  <2>4. InSeq(queue[i], line)
    BY <2>3 DEF Inv, Taken
  <2>5. PICK b \in DOMAIN line : line[b] = queue[i]
    BY <2>4 DEF InSeq
  <2>6. b < a
    BY <2>1, <2>5 DEF Inv, Ordered, Agree
  <2>7. b \in 1..(a - 1)
    BY <2>6, Domain DEF Inv, Typed
  <2> QED BY <2>1, <2>5, <2>7
<1> QED BY <1>1, Invariance, PTL

\* Each job once, and in the order of its conversation.
THEOREM OnceAndInOrder == Spec => []OnceInOrder
  BY TypeCorrect, HandledAtMostOnce, InOrder, PTL DEF OnceInOrder
=============================================================================
