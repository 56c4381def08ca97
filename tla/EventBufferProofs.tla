-------------------------- MODULE EventBufferProofs --------------------------
(***************************************************************************)
(* Proofs about EventBuffer, for any set of posters, any number of events  *)
(* and any capacity of the buffer.                                         *)
(***************************************************************************)
EXTENDS EventBuffer, FiniteSetTheorems, SequenceTheorems, TLAPS

\* Events buffered, and events in the hands of the flush of p.
Buffered == ToSet(buffer)
Carried(p) == ToSet(posters[p].held)

\* A poster carries events between taking the buffer and being done with them,
\* and has an event of its own from the moment the call begins.
PosterShape ==
    \A p \in Posters :
        /\ posters[p].held # <<>> <=> posters[p].pc \in {"flushing", "rebuffer"}
        /\ posters[p].pc = "idle" => posters[p].cur = <<>>
        /\ posters[p].pc # "idle" => posters[p].cur = <<p, posted[p]>> /\ posted[p] > 0

\* Events whose own call of post_runtime_event has ended.
Past == {e \in Produced : posters[e[1]].cur # e}

NoRepeat(s) == \A i, j \in 1 .. Len(s) : s[i] = s[j] => i = j

\* The places where a past event can be do not overlap, and there is no other.
EventsApart ==
    /\ NoRepeat(buffer)
    /\ \A p \in Posters : NoRepeat(posters[p].held)
    /\ \A p \in Posters : Carried(p) \cap Buffered = {}
    /\ \A p, q \in Posters : p # q => Carried(p) \cap Carried(q) = {}
    /\ (acked \cup dropped) \cap Buffered = {}
    /\ \A p \in Posters : (acked \cup dropped) \cap Carried(p) = {}

EventsKept ==
    /\ acked \subseteq Past /\ dropped \subseteq Past /\ Buffered \subseteq Past
    /\ \A p \in Posters : Carried(p) \subseteq Past
    /\ \A e \in Past : \/ e \in acked \cup dropped \cup Buffered
                       \/ \E p \in Posters : e \in Carried(p)

\* The inductive invariant behind EachEventAccounted.
AInv == TypeOK /\ PosterShape /\ EventsApart /\ EventsKept

\* A call that flushed everything has no older event of its task around.
CleanIsAhead ==
    \A p \in Posters :
        posters[p].pc \in {"flushing", "post"} /\ posters[p].clean =>
            /\ \A e \in Buffered : e[1] # p
            /\ \A q \in Posters \ {p} : \A e \in Carried(q) : e[1] # p

Sorted(s) == \A i, j \in 1 .. Len(s) : i < j => ~Older(s[j], s[i])

\* While flushes do not overlap: there is one flush at most; what it carries
\* is older than what is buffered meanwhile, and that is at most one event of
\* each other poster, which is not past its next TakeBuffer.
InOrder ==
    /\ Sorted(buffer)
    /\ \A p \in Posters : Sorted(posters[p].held)
    /\ \A p, q \in Posters : posters[p].held # <<>> /\ posters[q].held # <<>> => p = q
    /\ \A p \in Posters : \A e \in Carried(p), f \in Buffered : ~Older(f, e)
    /\ \A p \in Posters : posters[p].held # <<>> =>
          /\ \A e \in Buffered : e[1] # p /\ posters[e[1]].pc \in {"idle", "flush"}
          /\ \A i, j \in 1 .. Len(buffer) : buffer[i][1] = buffer[j][1] => i = j
    /\ \A e \in dropped : \A f \in Buffered : ~Older(f, e)
    /\ \A e \in dropped : \A p \in Posters : \A f \in Carried(p) : ~Older(f, e)

\* The inductive invariant behind OldestDropped.
OInv == crossed \/ InOrder

-----------------------------------------------------------------------------
(* Sequences without repetition, and their sets *)

\* The elements of a sequence are those at its indices.
LEMMA SetOfSeq ==
    ASSUME NEW S, NEW s \in Seq(S)
    PROVE  /\ Len(s) \in Nat /\ DOMAIN s = 1 .. Len(s)
           /\ ToSet(s) \subseteq S
           /\ \A e : e \in ToSet(s) <=> \E i \in 1 .. Len(s) : s[i] = e
           /\ ToSet(s) = {} <=> s = <<>>
  <1>1. Len(s) \in Nat /\ DOMAIN s = 1 .. Len(s) /\ \A i \in 1 .. Len(s) : s[i] \in S
    BY LenProperties
  <1>2. /\ ToSet(s) \subseteq S
        /\ \A e : e \in ToSet(s) <=> \E i \in 1 .. Len(s) : s[i] = e
    BY <1>1 DEF ToSet
  <1>3. s # <<>> => s[1] \in ToSet(s)
    <2>1. s # <<>> => 1 \in 1 .. Len(s)
      BY <1>1, EmptySeq
    <2>2. QED
      BY <1>2, <2>1
  <1>4. s = <<>> => ToSet(s) = {}
    BY <1>2
  <1>5. QED
    BY <1>1, <1>2, <1>3, <1>4

\* What the head and the tail hold.
LEMMA TailSet ==
    ASSUME NEW S, NEW s \in Seq(S), s # <<>>
    PROVE  /\ Head(s) \in S /\ Tail(s) \in Seq(S) /\ Len(Tail(s)) = Len(s) - 1
           /\ ToSet(s) = ToSet(Tail(s)) \cup {Head(s)}
           /\ NoRepeat(s) => NoRepeat(Tail(s)) /\ Head(s) \notin ToSet(Tail(s))
           /\ Sorted(s) => /\ Sorted(Tail(s))
                           /\ \A f \in ToSet(Tail(s)) : ~Older(f, Head(s))
  <1>1. /\ Tail(s) \in Seq(S) /\ Len(Tail(s)) = Len(s) - 1
        /\ \A i \in 1 .. Len(Tail(s)) : Tail(s)[i] = s[i + 1]
        /\ Head(s) = s[1] /\ Head(s) \in S /\ Len(s) \in Nat \ {0}
    BY HeadTailProperties, EmptySeq
  <1>2. \A e : e \in ToSet(s) <=> \E i \in 1 .. Len(s) : s[i] = e
    BY SetOfSeq
  <1>3. \A e : e \in ToSet(Tail(s)) <=> \E i \in 1 .. Len(Tail(s)) : Tail(s)[i] = e
    BY <1>1, SetOfSeq
  <1>4. \A i \in 2 .. Len(s) : s[i] = Tail(s)[i - 1] /\ i - 1 \in 1 .. Len(Tail(s))
    BY <1>1
  <1>5. ToSet(s) = ToSet(Tail(s)) \cup {Head(s)}
    <2>1. ASSUME NEW e \in ToSet(s) PROVE e \in ToSet(Tail(s)) \cup {Head(s)}
      <3>1. PICK i \in 1 .. Len(s) : s[i] = e
        BY <1>2
      <3>2. i = 1 \/ i \in 2 .. Len(s)
        OBVIOUS
      <3>3. QED
        BY <1>1, <1>3, <1>4, <3>1, <3>2
    <2>2. ASSUME NEW e \in ToSet(Tail(s)) PROVE e \in ToSet(s)
      <3>1. PICK i \in 1 .. Len(Tail(s)) : Tail(s)[i] = e
        BY <1>3
      <3>2. i + 1 \in 1 .. Len(s) /\ s[i + 1] = e
        BY <1>1, <3>1
      <3>3. QED
        BY <1>2, <3>2
    <2>3. Head(s) \in ToSet(s)
      BY <1>1, <1>2
    <2>4. QED
      BY <2>1, <2>2, <2>3
  <1>6. ASSUME NoRepeat(s) PROVE NoRepeat(Tail(s)) /\ Head(s) \notin ToSet(Tail(s))
    <2>1. ASSUME NEW i \in 1 .. Len(Tail(s)) PROVE Tail(s)[i] # Head(s)
      BY <1>1, <1>6 DEF NoRepeat
    <2>2. ASSUME NEW i \in 1 .. Len(Tail(s)), NEW j \in 1 .. Len(Tail(s)),
                 Tail(s)[i] = Tail(s)[j]
          PROVE  i = j
      <3>1. i + 1 \in 1 .. Len(s) /\ j + 1 \in 1 .. Len(s) /\ s[i + 1] = s[j + 1]
        BY <1>1, <2>2
      <3>2. i + 1 = j + 1
        BY <1>6, <3>1 DEF NoRepeat
      <3>3. QED
        BY <3>2
    <2>3. QED
      BY <1>3, <2>1, <2>2 DEF NoRepeat
  <1>7. ASSUME Sorted(s)
        PROVE  Sorted(Tail(s)) /\ \A f \in ToSet(Tail(s)) : ~Older(f, Head(s))
    <2>1. ASSUME NEW f \in ToSet(Tail(s)) PROVE ~Older(f, Head(s))
      <3>1. PICK i \in 1 .. Len(Tail(s)) : Tail(s)[i] = f
        BY <1>3
      <3>2. 1 \in 1 .. Len(s) /\ i + 1 \in 1 .. Len(s) /\ 1 < i + 1 /\ s[i + 1] = f
        BY <1>1, <3>1
      <3>3. ~Older(s[i + 1], s[1])
        BY <1>7, <3>2 DEF Sorted
      <3>4. QED
        BY <1>1, <3>2, <3>3
    <2>2. ASSUME NEW i \in 1 .. Len(Tail(s)), NEW j \in 1 .. Len(Tail(s)), i < j
          PROVE  ~Older(Tail(s)[j], Tail(s)[i])
      <3>1. /\ i + 1 \in 1 .. Len(s) /\ j + 1 \in 1 .. Len(s) /\ i + 1 < j + 1
            /\ s[i + 1] = Tail(s)[i] /\ s[j + 1] = Tail(s)[j]
        BY <1>1, <2>2
      <3>2. ~Older(s[j + 1], s[i + 1])
        BY <1>7, <3>1 DEF Sorted
      <3>3. QED
        BY <3>1, <3>2
    <2>3. QED
      BY <2>1, <2>2 DEF Sorted
  <1>8. QED
    BY <1>1, <1>5, <1>6, <1>7

\* What one more element adds.
LEMMA AppendSet ==
    ASSUME NEW S, NEW s \in Seq(S), NEW e \in S
    PROVE  /\ Append(s, e) \in Seq(S) /\ Len(Append(s, e)) = Len(s) + 1
           /\ ToSet(Append(s, e)) = ToSet(s) \cup {e}
           /\ NoRepeat(s) /\ e \notin ToSet(s) => NoRepeat(Append(s, e))
           /\ Sorted(s) /\ (\A f \in ToSet(s) : ~Older(e, f)) => Sorted(Append(s, e))
  <1> DEFINE t == Append(s, e)
  <1>1. /\ t \in Seq(S) /\ Len(t) = Len(s) + 1 /\ Len(s) \in Nat
        /\ \A i \in 1 .. Len(s) : t[i] = s[i]
        /\ t[Len(s) + 1] = e
    BY AppendProperties, LenProperties
  <1>2. \A x : x \in ToSet(s) <=> \E i \in 1 .. Len(s) : s[i] = x
    BY SetOfSeq
  <1> HIDE DEF t
  <1>3. \A x : x \in ToSet(t) <=> \E i \in 1 .. Len(t) : t[i] = x
    BY <1>1, SetOfSeq
  <1>4. \A i \in 1 .. Len(t) : i = Len(s) + 1 \/ i \in 1 .. Len(s)
    BY <1>1
  <1>5. ToSet(t) = ToSet(s) \cup {e}
    <2>1. ToSet(t) \subseteq ToSet(s) \cup {e}
      BY <1>1, <1>2, <1>3, <1>4
    <2>2. ToSet(s) \subseteq ToSet(t)
      BY <1>1, <1>2, <1>3
    <2>3. e \in ToSet(t)
      BY <1>1, <1>3
    <2>4. QED
      BY <2>1, <2>2, <2>3
  <1>6. NoRepeat(s) /\ e \notin ToSet(s) => NoRepeat(t)
    BY <1>1, <1>2, <1>4 DEF NoRepeat
  <1>7. Sorted(s) /\ (\A f \in ToSet(s) : ~Older(e, f)) => Sorted(t)
    BY <1>1, <1>2, <1>4 DEF Sorted
  <1>8. QED
    BY <1>1, <1>5, <1>6, <1>7 DEF t

\* What a concatenation holds.
LEMMA ConcatSet ==
    ASSUME NEW S, NEW s \in Seq(S), NEW t \in Seq(S)
    PROVE  /\ s \o t \in Seq(S) /\ Len(s \o t) = Len(s) + Len(t)
           /\ ToSet(s \o t) = ToSet(s) \cup ToSet(t)
           /\ NoRepeat(s) /\ NoRepeat(t) /\ ToSet(s) \cap ToSet(t) = {} => NoRepeat(s \o t)
           /\ Sorted(s) /\ Sorted(t) /\ (\A e \in ToSet(s), f \in ToSet(t) : ~Older(f, e))
                 => Sorted(s \o t)
  <1> DEFINE u == s \o t
  <1>1. /\ u \in Seq(S) /\ Len(u) = Len(s) + Len(t) /\ Len(s) \in Nat /\ Len(t) \in Nat
        /\ \A i \in 1 .. Len(s) + Len(t) :
              u[i] = IF i <= Len(s) THEN s[i] ELSE t[i - Len(s)]
    BY ConcatProperties, LenProperties
  <1>2. /\ \A x : x \in ToSet(s) <=> \E i \in 1 .. Len(s) : s[i] = x
        /\ \A x : x \in ToSet(t) <=> \E i \in 1 .. Len(t) : t[i] = x
    BY SetOfSeq
  <1> HIDE DEF u
  <1>3. \A x : x \in ToSet(u) <=> \E i \in 1 .. Len(u) : u[i] = x
    BY <1>1, SetOfSeq
  <1>4. \A i \in 1 .. Len(u) : \/ i \in 1 .. Len(s) /\ u[i] = s[i]
                               \/ /\ i > Len(s) /\ i - Len(s) \in 1 .. Len(t)
                                  /\ u[i] = t[i - Len(s)]
    BY <1>1
  <1>5. \A i \in 1 .. Len(t) : i + Len(s) \in 1 .. Len(u) /\ u[i + Len(s)] = t[i]
    BY <1>1
  <1> DEFINE left(i) == i \in 1 .. Len(s)
  <1>10. \A i \in 1 .. Len(u) : IF left(i) THEN u[i] \in ToSet(s) ELSE u[i] \in ToSet(t)
    BY <1>1, <1>2, <1>4
  <1>6. ToSet(u) = ToSet(s) \cup ToSet(t)
    <2>1. ToSet(u) \subseteq ToSet(s) \cup ToSet(t)
      BY <1>2, <1>3, <1>4
    <2>2. ToSet(s) \subseteq ToSet(u)
      BY <1>1, <1>2, <1>3
    <2>3. ToSet(t) \subseteq ToSet(u)
      BY <1>2, <1>3, <1>5
    <2>4. QED
      BY <2>1, <2>2, <2>3
  <1>7. ASSUME NoRepeat(s), NoRepeat(t), ToSet(s) \cap ToSet(t) = {} PROVE NoRepeat(u)
    <2>1. ASSUME NEW i \in 1 .. Len(u), NEW j \in 1 .. Len(u), u[i] = u[j] PROVE i = j
      <3>1. CASE i \in 1 .. Len(s) /\ u[i] = s[i] /\ j \in 1 .. Len(s) /\ u[j] = s[j]
        BY <1>7, <2>1, <3>1 DEF NoRepeat
      <3>2. CASE /\ i - Len(s) \in 1 .. Len(t) /\ u[i] = t[i - Len(s)]
                 /\ j - Len(s) \in 1 .. Len(t) /\ u[j] = t[j - Len(s)]
        <4>1. i - Len(s) = j - Len(s)
          BY <1>7, <2>1, <3>2 DEF NoRepeat
        <4>2. QED
          BY <1>1, <4>1
      <3>3. CASE ~(left(i) <=> left(j))
        <4> HIDE DEF left
        <4>1. QED
          BY <1>10, <1>7, <2>1, <3>3
      <3>4. QED
        BY <1>1, <1>4, <3>1, <3>2, <3>3
    <2>2. QED
      BY <2>1 DEF NoRepeat
  <1>8. ASSUME Sorted(s), Sorted(t), \A e \in ToSet(s), f \in ToSet(t) : ~Older(f, e)
        PROVE  Sorted(u)
    <2>1. ASSUME NEW i \in 1 .. Len(u), NEW j \in 1 .. Len(u), i < j
          PROVE  ~Older(u[j], u[i])
      <3>1. CASE i \in 1 .. Len(s) /\ u[i] = s[i] /\ j \in 1 .. Len(s) /\ u[j] = s[j]
        BY <1>8, <2>1, <3>1 DEF Sorted
      <3>2. CASE /\ i - Len(s) \in 1 .. Len(t) /\ u[i] = t[i - Len(s)]
                 /\ j - Len(s) \in 1 .. Len(t) /\ u[j] = t[j - Len(s)]
        <4>1. i - Len(s) < j - Len(s)
          BY <1>1, <2>1
        <4>2. QED
          BY <1>8, <3>2, <4>1 DEF Sorted
      <3>3. CASE left(i) /\ ~left(j)
        <4> HIDE DEF left
        <4>1. QED
          BY <1>10, <1>8, <3>3
      <3>4. QED
        BY <1>1, <1>4, <2>1, <3>1, <3>2, <3>3
    <2>2. QED
      BY <2>1 DEF Sorted
  <1>9. QED
    BY <1>1, <1>6, <1>7, <1>8 DEF u

\* What the two parts of a cut sequence hold.
LEMMA CutSet ==
    ASSUME NEW S, NEW s \in Seq(S), NEW k \in 0 .. Len(s)
    PROVE  LET lo == SubSeq(s, 1, k)
               hi == SubSeq(s, k + 1, Len(s))
           IN  /\ lo \in Seq(S) /\ Len(lo) = k
               /\ hi \in Seq(S) /\ Len(hi) = Len(s) - k
               /\ ToSet(s) = ToSet(lo) \cup ToSet(hi)
               /\ NoRepeat(s) => NoRepeat(hi) /\ ToSet(lo) \cap ToSet(hi) = {}
               /\ Sorted(s) => /\ Sorted(hi)
                               /\ \A e \in ToSet(lo), f \in ToSet(hi) : ~Older(f, e)
  <1> DEFINE lo == SubSeq(s, 1, k)
             hi == SubSeq(s, k + 1, Len(s))
  <1>1. Len(s) \in Nat /\ k \in Nat /\ k <= Len(s) /\ \A i \in 1 .. Len(s) : s[i] \in S
    BY LenProperties
  <1>2. lo \in Seq(S) /\ Len(lo) = k /\ \A i \in 1 .. k : lo[i] = s[i]
    BY <1>1, SubSeqProperties
  <1>3. /\ hi \in Seq(S) /\ Len(hi) = Len(s) - k
        /\ \A i \in 1 .. Len(s) - k : hi[i] = s[k + i]
    BY <1>1, SubSeqProperties
  <1> HIDE DEF lo, hi
  <1>4. /\ \A x : x \in ToSet(s) <=> \E i \in 1 .. Len(s) : s[i] = x
        /\ \A x : x \in ToSet(lo) <=> \E i \in 1 .. k : lo[i] = x
        /\ \A x : x \in ToSet(hi) <=> \E i \in 1 .. Len(s) - k : hi[i] = x
    BY <1>2, <1>3, SetOfSeq
  <1>5. \A i \in 1 .. Len(s) : \/ i \in 1 .. k /\ s[i] = lo[i]
                               \/ i - k \in 1 .. Len(s) - k /\ s[i] = hi[i - k]
    BY <1>1, <1>2, <1>3
  <1>6. \A i \in 1 .. Len(s) - k : k + i \in 1 .. Len(s) /\ s[k + i] = hi[i]
    BY <1>1, <1>3
  <1>7. \A i \in 1 .. k : i \in 1 .. Len(s) /\ s[i] = lo[i]
    BY <1>1, <1>2
  <1>8. ToSet(s) = ToSet(lo) \cup ToSet(hi)
    <2>1. ToSet(s) \subseteq ToSet(lo) \cup ToSet(hi)
      BY <1>4, <1>5
    <2>2. ToSet(lo) \subseteq ToSet(s)
      BY <1>4, <1>7
    <2>3. ToSet(hi) \subseteq ToSet(s)
      BY <1>4, <1>6
    <2>4. QED
      BY <2>1, <2>2, <2>3
  <1>9. ASSUME NoRepeat(s) PROVE NoRepeat(hi) /\ ToSet(lo) \cap ToSet(hi) = {}
    <2>1. ASSUME NEW i \in 1 .. Len(hi), NEW j \in 1 .. Len(hi), hi[i] = hi[j] PROVE i = j
      <3>1. k + i = k + j
        BY <1>3, <1>6, <1>9, <2>1 DEF NoRepeat
      <3>2. QED
        BY <1>1, <3>1
    <2>2. ASSUME NEW i \in 1 .. k, NEW j \in 1 .. Len(s) - k PROVE lo[i] # hi[j]
      <3>1. i # k + j
        BY <1>1
      <3>2. QED
        BY <1>6, <1>7, <1>9, <3>1 DEF NoRepeat
    <2>3. QED
      BY <1>4, <2>1, <2>2 DEF NoRepeat
  <1>10. ASSUME Sorted(s)
         PROVE  Sorted(hi) /\ \A e \in ToSet(lo), f \in ToSet(hi) : ~Older(f, e)
    <2>1. ASSUME NEW i \in 1 .. Len(hi), NEW j \in 1 .. Len(hi), i < j
          PROVE  ~Older(hi[j], hi[i])
      <3>1. k + i < k + j
        BY <1>1, <2>1
      <3>2. QED
        BY <1>3, <1>6, <1>10, <3>1 DEF Sorted
    <2>2. ASSUME NEW i \in 1 .. k, NEW j \in 1 .. Len(s) - k PROVE ~Older(hi[j], lo[i])
      <3>1. i < k + j
        BY <1>1
      <3>2. QED
        BY <1>6, <1>7, <1>10, <3>1 DEF Sorted
    <2>3. QED
      BY <1>4, <2>1, <2>2 DEF Sorted
  <1>11. QED
    BY <1>2, <1>3, <1>8, <1>9, <1>10 DEF lo, hi

\* Without repetition there are as many elements as places.
LEMMA CardinalityOfSeq ==
    ASSUME NEW S, NEW s \in Seq(S), NoRepeat(s)
    PROVE  IsFiniteSet(ToSet(s)) /\ Cardinality(ToSet(s)) = Len(s)
  <1>1. /\ Len(s) \in Nat
        /\ \A e : e \in ToSet(s) <=> \E i \in 1 .. Len(s) : s[i] = e
    BY SetOfSeq
  <1> DEFINE f == [i \in 1 .. Len(s) |-> s[i]]
  <1>2. f \in Bijection(1 .. Len(s), ToSet(s))
    BY <1>1 DEF NoRepeat, Bijection, Injection, Surjection, IsInjective
  <1>3. ExistsBijection(1 .. Len(s), ToSet(s))
    BY <1>2 DEF ExistsBijection
  <1>4. IsFiniteSet(1 .. Len(s)) /\ Cardinality(1 .. Len(s)) = Len(s)
    BY <1>1, FS_Interval
  <1>5. QED
    BY <1>3, <1>4, FS_Bijection

-----------------------------------------------------------------------------
(* What a step does to the posters *)

PosterRecs == [pc : Steps, cur : Events \cup {<<>>}, held : Seq(Events), clean : BOOLEAN]

\* Events are pairs.
LEMMA EventPairs ==
    /\ \A e \in Events : e[1] \in Posters /\ e[2] \in 1 .. MaxEvents /\ e = <<e[1], e[2]>>
    /\ \A e \in Events : e # <<>>
    /\ \A p \in Posters, n \in 1 .. MaxEvents :
          /\ <<p, n>> \in Events /\ <<p, n>>[1] = p /\ <<p, n>>[2] = n
  BY DEF Events

\* Of the events of a poster, those up to its last are produced, and all but
\* the one of the call under way are past.
LEMMA PastEvents ==
    ASSUME TypeOK, PosterShape, NEW e \in Events
    PROVE  /\ e \in Produced <=> e[2] <= posted[e[1]]
           /\ posters[e[1]].pc = "idle" => (e \in Past <=> e[2] <= posted[e[1]])
           /\ posters[e[1]].pc # "idle" => (e \in Past <=> e[2] < posted[e[1]])
  <1> DEFINE p == e[1]
             n == e[2]
  <1>1. p \in Posters /\ n \in 1 .. MaxEvents /\ e = <<p, n>> /\ e # <<>>
    BY EventPairs
  <1>2. posted[p] \in 0 .. MaxEvents /\ MaxEvents \in Nat
    BY <1>1, BufferAssumption DEF TypeOK
  <1>3. e \in Produced <=> n <= posted[p]
    BY DEF Produced
  <1>4. CASE posters[p].pc = "idle"
    <2>1. posters[p].cur = <<>>
      BY <1>1, <1>4 DEF PosterShape
    <2>2. QED
      BY <1>1, <1>3, <1>4, <2>1 DEF Past
  <1>5. CASE posters[p].pc # "idle"
    <2>1. posters[p].cur = <<p, posted[p]>>
      BY <1>1, <1>5 DEF PosterShape
    <2>2. posters[p].cur = e <=> n = posted[p]
      BY <1>1, <2>1
    <2>3. e \in Past <=> n <= posted[p] /\ n # posted[p]
      BY <1>3, <2>2 DEF Past
    <2>4. n <= posted[p] /\ n # posted[p] <=> n < posted[p]
      BY <1>1, <1>2
    <2> HIDE DEF n
    <2>5. QED
      BY <1>3, <1>5, <2>3, <2>4 DEF n
  <1>6. QED
    BY <1>4, <1>5, <1>3

\* The event of a call under way is produced and not past, so it is nowhere
\* else, and no past event of its poster is newer.
LEMMA CurrentEvent ==
    ASSUME AInv, NEW p \in Posters, posters[p].pc # "idle"
    PROVE  /\ posters[p].cur \in Events /\ posters[p].cur[1] = p
           /\ posters[p].cur \in Produced /\ posters[p].cur \notin Past
           /\ posters[p].cur \notin acked \cup dropped \cup Buffered
           /\ \A q \in Posters : posters[p].cur \notin Carried(q)
           /\ \A e \in Past : ~Older(posters[p].cur, e)
  <1> DEFINE c == posters[p].cur
  <1>1. c = <<p, posted[p]>> /\ posted[p] \in 1 .. MaxEvents
    BY BufferAssumption DEF AInv, TypeOK, PosterShape
  <1>2. c \in Events /\ c[1] = p /\ c[2] = posted[p]
    BY <1>1, EventPairs
  <1>3. posted[p] \in Nat
    BY <1>1
  <1> HIDE DEF c
  <1>4. c \in Produced /\ c \notin Past
    BY <1>2, <1>3, PastEvents DEF AInv
  <1>5. ASSUME NEW e \in Past PROVE ~Older(c, e)
    <2>1. e \in Events /\ e[2] \in Nat
      BY EventPairs, BufferAssumption DEF Past, Produced
    <2>2. e[1] = p => e[2] < posted[p]
      BY <1>5, <2>1, PastEvents DEF AInv
    <2>3. QED
      BY <1>2, <1>3, <2>1, <2>2 DEF Older
  <1>6. QED
    BY <1>2, <1>4, <1>5 DEF AInv, EventsKept, c

\* One poster moves; the others stay.
LEMMA PosterMoves ==
    ASSUME TypeOK, NEW p \in Posters, NEW rec \in PosterRecs,
           posters' = [posters EXCEPT ![p] = rec]
    PROVE  /\ posters' \in [Posters -> PosterRecs]
           /\ posters'[p] = rec
           /\ \A q \in Posters \ {p} : posters'[q] = posters[q]
           /\ \A q \in Posters \ {p} : Carried(q)' = Carried(q)
  BY DEF TypeOK, PosterRecs, Carried

\* A poster goes on with its call.
LEMMA PosterContinues ==
    ASSUME AInv, NEW p \in Posters, NEW rec \in PosterRecs,
           posters' = [posters EXCEPT ![p] = rec], UNCHANGED posted,
           posters[p].pc # "idle", rec.pc # "idle", rec.cur = posters[p].cur,
           rec.held # <<>> <=> rec.pc \in {"flushing", "rebuffer"}
    PROVE  PosterShape' /\ Past' = Past
  <1>1. /\ posters'[p] = rec
        /\ \A q \in Posters \ {p} : posters'[q] = posters[q]
    BY PosterMoves DEF AInv
  <1>2. \A q \in Posters : posters'[q].cur = posters[q].cur
    BY <1>1
  <1>3. ASSUME NEW q \in Posters
        PROVE  /\ posters'[q].held # <<>> <=> posters'[q].pc \in {"flushing", "rebuffer"}
               /\ posters'[q].pc = "idle" => posters'[q].cur = <<>>
               /\ posters'[q].pc # "idle" =>
                     posters'[q].cur = <<q, posted'[q]>> /\ posted'[q] > 0
    BY <1>1 DEF AInv, PosterShape
  <1>4. Produced' = Produced
    BY DEF Produced
  <1>5. Past' = Past
    BY <1>2, <1>4, EventPairs DEF Past, Produced
  <1>6. QED
    BY <1>3, <1>5 DEF PosterShape

\* A call ends, and its event is past.
LEMMA PosterEnds ==
    ASSUME AInv, NEW p \in Posters, posters' = [posters EXCEPT ![p] = Idle],
           UNCHANGED posted, posters[p].pc # "idle"
    PROVE  /\ posters' \in [Posters -> PosterRecs]
           /\ posters'[p] = Idle /\ \A q \in Posters \ {p} : posters'[q] = posters[q]
           /\ Carried(p)' = {} /\ \A q \in Posters \ {p} : Carried(q)' = Carried(q)
           /\ PosterShape'
           /\ Past' = Past \cup {posters[p].cur}
  <1> DEFINE c == posters[p].cur
  <1>1. Idle \in PosterRecs
    BY DEF Idle, PosterRecs, Steps
  <1>2. /\ posters' \in [Posters -> PosterRecs] /\ posters'[p] = Idle
        /\ \A q \in Posters \ {p} : posters'[q] = posters[q]
        /\ \A q \in Posters \ {p} : Carried(q)' = Carried(q)
    BY <1>1, PosterMoves DEF AInv
  <1>3. Carried(p)' = {}
    BY <1>2 DEF Carried, Idle, ToSet
  <1>4. PosterShape'
    <2>1. Idle.pc = "idle" /\ Idle.cur = <<>> /\ Idle.held = <<>>
      BY DEF Idle
    <2>2. ASSUME NEW q \in Posters
          PROVE  /\ posters'[q].held # <<>> <=> posters'[q].pc \in {"flushing", "rebuffer"}
                 /\ posters'[q].pc = "idle" => posters'[q].cur = <<>>
                 /\ posters'[q].pc # "idle" =>
                       posters'[q].cur = <<q, posted'[q]>> /\ posted'[q] > 0
      BY <1>2, <2>1 DEF AInv, PosterShape
    <2>3. QED
      BY <2>2 DEF PosterShape
  <1>5. c \in Events /\ c[1] = p /\ c \in Produced
    BY CurrentEvent
  <1>6. Produced' = Produced /\ Produced \subseteq Events
    BY DEF Produced
  <1>7. posters'[p].cur = <<>>
    BY <1>2 DEF Idle
  <1>8. Past' = Past \cup {c}
    <2> HIDE DEF c
    <2>1. ASSUME NEW e \in Produced
          PROVE  posters'[e[1]].cur # e <=> (posters[e[1]].cur # e \/ e = c)
      <3>1. e[1] \in Posters /\ e # <<>>
        BY <1>6, EventPairs
      <3>2. CASE e[1] = p
        BY <1>7, <3>1, <3>2 DEF c
      <3>3. CASE e[1] # p
        BY <1>2, <1>5, <3>1, <3>3
      <3>4. QED
        BY <3>2, <3>3
    <2>2. QED
      BY <1>5, <1>6, <2>1 DEF Past
  <1>9. QED
    BY <1>2, <1>3, <1>4, <1>8

-----------------------------------------------------------------------------
(* Where the events are *)

LEMMA AInvInit == BufferInit => AInv
  <1> SUFFICES ASSUME BufferInit PROVE AInv
    OBVIOUS
  <1>1. /\ buffer = <<>> /\ acked = {} /\ dropped = {} /\ stored = {}
        /\ healed = FALSE /\ crossed = FALSE
        /\ posters = [p \in Posters |-> Idle] /\ posted = [p \in Posters |-> 0]
    BY DEF BufferInit
  <1>2. Idle \in PosterRecs
    BY DEF Idle, PosterRecs, Steps
  <1>3. buffer \in Seq(Events) /\ Len(buffer) = 0
    BY <1>1, EmptySeq
  <1>4. healed \in BOOLEAN /\ crossed \in BOOLEAN
    BY <1>1, Zenon
  <1>5. TypeOK
    BY <1>1, <1>2, <1>3, <1>4, BufferAssumption DEF TypeOK, PosterRecs
  <1>6. \A p \in Posters : posters[p].pc = "idle" /\ posters[p].cur = <<>>
                           /\ posters[p].held = <<>>
    BY <1>1 DEF Idle
  <1>7. PosterShape
    BY <1>6 DEF PosterShape
  <1>8. Produced = {}
    <2>1. ASSUME NEW e \in Produced PROVE FALSE
      <3>1. e \in Events /\ e[2] <= posted[e[1]]
        BY <2>1 DEF Produced
      <3>2. QED
        BY <1>1, <3>1, EventPairs, BufferAssumption
    <2>2. QED
      BY <2>1
  <1>9. Buffered = {} /\ \A p \in Posters : Carried(p) = {}
    BY <1>1, <1>6 DEF Buffered, Carried, ToSet
  <1>10. EventsApart
    BY <1>1, <1>6, <1>9, EmptySeq DEF EventsApart, NoRepeat
  <1>11. EventsKept
    BY <1>1, <1>8, <1>9 DEF EventsKept, Past
  <1>12. QED
    BY <1>5, <1>7, <1>10, <1>11 DEF AInv

\* A call begins: one more event is produced, and it is the call's own.
LEMMA PostStarts ==
    ASSUME AInv, NEW p \in Posters, post_runtime_event(p)
    PROVE  /\ AInv' /\ Past' = Past
           /\ Produced' = Produced \cup {NextEvent(p)}
           /\ NextEvent(p) \in Events \ Produced
           /\ \A q \in Posters : Carried(q)' = Carried(q)
  <1> DEFINE c == NextEvent(p)
             rec == [Idle EXCEPT !.pc = "flush", !.cur = c]
  <1>1. /\ posters[p].pc = "idle" /\ posted[p] < MaxEvents
        /\ posted' = [posted EXCEPT ![p] = @ + 1]
        /\ posters' = [posters EXCEPT ![p] = rec]
        /\ UNCHANGED <<buffer, stored, acked, dropped, healed, crossed>>
    BY DEF post_runtime_event
  <1>2. posted[p] \in 0 .. MaxEvents /\ MaxEvents \in Nat
    BY BufferAssumption DEF AInv, TypeOK
  <1>3. c = <<p, posted[p] + 1>> /\ posted[p] + 1 \in 1 .. MaxEvents
    BY <1>1, <1>2 DEF NextEvent
  <1>4. c \in Events /\ c[1] = p /\ c[2] = posted[p] + 1 /\ c # <<>>
    BY <1>3, EventPairs
  <1> HIDE DEF c
  <1>5. /\ rec.pc = "flush" /\ rec.cur = c /\ rec.held = <<>> /\ rec \in PosterRecs
    <2>1. Idle \in PosterRecs /\ Idle.held = <<>>
      BY DEF Idle, PosterRecs, Steps
    <2>2. QED
      BY <1>4, <2>1 DEF PosterRecs, Steps
  <1> HIDE DEF rec
  <1>6. /\ posters' \in [Posters -> PosterRecs] /\ posters'[p] = rec
        /\ \A q \in Posters \ {p} : posters'[q] = posters[q]
        /\ \A q \in Posters \ {p} : Carried(q)' = Carried(q)
    BY <1>1, <1>5, PosterMoves DEF AInv
  <1>7. posters[p].held = <<>> /\ posters[p].cur = <<>>
    BY <1>1 DEF AInv, PosterShape
  <1>8. \A q \in Posters : Carried(q)' = Carried(q)
    BY <1>5, <1>6, <1>7 DEF Carried
  <1>9. /\ posted' \in [Posters -> 0 .. MaxEvents] /\ posted'[p] = posted[p] + 1
        /\ \A q \in Posters \ {p} : posted'[q] = posted[q]
    BY <1>1, <1>2 DEF AInv, TypeOK
  <1>10. TypeOK'
    BY <1>1, <1>6, <1>9 DEF AInv, TypeOK, PosterRecs
  <1>11. PosterShape'
    <2>1. ASSUME NEW q \in Posters
          PROVE  /\ posters'[q].held # <<>> <=> posters'[q].pc \in {"flushing", "rebuffer"}
                 /\ posters'[q].pc = "idle" => posters'[q].cur = <<>>
                 /\ posters'[q].pc # "idle" =>
                       posters'[q].cur = <<q, posted'[q]>> /\ posted'[q] > 0
      <3>1. CASE q = p
        BY <1>2, <1>3, <1>5, <1>6, <1>9, <3>1
      <3>2. CASE q # p
        BY <1>6, <1>9, <3>2 DEF AInv, PosterShape
      <3>3. QED
        BY <3>1, <3>2
    <2>2. QED
      BY <2>1 DEF PosterShape
  <1>12. c \notin Produced
    BY <1>2, <1>4 DEF Produced
  <1>13. Produced' = Produced \cup {c}
    <2>1. ASSUME NEW e \in Events
          PROVE  e[2] <= posted'[e[1]] <=> (e[2] <= posted[e[1]] \/ e = c)
      <3>1. e[1] \in Posters /\ e[2] \in 1 .. MaxEvents /\ e = <<e[1], e[2]>>
        BY EventPairs
      <3>2. CASE e[1] # p
        BY <1>4, <1>9, <3>1, <3>2
      <3>3. CASE e[1] = p
        <4>1. e[2] <= posted[p] + 1 <=> (e[2] <= posted[p] \/ e[2] = posted[p] + 1)
          BY <1>2, <3>1
        <4>2. e = c <=> e[2] = posted[p] + 1
          BY <1>3, <3>1, <3>3
        <4>3. QED
          BY <1>9, <3>3, <4>1, <4>2
      <3>4. QED
        BY <3>2, <3>3
    <2>2. QED
      BY <1>4, <2>1 DEF Produced
  <1>14. Past' = Past
    <2>1. ASSUME NEW e \in Produced' PROVE posters'[e[1]].cur # e <=> e # c /\ e \in Past
      <3>1. e \in Events /\ e[1] \in Posters /\ e # <<>>
        BY <1>4, <1>13, <2>1, EventPairs DEF Produced
      <3>2. e # c => e \in Produced
        BY <1>13, <2>1
      <3>3. CASE e[1] = p
        BY <1>5, <1>6, <1>7, <3>1, <3>2, <3>3 DEF Past
      <3>4. CASE e[1] # p
        BY <1>4, <1>6, <3>1, <3>2, <3>4 DEF Past
      <3>5. QED
        BY <3>3, <3>4
    <2>2. \A e \in Past : e \in Produced /\ e # c
      BY <1>12 DEF Past
    <2>3. QED
      BY <1>13, <2>1, <2>2 DEF Past
  <1>15. Buffered' = Buffered
    BY <1>1 DEF Buffered
  <1>16. EventsApart'
    <2>1. \A q \in Posters : posters'[q].held = posters[q].held
      BY <1>5, <1>6, <1>7
    <2>2. QED
      BY <1>1, <1>8, <1>15, <2>1 DEF AInv, EventsApart
  <1>17. EventsKept'
    BY <1>1, <1>8, <1>14, <1>15 DEF AInv, EventsKept
  <1>18. QED
    BY <1>4, <1>8, <1>10, <1>11, <1>12, <1>13, <1>14, <1>16, <1>17 DEF AInv, c

\* A flush takes everything buffered.
LEMMA TakeMoves ==
    ASSUME AInv, NEW p \in Posters, TakeBuffer(p)
    PROVE  /\ AInv' /\ Past' = Past /\ Produced' = Produced
           /\ Carried(p) = {} /\ Buffered' = {} /\ Carried(p)' = Buffered
           /\ \A q \in Posters \ {p} : Carried(q)' = Carried(q)
           /\ \A q \in Posters \ {p} : posters'[q] = posters[q]
           /\ posters'[p].pc = (IF buffer = <<>> THEN "post" ELSE "flushing")
           /\ posters'[p].held = buffer
           /\ posters'[p].clean =>
                 \A q \in Posters \ {p} : \A e \in Carried(q) : e[1] # p
  <1> DEFINE flag == \A q \in Posters \ {p} : \A e \in ToSet(posters[q].held) : e[1] # p
             rec == [posters[p] EXCEPT !.pc = IF buffer = <<>> THEN "post" ELSE "flushing",
                                       !.held = buffer, !.clean = flag]
  <1>1. /\ posters[p].pc = "flush" /\ buffer' = <<>>
        /\ UNCHANGED <<posted, stored, acked, dropped, healed>>
    BY DEF TakeBuffer
  <1>2. /\ posters[p] \in PosterRecs /\ posters[p].cur \in Events \cup {<<>>}
        /\ buffer \in Seq(Events)
    BY DEF AInv, TypeOK, PosterRecs
  <1>3. flag \in BOOLEAN
    BY Zenon
  <1>4. posters' = [posters EXCEPT ![p] = rec]
    BY DEF TakeBuffer, AInv, TypeOK
  <1>5. /\ rec \in PosterRecs /\ rec.cur = posters[p].cur /\ rec.held = buffer
        /\ rec.pc = (IF buffer = <<>> THEN "post" ELSE "flushing") /\ rec.clean = flag
    <2> HIDE DEF flag
    <2>1. QED
      BY <1>2, <1>3 DEF PosterRecs, Steps
  <1>6. rec.clean => \A q \in Posters \ {p} : \A e \in Carried(q) : e[1] # p
    BY <1>5 DEF Carried
  <1> HIDE DEF rec
  <1>7. /\ posters' \in [Posters -> PosterRecs] /\ posters'[p] = rec
        /\ \A q \in Posters \ {p} : posters'[q] = posters[q]
        /\ \A q \in Posters \ {p} : Carried(q)' = Carried(q)
    BY <1>4, <1>5, PosterMoves DEF AInv
  <1>8. PosterShape' /\ Past' = Past
    <2>1. /\ rec.pc # "idle" /\ posters[p].pc # "idle"
          /\ rec.held # <<>> <=> rec.pc \in {"flushing", "rebuffer"}
      BY <1>1, <1>5
    <2>2. QED
      BY <1>1, <1>4, <1>5, <2>1, PosterContinues
  <1>9. Produced' = Produced
    BY <1>1 DEF Produced
  <1>10. posters[p].held = <<>>
    BY <1>1 DEF AInv, PosterShape
  <1>11. Carried(p) = {} /\ Buffered' = {}
    BY <1>1, <1>10 DEF Carried, Buffered, ToSet
  <1>12. Carried(p)' = Buffered
    BY <1>5, <1>7 DEF Carried, Buffered
  <1>13. TypeOK'
    <2>1. crossed' \in BOOLEAN
      BY Zenon DEF TakeBuffer, AInv, TypeOK
    <2>2. buffer' \in Seq(Events) /\ Len(buffer') <= Cap
      BY <1>1, EmptySeq, BufferAssumption
    <2>3. QED
      BY <1>1, <1>7, <2>1, <2>2 DEF AInv, TypeOK, PosterRecs
  <1>14. EventsApart'
    <2>1. NoRepeat(buffer')
      BY <1>1, EmptySeq DEF NoRepeat
    <2>2. \A q \in Posters : NoRepeat(posters'[q].held)
      BY <1>5, <1>7 DEF AInv, EventsApart
    <2>3. QED
      BY <1>1, <1>7, <1>11, <1>12, <2>1, <2>2 DEF AInv, EventsApart
  <1>15. EventsKept'
    BY <1>1, <1>7, <1>8, <1>11, <1>12 DEF AInv, EventsKept
  <1>16. QED
    BY <1>5, <1>6, <1>7, <1>8, <1>9, <1>11, <1>12, <1>13, <1>14, <1>15 DEF AInv

\* The events a request is about are open; what it stores and acknowledges
\* stays within what is produced.
LEMMA RequestTypes ==
    ASSUME TypeOK, NEW e \in Events, NEW outcome, Request(e, outcome)
    PROVE  stored' \subseteq Events /\ acked' \subseteq Events
  BY DEF Request, TypeOK

\* A flush that fails keeps all it carries, and goes to put it back.
LEMMA FlushFails ==
    ASSUME AInv, NEW p \in Posters, NEW outcome, outcome # "ok",
           posters[p].pc = "flushing", Request(Head(posters[p].held), outcome),
           posters' = [posters EXCEPT ![p] = [@ EXCEPT !.pc = "rebuffer"]],
           UNCHANGED <<buffer, posted, dropped, healed, crossed>>
    PROVE  /\ AInv' /\ Past' = Past /\ Produced' = Produced
           /\ Head(posters[p].held) \in Carried(p)
           /\ acked' = acked
           /\ \A q \in Posters : Carried(q)' = Carried(q)
           /\ \A q \in Posters : posters'[q].held = posters[q].held
           /\ \A q \in Posters \ {p} : posters'[q] = posters[q]
           /\ posters'[p].pc = "rebuffer"
  <1> DEFINE rec == [posters[p] EXCEPT !.pc = "rebuffer"]
  <1>1. posters[p] \in PosterRecs /\ posters[p].held \in Seq(Events)
    BY DEF AInv, TypeOK, PosterRecs
  <1>2. /\ rec \in PosterRecs /\ rec.pc = "rebuffer" /\ rec.cur = posters[p].cur
        /\ rec.held = posters[p].held
    BY <1>1 DEF PosterRecs, Steps
  <1>3. posters[p].held # <<>>
    BY DEF AInv, PosterShape
  <1>4. posters' = [posters EXCEPT ![p] = rec]
    OBVIOUS
  <1> HIDE DEF rec
  <1>5. /\ posters' \in [Posters -> PosterRecs] /\ posters'[p] = rec
        /\ \A q \in Posters \ {p} : posters'[q] = posters[q]
    BY <1>2, <1>4, PosterMoves DEF AInv
  <1>6. /\ \A q \in Posters : posters'[q].held = posters[q].held
        /\ \A q \in Posters : Carried(q)' = Carried(q)
    BY <1>2, <1>5 DEF Carried
  <1>7. PosterShape' /\ Past' = Past
    <2>1. rec.pc # "idle" /\ posters[p].pc # "idle"
      BY <1>2
    <2>2. QED
      BY <1>2, <1>3, <1>4, <2>1, PosterContinues
  <1>8. Produced' = Produced /\ Buffered' = Buffered
    BY DEF Produced, Buffered
  <1>9. /\ Head(posters[p].held) \in Events
        /\ Head(posters[p].held) \in Carried(p)
    BY <1>1, <1>3, TailSet DEF Carried
  <1>10. acked' = acked
    BY DEF Request
  <1>11. TypeOK'
    BY <1>5, <1>9, RequestTypes DEF AInv, TypeOK, PosterRecs
  <1>12. EventsApart'
    BY <1>6, <1>8, <1>10 DEF AInv, EventsApart
  <1>13. EventsKept'
    BY <1>6, <1>7, <1>8, <1>10 DEF AInv, EventsKept
  <1>14. QED
    BY <1>2, <1>5, <1>6, <1>7, <1>8, <1>9, <1>10, <1>11, <1>12, <1>13 DEF AInv

\* A flush that succeeds hands its first event over.
LEMMA FlushSucceeds ==
    ASSUME AInv, NEW p \in Posters,
           posters[p].pc = "flushing", Request(Head(posters[p].held), "ok"),
           posters' = [posters EXCEPT ![p] =
              [@ EXCEPT !.held = Tail(posters[p].held),
                        !.pc = IF Len(posters[p].held) = 1 THEN "post" ELSE "flushing"]],
           UNCHANGED <<buffer, posted, dropped, healed, crossed>>
    PROVE  /\ AInv' /\ Past' = Past /\ Produced' = Produced
           /\ Head(posters[p].held) \in Carried(p)
           /\ acked' = acked \cup {Head(posters[p].held)}
           /\ Carried(p)' \subseteq Carried(p)
           /\ \A q \in Posters \ {p} : Carried(q)' = Carried(q)
           /\ \A q \in Posters \ {p} : posters'[q] = posters[q]
           /\ posters'[p].held = Tail(posters[p].held) /\ posters[p].held # <<>>
           /\ posters'[p].pc \in {"flushing", "post"}
           /\ posters'[p].clean = posters[p].clean
  <1> DEFINE held == posters[p].held
             h == Head(held)
             rec == [posters[p] EXCEPT !.held = Tail(held),
                        !.pc = IF Len(held) = 1 THEN "post" ELSE "flushing"]
  <1>1. posters[p] \in PosterRecs /\ held \in Seq(Events)
    BY DEF AInv, TypeOK, PosterRecs
  <1>2. held # <<>>
    BY DEF AInv, PosterShape
  <1>3. NoRepeat(held)
    BY DEF AInv, EventsApart
  <1>4. posters' = [posters EXCEPT ![p] = rec]
    OBVIOUS
  <1> HIDE DEF held
  <1>5. /\ h \in Events /\ Tail(held) \in Seq(Events) /\ Len(Tail(held)) = Len(held) - 1
        /\ ToSet(held) = ToSet(Tail(held)) \cup {h}
        /\ NoRepeat(Tail(held)) /\ h \notin ToSet(Tail(held))
        /\ Len(held) \in Nat \ {0}
    BY <1>1, <1>2, <1>3, TailSet, EmptySeq
  <1>6. Tail(held) = <<>> <=> Len(held) = 1
    <2>1. Tail(held) # <<>> => Len(Tail(held)) \in Nat \ {0}
      BY <1>5, EmptySeq
    <2>2. Tail(held) = <<>> => Len(Tail(held)) = 0
      BY EmptySeq
    <2>3. QED
      BY <1>5, <2>1, <2>2
  <1>7. /\ rec \in PosterRecs /\ rec.cur = posters[p].cur /\ rec.held = Tail(held)
        /\ rec.pc = (IF Len(held) = 1 THEN "post" ELSE "flushing")
        /\ rec.clean = posters[p].clean
    BY <1>1, <1>5 DEF PosterRecs, Steps
  <1> HIDE DEF rec, h
  <1>8. /\ posters' \in [Posters -> PosterRecs] /\ posters'[p] = rec
        /\ \A q \in Posters \ {p} : posters'[q] = posters[q]
        /\ \A q \in Posters \ {p} : Carried(q)' = Carried(q)
    BY <1>4, <1>7, PosterMoves DEF AInv
  <1>9. PosterShape' /\ Past' = Past
    <2>1. /\ rec.pc # "idle" /\ posters[p].pc # "idle"
          /\ rec.held # <<>> <=> rec.pc \in {"flushing", "rebuffer"}
      BY <1>6, <1>7
    <2>2. QED
      BY <1>4, <1>7, <2>1, PosterContinues
  <1>10. Produced' = Produced /\ Buffered' = Buffered
    BY DEF Produced, Buffered
  <1>11. Carried(p) = Carried(p)' \cup {h} /\ h \notin Carried(p)'
    BY <1>5, <1>7, <1>8 DEF Carried, held
  <1>12. acked' = acked \cup {h}
    BY DEF Request, h, held
  <1>13. TypeOK'
    <2>1. stored' \subseteq Events /\ acked' \subseteq Events
      BY <1>5, RequestTypes DEF AInv, h, held
    <2>2. QED
      BY <1>8, <2>1 DEF AInv, TypeOK, PosterRecs
  <1>14. EventsApart'
    <2>1. \A q \in Posters : NoRepeat(posters'[q].held)
      BY <1>5, <1>7, <1>8 DEF AInv, EventsApart
    <2>2. /\ h \notin Buffered
          /\ \A q \in Posters \ {p} : h \notin Carried(q)
      BY <1>11 DEF AInv, EventsApart
    <2>3. \A q \in Posters : (acked \cup dropped) \cap Carried(q) = {}
      BY DEF AInv, EventsApart
    <2>4. ASSUME NEW q \in Posters PROVE (acked' \cup dropped') \cap Carried(q)' = {}
      <3>1. CASE q = p
        BY <1>11, <1>12, <2>3, <3>1
      <3>2. CASE q # p
        BY <1>8, <1>12, <2>2, <2>3, <3>2
      <3>3. QED
        BY <3>1, <3>2
    <2>5. (acked' \cup dropped') \cap Buffered' = {}
      BY <1>10, <1>12, <2>2 DEF AInv, EventsApart
    <2>6. /\ \A q \in Posters : Carried(q)' \subseteq Carried(q)
      BY <1>8, <1>11
    <2>7. /\ \A q \in Posters : Carried(q)' \cap Buffered' = {}
          /\ \A q, r \in Posters : q # r => Carried(q)' \cap Carried(r)' = {}
      BY <1>10, <2>6 DEF AInv, EventsApart
    <2>8. NoRepeat(buffer')
      BY DEF AInv, EventsApart
    <2>9. QED
      BY <2>1, <2>4, <2>5, <2>7, <2>8 DEF EventsApart
  <1>15. EventsKept'
    <2>1. h \in Past
      BY <1>11 DEF AInv, EventsKept
    <2>2. \A q \in Posters : Carried(q)' \subseteq Past'
      BY <1>8, <1>9, <1>11 DEF AInv, EventsKept
    <2>3. ASSUME NEW e \in Past
          PROVE  \/ e \in acked' \cup dropped' \cup Buffered'
                 \/ \E q \in Posters : e \in Carried(q)'
      BY <1>8, <1>10, <1>11, <1>12 DEF AInv, EventsKept
    <2>4. QED
      BY <1>9, <1>10, <1>12, <2>1, <2>2, <2>3 DEF AInv, EventsKept
  <1>16. QED
    BY <1>2, <1>7, <1>8, <1>9, <1>10, <1>11, <1>12, <1>13, <1>14, <1>15 DEF AInv, h, held

\* A step gives up the events of lost: only while the buffer is full, and
\* none that it keeps.
GivesUp(lost) ==
    /\ dropped' = dropped \cup lost
    /\ lost \cap Buffered' = {}
    /\ lost # {} => Len(buffer') >= Cap

\* A failed flush puts back what it carries, in front of the newer events.
LEMMA RebufferMoves ==
    ASSUME AInv, NEW p \in Posters, Rebuffer(p)
    PROVE  /\ AInv' /\ Past' = Past /\ Produced' = Produced
           /\ Carried(p)' = {} /\ posters'[p].held = <<>> /\ posters'[p].pc = "post"
           /\ ~posters'[p].clean
           /\ \A q \in Posters \ {p} : Carried(q)' = Carried(q)
           /\ \A q \in Posters \ {p} : posters'[q] = posters[q]
           /\ \E lost : /\ GivesUp(lost)
                        /\ lost \cup Buffered' = Carried(p) \cup Buffered
                        /\ Sorted(posters[p].held \o buffer) =>
                              /\ Sorted(buffer')
                              /\ \A e \in lost, f \in Buffered' : ~Older(f, e)
  <1> DEFINE held == posters[p].held
             events == held \o buffer
             excess == IF Len(events) > Cap THEN Len(events) - Cap ELSE 0
             lo == SubSeq(events, 1, excess)
             hi == SubSeq(events, excess + 1, Len(events))
             lost == ToSet(lo)
             rec == [posters[p] EXCEPT !.pc = "post", !.held = <<>>, !.clean = FALSE]
  <1>1. /\ posters[p].pc = "rebuffer" /\ buffer' = hi /\ dropped' = dropped \cup lost
        /\ UNCHANGED <<posted, stored, acked, healed, crossed>>
    BY DEF Rebuffer, Rejoined
  <1>2. posters' = [posters EXCEPT ![p] = rec]
    BY DEF Rebuffer, AInv, TypeOK
  <1>3. /\ posters[p] \in PosterRecs /\ held \in Seq(Events) /\ buffer \in Seq(Events)
        /\ NoRepeat(held) /\ NoRepeat(buffer)
    BY DEF AInv, TypeOK, PosterRecs, EventsApart
  <1>4. ToSet(held) = Carried(p) /\ ToSet(buffer) = Buffered
    BY DEF Carried, Buffered
  <1>5. ToSet(held) \cap ToSet(buffer) = {}
    BY <1>4 DEF AInv, EventsApart
  <1> HIDE DEF held
  <1>6. /\ events \in Seq(Events) /\ Len(events) = Len(held) + Len(buffer)
        /\ ToSet(events) = Carried(p) \cup Buffered /\ NoRepeat(events)
    BY <1>3, <1>4, <1>5, ConcatSet
  <1> HIDE DEF events
  <1>7. /\ Len(events) \in Nat /\ excess \in 0 .. Len(events)
        /\ Len(events) - excess <= Cap
        /\ excess > 0 => Len(events) - excess = Cap
    <2>1. Len(events) \in Nat
      BY <1>6, LenProperties
    <2>2. QED
      BY <2>1, BufferAssumption
  <1> HIDE DEF excess
  <1>8. /\ lo \in Seq(Events) /\ Len(lo) = excess
        /\ hi \in Seq(Events) /\ Len(hi) = Len(events) - excess
        /\ ToSet(events) = lost \cup ToSet(hi)
        /\ NoRepeat(hi) /\ lost \cap ToSet(hi) = {}
        /\ Sorted(events) => /\ Sorted(hi)
                             /\ \A e \in lost, f \in ToSet(hi) : ~Older(f, e)
    <2>1. /\ lo \in Seq(Events) /\ Len(lo) = excess
          /\ hi \in Seq(Events) /\ Len(hi) = Len(events) - excess
          /\ ToSet(events) = ToSet(lo) \cup ToSet(hi)
          /\ NoRepeat(events) => NoRepeat(hi) /\ ToSet(lo) \cap ToSet(hi) = {}
          /\ Sorted(events) => /\ Sorted(hi)
                               /\ \A e \in ToSet(lo), f \in ToSet(hi) : ~Older(f, e)
      BY <1>6, <1>7, CutSet
    <2> HIDE DEF lo, hi
    <2>2. QED
      BY <1>6, <2>1
  <1>9. lost # {} => excess > 0
    <2>1. lost # {} => lo # <<>>
      BY <1>8, SetOfSeq
    <2>2. lo # <<>> => Len(lo) \in Nat \ {0}
      BY <1>8, EmptySeq
    <2>3. QED
      BY <1>7, <1>8, <2>1, <2>2
  <1> HIDE DEF lo, hi, lost
  <1>10. /\ rec \in PosterRecs /\ rec.cur = posters[p].cur /\ rec.held = <<>>
         /\ rec.pc = "post" /\ rec.clean = FALSE
    BY <1>3, EmptySeq DEF PosterRecs, Steps
  <1> HIDE DEF rec
  <1>11. /\ posters' \in [Posters -> PosterRecs] /\ posters'[p] = rec
         /\ \A q \in Posters \ {p} : posters'[q] = posters[q]
         /\ \A q \in Posters \ {p} : Carried(q)' = Carried(q)
    BY <1>2, <1>10, PosterMoves DEF AInv
  <1>12. PosterShape' /\ Past' = Past
    <2>1. /\ rec.pc # "idle" /\ posters[p].pc # "idle"
          /\ rec.held # <<>> <=> rec.pc \in {"flushing", "rebuffer"}
      BY <1>1, <1>10
    <2>2. QED
      BY <1>1, <1>2, <1>10, <2>1, PosterContinues
  <1>13. Produced' = Produced
    BY <1>1 DEF Produced
  <1>14. Carried(p)' = {}
    BY <1>10, <1>11 DEF Carried, ToSet
  <1>15. Buffered' = ToSet(hi)
    BY <1>1 DEF Buffered
  <1>16. lost \cup Buffered' = Carried(p) \cup Buffered /\ lost \cap Buffered' = {}
    BY <1>6, <1>8, <1>15
  <1>17. TypeOK'
    <2>1. Carried(p) \cup Buffered \subseteq Events
      BY DEF AInv, EventsKept, Past, Produced
    <2>2. dropped' \subseteq Events
      BY <1>1, <1>16, <2>1 DEF AInv, TypeOK
    <2>3. QED
      BY <1>1, <1>7, <1>8, <1>11, <2>2 DEF AInv, TypeOK, PosterRecs
  <1>18. EventsApart'
    <2>1. NoRepeat(buffer')
      BY <1>1, <1>8
    <2>2. \A q \in Posters : NoRepeat(posters'[q].held)
      <3>1. NoRepeat(<<>>)
        BY EmptySeq DEF NoRepeat
      <3>2. QED
        BY <1>10, <1>11, <3>1 DEF AInv, EventsApart
    <2>3. \A q \in Posters \ {p} : Carried(q) \cap (Carried(p) \cup Buffered) = {}
      BY DEF AInv, EventsApart
    <2>4. (acked \cup dropped) \cap (Carried(p) \cup Buffered) = {}
      BY DEF AInv, EventsApart
    <2>5. \A q \in Posters : Carried(q)' \cap Buffered' = {}
      BY <1>11, <1>14, <1>16, <2>3
    <2>6. (acked' \cup dropped') \cap Buffered' = {}
      BY <1>1, <1>16, <2>4
    <2>7. ASSUME NEW q \in Posters PROVE (acked' \cup dropped') \cap Carried(q)' = {}
      <3>1. CASE q = p
        BY <1>14, <3>1
      <3>2. CASE q # p
        <4>1. (acked \cup dropped) \cap Carried(q) = {}
          BY DEF AInv, EventsApart
        <4>2. lost \cap Carried(q) = {}
          BY <1>16, <2>3, <3>2
        <4>3. QED
          BY <1>1, <1>11, <3>2, <4>1, <4>2
      <3>3. QED
        BY <3>1, <3>2
    <2>8. \A q, r \in Posters : q # r => Carried(q)' \cap Carried(r)' = {}
      BY <1>11, <1>14 DEF AInv, EventsApart
    <2>9. QED
      BY <2>1, <2>2, <2>5, <2>6, <2>7, <2>8 DEF EventsApart
  <1>19. EventsKept'
    <2>1. Carried(p) \cup Buffered \subseteq Past
      BY DEF AInv, EventsKept
    <2>2. Buffered' \subseteq Past /\ dropped' \subseteq Past /\ acked' \subseteq Past
      BY <1>1, <1>16, <2>1 DEF AInv, EventsKept
    <2>3. \A q \in Posters : Carried(q)' \subseteq Past
      BY <1>11, <1>14 DEF AInv, EventsKept
    <2>4. ASSUME NEW e \in Past
          PROVE  \/ e \in acked' \cup dropped' \cup Buffered'
                 \/ \E q \in Posters : e \in Carried(q)'
      <3>1. CASE e \in acked \cup dropped \cup Buffered \cup Carried(p)
        BY <1>1, <1>16, <3>1
      <3>2. CASE \E q \in Posters \ {p} : e \in Carried(q)
        BY <1>11, <3>2
      <3>3. QED
        BY <3>1, <3>2 DEF AInv, EventsKept
    <2>5. QED
      BY <1>12, <2>2, <2>3, <2>4 DEF EventsKept
  <1>20. GivesUp(lost)
    BY <1>1, <1>7, <1>8, <1>9, <1>16 DEF GivesUp
  <1>21. Sorted(events) => /\ Sorted(buffer')
                           /\ \A e \in lost, f \in Buffered' : ~Older(f, e)
    BY <1>1, <1>8, <1>15
  <1>22. \E x : /\ GivesUp(x)
                /\ x \cup Buffered' = Carried(p) \cup Buffered
                /\ Sorted(posters[p].held \o buffer) =>
                      /\ Sorted(buffer')
                      /\ \A e \in x, f \in Buffered' : ~Older(f, e)
    BY <1>16, <1>20, <1>21 DEF events, held
  <1>23. QED
    BY <1>10, <1>11, <1>12, <1>13, <1>14, <1>17, <1>18, <1>19, <1>22 DEF AInv

\* The post of a new event fails: the call goes on to buffer it.
LEMMA PostFails ==
    ASSUME AInv, NEW p \in Posters, NEW outcome, outcome # "ok",
           posters[p].pc = "post", Request(posters[p].cur, outcome),
           posters' = [posters EXCEPT ![p] = [@ EXCEPT !.pc = "buffer"]],
           UNCHANGED <<buffer, posted, dropped, healed, crossed>>
    PROVE  /\ AInv' /\ Past' = Past /\ Produced' = Produced
           /\ acked' = acked
           /\ \A q \in Posters : Carried(q)' = Carried(q)
           /\ \A q \in Posters : posters'[q].held = posters[q].held
           /\ \A q \in Posters \ {p} : posters'[q] = posters[q]
           /\ posters'[p].pc = "buffer"
  <1> DEFINE rec == [posters[p] EXCEPT !.pc = "buffer"]
  <1>1. posters[p] \in PosterRecs
    BY DEF AInv, TypeOK, PosterRecs
  <1>2. /\ rec \in PosterRecs /\ rec.pc = "buffer" /\ rec.cur = posters[p].cur
        /\ rec.held = posters[p].held
    BY <1>1 DEF PosterRecs, Steps
  <1>3. posters[p].held = <<>>
    BY DEF AInv, PosterShape
  <1>4. posters' = [posters EXCEPT ![p] = rec]
    OBVIOUS
  <1> HIDE DEF rec
  <1>5. /\ posters' \in [Posters -> PosterRecs] /\ posters'[p] = rec
        /\ \A q \in Posters \ {p} : posters'[q] = posters[q]
    BY <1>2, <1>4, PosterMoves DEF AInv
  <1>6. /\ \A q \in Posters : posters'[q].held = posters[q].held
        /\ \A q \in Posters : Carried(q)' = Carried(q)
    BY <1>2, <1>5 DEF Carried
  <1>7. PosterShape' /\ Past' = Past
    <2>1. rec.pc # "idle" /\ posters[p].pc # "idle"
      BY <1>2
    <2>2. QED
      BY <1>2, <1>3, <1>4, <2>1, PosterContinues
  <1>8. Produced' = Produced /\ Buffered' = Buffered
    BY DEF Produced, Buffered
  <1>9. posters[p].cur \in Events
    BY CurrentEvent
  <1>10. acked' = acked
    BY DEF Request
  <1>11. TypeOK'
    <2>1. stored' \subseteq Events /\ acked' \subseteq Events
      BY <1>9, RequestTypes DEF AInv
    <2>2. QED
      BY <1>5, <2>1 DEF AInv, TypeOK, PosterRecs
  <1>12. EventsApart'
    BY <1>6, <1>8, <1>10 DEF AInv, EventsApart
  <1>13. EventsKept'
    BY <1>6, <1>7, <1>8, <1>10 DEF AInv, EventsKept
  <1>14. QED
    BY <1>2, <1>5, <1>6, <1>7, <1>8, <1>10, <1>11, <1>12, <1>13 DEF AInv

\* The post of a new event succeeds: the call ends, its event acknowledged.
LEMMA PostSucceeds ==
    ASSUME AInv, NEW p \in Posters,
           posters[p].pc = "post", Request(posters[p].cur, "ok"),
           posters' = [posters EXCEPT ![p] = Idle],
           UNCHANGED <<buffer, posted, dropped, healed, crossed>>
    PROVE  /\ AInv' /\ Produced' = Produced
           /\ acked' = acked \cup {posters[p].cur}
           /\ \A q \in Posters : Carried(q)' = Carried(q)
           /\ \A q \in Posters : posters'[q].held = posters[q].held
           /\ \A q \in Posters \ {p} : posters'[q] = posters[q]
           /\ posters'[p].pc = "idle"
  <1> DEFINE c == posters[p].cur
  <1>1. /\ c \in Events /\ c \notin Buffered /\ \A q \in Posters : c \notin Carried(q)
    BY CurrentEvent
  <1>2. /\ posters' \in [Posters -> PosterRecs]
        /\ posters'[p] = Idle /\ \A q \in Posters \ {p} : posters'[q] = posters[q]
        /\ Carried(p)' = {} /\ \A q \in Posters \ {p} : Carried(q)' = Carried(q)
        /\ PosterShape' /\ Past' = Past \cup {c}
    BY PosterEnds
  <1>3. posters[p].held = <<>>
    BY DEF AInv, PosterShape
  <1>4. /\ \A q \in Posters : posters'[q].held = posters[q].held
        /\ \A q \in Posters : Carried(q)' = Carried(q)
    BY <1>2, <1>3 DEF Carried, Idle
  <1>5. Produced' = Produced /\ Buffered' = Buffered
    BY DEF Produced, Buffered
  <1>6. acked' = acked \cup {c}
    BY DEF Request
  <1> HIDE DEF c
  <1>7. TypeOK'
    <2>1. stored' \subseteq Events /\ acked' \subseteq Events
      BY <1>1, RequestTypes DEF AInv, c
    <2>2. QED
      BY <1>2, <2>1 DEF AInv, TypeOK, PosterRecs
  <1>8. EventsApart'
    BY <1>1, <1>4, <1>5, <1>6 DEF AInv, EventsApart
  <1>9. EventsKept'
    BY <1>2, <1>4, <1>5, <1>6 DEF AInv, EventsKept
  <1>10. QED
    BY <1>2, <1>4, <1>5, <1>6, <1>7, <1>8, <1>9 DEF AInv, Idle, c

\* The event is buffered, and at the cap the oldest makes room.
LEMMA BufferMoves ==
    ASSUME AInv, NEW p \in Posters, buffer_runtime_event(p)
    PROVE  /\ AInv' /\ Produced' = Produced
           /\ \A q \in Posters : Carried(q)' = Carried(q)
           /\ \A q \in Posters : posters'[q].held = posters[q].held
           /\ \A q \in Posters \ {p} : posters'[q] = posters[q]
           /\ posters'[p].pc = "idle"
           /\ \E lost : /\ GivesUp(lost)
                        /\ lost \subseteq Buffered
                        /\ Buffered' = (Buffered \ lost) \cup {posters[p].cur}
                        /\ Len(buffer) < Cap =>
                              lost = {} /\ buffer' = Append(buffer, posters[p].cur)
                        /\ Sorted(buffer) =>
                              /\ Sorted(buffer')
                              /\ \A e \in lost, f \in Buffered \ lost : ~Older(f, e)
  <1> DEFINE c == posters[p].cur
             kept == IF Full THEN Tail(buffer) ELSE buffer
             lost == IF Full THEN {Head(buffer)} ELSE {}
  <1>1. /\ posters[p].pc = "buffer" /\ posters' = [posters EXCEPT ![p] = Idle]
        /\ buffer' = Append(kept, c) /\ dropped' = dropped \cup lost
        /\ UNCHANGED <<posted, stored, acked, healed, crossed>>
    BY DEF buffer_runtime_event
  <1>2. /\ c \in Events /\ c \notin Past /\ c \notin acked \cup dropped \cup Buffered
        /\ \A q \in Posters : c \notin Carried(q)
        /\ \A e \in Past : ~Older(c, e)
    BY <1>1, CurrentEvent
  <1>3. /\ posters' \in [Posters -> PosterRecs]
        /\ posters'[p] = Idle /\ \A q \in Posters \ {p} : posters'[q] = posters[q]
        /\ Carried(p)' = {} /\ \A q \in Posters \ {p} : Carried(q)' = Carried(q)
        /\ PosterShape' /\ Past' = Past \cup {c}
    BY <1>1, PosterEnds
  <1>4. posters[p].held = <<>>
    BY <1>1 DEF AInv, PosterShape
  <1>5. /\ \A q \in Posters : posters'[q].held = posters[q].held
        /\ \A q \in Posters : Carried(q)' = Carried(q)
    BY <1>3, <1>4 DEF Carried, Idle
  <1>6. Produced' = Produced
    BY <1>1 DEF Produced
  <1> HIDE DEF c
  <1>7. /\ buffer \in Seq(Events) /\ Len(buffer) \in Nat /\ Len(buffer) <= Cap
        /\ NoRepeat(buffer) /\ Cap \in Nat \ {0}
    BY BufferAssumption, LenProperties DEF AInv, TypeOK, EventsApart
  <1>8. /\ kept \in Seq(Events) /\ NoRepeat(kept)
        /\ ToSet(kept) = Buffered \ lost /\ lost \subseteq Buffered
        /\ Len(kept) < Cap /\ (lost # {} => Len(kept) = Cap - 1)
        /\ Len(buffer) < Cap => lost = {} /\ kept = buffer
        /\ Sorted(buffer) => /\ Sorted(kept)
                             /\ \A e \in lost, f \in ToSet(kept) : ~Older(f, e)
    <2>1. CASE Full
      <3>1. buffer # <<>> /\ Len(buffer) = Cap
        BY <1>7, <2>1, EmptySeq DEF Full
      <3>2. /\ Tail(buffer) \in Seq(Events) /\ Len(Tail(buffer)) = Len(buffer) - 1
            /\ ToSet(buffer) = ToSet(Tail(buffer)) \cup {Head(buffer)}
            /\ NoRepeat(Tail(buffer)) /\ Head(buffer) \notin ToSet(Tail(buffer))
            /\ Sorted(buffer) => /\ Sorted(Tail(buffer))
                                 /\ \A f \in ToSet(Tail(buffer)) : ~Older(f, Head(buffer))
        BY <1>7, <3>1, TailSet
      <3>3. kept = Tail(buffer) /\ lost = {Head(buffer)}
        BY <2>1
      <3> HIDE DEF kept, lost
      <3>4. QED
        BY <1>7, <3>1, <3>2, <3>3 DEF Buffered
    <2>2. CASE ~Full
      <3>1. kept = buffer /\ lost = {}
        BY <2>2
      <3> HIDE DEF kept, lost
      <3>2. Len(buffer) < Cap
        BY <1>7, <2>2 DEF Full
      <3>3. QED
        BY <1>7, <3>1, <3>2 DEF Buffered
    <2>3. QED
      BY <2>1, <2>2
  <1> HIDE DEF kept, lost
  <1>9. Buffered \subseteq Past
    BY DEF AInv, EventsKept
  <1>10. /\ buffer' \in Seq(Events) /\ Len(buffer') = Len(kept) + 1
         /\ Buffered' = (Buffered \ lost) \cup {c}
         /\ NoRepeat(buffer')
         /\ Sorted(kept) => Sorted(buffer')
    <2>1. /\ buffer' \in Seq(Events) /\ Len(buffer') = Len(kept) + 1
          /\ ToSet(buffer') = ToSet(kept) \cup {c}
          /\ NoRepeat(kept) /\ c \notin ToSet(kept) => NoRepeat(buffer')
          /\ Sorted(kept) /\ (\A f \in ToSet(kept) : ~Older(c, f)) => Sorted(buffer')
      BY <1>1, <1>2, <1>8, AppendSet
    <2>2. c \notin ToSet(kept) /\ \A f \in ToSet(kept) : ~Older(c, f)
      BY <1>2, <1>8, <1>9
    <2>3. QED
      BY <1>8, <2>1, <2>2 DEF Buffered
  <1>11. GivesUp(lost)
    <2>1. lost \cap Buffered' = {}
      BY <1>2, <1>8, <1>10
    <2>2. lost # {} => Len(buffer') >= Cap
      BY <1>7, <1>8, <1>10
    <2>3. QED
      BY <1>1, <2>1, <2>2 DEF GivesUp
  <1>12. TypeOK'
    <2>1. Len(buffer') <= Cap
      <3>1. Len(kept) \in Nat
        BY <1>8, LenProperties
      <3>2. QED
        BY <1>7, <1>8, <1>10, <3>1
    <2>2. dropped' \subseteq Events
      BY <1>1, <1>8, <1>9 DEF AInv, TypeOK, Past, Produced
    <2>3. QED
      BY <1>1, <1>3, <1>10, <2>1, <2>2 DEF AInv, TypeOK, PosterRecs
  <1>13. EventsApart'
    <2>1. \A q \in Posters : NoRepeat(posters'[q].held)
      BY <1>5 DEF AInv, EventsApart
    <2>2. \A q \in Posters : Carried(q)' \cap Buffered' = {}
      BY <1>2, <1>5, <1>10 DEF AInv, EventsApart
    <2>3. \A q, r \in Posters : q # r => Carried(q)' \cap Carried(r)' = {}
      BY <1>5 DEF AInv, EventsApart
    <2>4. (acked' \cup dropped') \cap Buffered' = {}
      BY <1>1, <1>2, <1>8, <1>10 DEF AInv, EventsApart
    <2>5. \A q \in Posters : (acked' \cup dropped') \cap Carried(q)' = {}
      BY <1>1, <1>5, <1>8 DEF AInv, EventsApart
    <2>6. QED
      BY <1>10, <2>1, <2>2, <2>3, <2>4, <2>5 DEF EventsApart
  <1>14. EventsKept'
    <2>1. /\ acked' \subseteq Past' /\ dropped' \subseteq Past' /\ Buffered' \subseteq Past'
          /\ \A q \in Posters : Carried(q)' \subseteq Past'
      BY <1>1, <1>3, <1>5, <1>8, <1>9, <1>10 DEF AInv, EventsKept
    <2>2. ASSUME NEW e \in Past'
          PROVE  \/ e \in acked' \cup dropped' \cup Buffered'
                 \/ \E q \in Posters : e \in Carried(q)'
      <3>1. CASE e = c
        BY <1>10, <3>1
      <3>2. CASE e \in Past
        BY <1>1, <1>5, <1>10, <3>2 DEF AInv, EventsKept
      <3>3. QED
        BY <1>3, <3>1, <3>2
    <2>3. QED
      BY <2>1, <2>2 DEF EventsKept
  <1>15. \E x : /\ GivesUp(x)
                /\ x \subseteq Buffered
                /\ Buffered' = (Buffered \ x) \cup {c}
                /\ Len(buffer) < Cap => x = {} /\ buffer' = Append(buffer, c)
                /\ Sorted(buffer) =>
                      /\ Sorted(buffer')
                      /\ \A e \in x, f \in Buffered \ x : ~Older(f, e)
    BY <1>1, <1>8, <1>10, <1>11
  <1>16. QED
    BY <1>3, <1>5, <1>6, <1>12, <1>13, <1>14, <1>15 DEF AInv, Idle, c

\* The two ways a turn of the flush loop ends, and the two ways a post does.
FlushFailed(p, outcome) ==
    /\ outcome # "ok" /\ posters[p].pc = "flushing"
    /\ Request(Head(posters[p].held), outcome)
    /\ posters' = [posters EXCEPT ![p] = [@ EXCEPT !.pc = "rebuffer"]]
    /\ UNCHANGED <<buffer, posted, dropped, healed, crossed>>

FlushAcked(p) ==
    /\ posters[p].pc = "flushing" /\ Request(Head(posters[p].held), "ok")
    /\ posters' = [posters EXCEPT ![p] =
          [@ EXCEPT !.held = Tail(posters[p].held),
                    !.pc = IF Len(posters[p].held) = 1 THEN "post" ELSE "flushing"]]
    /\ UNCHANGED <<buffer, posted, dropped, healed, crossed>>

PostFailed(p, outcome) ==
    /\ outcome # "ok" /\ posters[p].pc = "post" /\ Request(posters[p].cur, outcome)
    /\ posters' = [posters EXCEPT ![p] = [@ EXCEPT !.pc = "buffer"]]
    /\ UNCHANGED <<buffer, posted, dropped, healed, crossed>>

PostAcked(p) ==
    /\ posters[p].pc = "post" /\ Request(posters[p].cur, "ok")
    /\ posters' = [posters EXCEPT ![p] = Idle]
    /\ UNCHANGED <<buffer, posted, dropped, healed, crossed>>

\* Every step is one of these.
LEMMA BufferSteps ==
    ASSUME [BufferNext]_vars
    PROVE  \/ Heal \/ UNCHANGED vars
           \/ \E p \in Posters :
                 \/ post_runtime_event(p) \/ TakeBuffer(p) \/ Rebuffer(p)
                 \/ FlushAcked(p) \/ PostAcked(p) \/ buffer_runtime_event(p)
                 \/ \E outcome : FlushFailed(p, outcome) \/ PostFailed(p, outcome)
  <1>1. ASSUME NEW p \in Posters, FlushOne(p)
        PROVE  FlushAcked(p) \/ \E outcome : FlushFailed(p, outcome)
    BY <1>1 DEF FlushOne, FlushAcked, FlushFailed
  <1>2. ASSUME NEW p \in Posters, PostEvent(p)
        PROVE  PostAcked(p) \/ \E outcome : PostFailed(p, outcome)
    BY <1>2 DEF PostEvent, PostAcked, PostFailed
  <1>3. QED
    BY <1>1, <1>2 DEF BufferNext, Continue

\* A step that leaves every event where it is.
LEMMA AInvKept ==
    ASSUME AInv, UNCHANGED <<buffer, posters, posted, stored, acked, dropped, crossed>>,
           healed' \in BOOLEAN
    PROVE  AInv'
  <1>1. TypeOK'
    BY DEF AInv, TypeOK
  <1>2. PosterShape'
    BY DEF AInv, PosterShape
  <1>3. Past' = Past /\ Buffered' = Buffered /\ \A q \in Posters : Carried(q)' = Carried(q)
    BY DEF Past, Produced, Buffered, Carried
  <1>4. EventsApart' /\ EventsKept'
    BY <1>3 DEF AInv, EventsApart, EventsKept
  <1>5. QED
    BY <1>1, <1>2, <1>4 DEF AInv

\* Every step keeps each event in exactly one place.
LEMMA AInvNext == AInv /\ [BufferNext]_vars => AInv'
  <1> SUFFICES ASSUME AInv, [BufferNext]_vars PROVE AInv'
    OBVIOUS
  <1>1. CASE Heal
    <2>1. healed' \in BOOLEAN
      BY <1>1, Zenon DEF Heal
    <2>2. QED
      BY <1>1, <2>1, AInvKept DEF Heal
  <1>2. CASE UNCHANGED vars
    <2>1. healed' \in BOOLEAN
      BY <1>2, Zenon DEF vars, AInv, TypeOK
    <2>2. QED
      BY <1>2, <2>1, AInvKept DEF vars
  <1>3. ASSUME NEW p \in Posters,
               \/ post_runtime_event(p) \/ TakeBuffer(p) \/ Rebuffer(p)
               \/ FlushAcked(p) \/ PostAcked(p) \/ buffer_runtime_event(p)
        PROVE  AInv'
    BY <1>3, PostStarts, TakeMoves, RebufferMoves, BufferMoves, FlushSucceeds,
       PostSucceeds DEF FlushAcked, PostAcked
  <1>4. ASSUME NEW p \in Posters, NEW outcome,
               FlushFailed(p, outcome) \/ PostFailed(p, outcome)
        PROVE  AInv'
    BY <1>4, FlushFails, PostFails DEF FlushFailed, PostFailed
  <1>5. QED
    BY <1>1, <1>2, <1>3, <1>4, BufferSteps

\* The places of an event in the hands of the posters, one by one.
LEMMA HandsOf ==
    ASSUME NEW e, NEW x
    PROVE  x \in InHands(e) <=>
              \/ \E p \in Posters : \E i \in DOMAIN posters[p].held :
                    posters[p].held[i] = e /\ x = <<"held", p, i>>
              \/ \E p \in Posters : posters[p].cur = e /\ x = <<"cur", p>>
  <1> DEFINE at(p) == {j \in DOMAIN posters[p].held : posters[p].held[j] = e}
             heldBy(p) == {<<"held", p, i>> : i \in at(p)}
             current == {<<"cur", p>> : p \in {q \in Posters : posters[q].cur = e}}
             sets == {heldBy(p) : p \in Posters}
  <1>1. x \in InHands(e) <=> x \in UNION sets \/ x \in current
    BY DEF InHands
  <1>2. \A p : x \in heldBy(p) <=>
                 \E i \in DOMAIN posters[p].held :
                    posters[p].held[i] = e /\ x = <<"held", p, i>>
    OBVIOUS
  <1>3. x \in current <=> \E p \in Posters : posters[p].cur = e /\ x = <<"cur", p>>
    OBVIOUS
  <1>4. x \in InHands(e) <=> (\E p \in Posters : x \in heldBy(p)) \/ x \in current
    <2> HIDE DEF heldBy, current
    <2>1. \A T : T \in sets <=> \E p \in Posters : T = heldBy(p)
      OBVIOUS
    <2> HIDE DEF sets
    <2>2. x \in UNION sets <=> \E T \in sets : x \in T
      OBVIOUS
    <2>3. (\E T \in sets : x \in T) <=> \E p \in Posters : x \in heldBy(p)
      BY <2>1, Zenon
    <2>4. QED
      BY <1>1, <2>2, <2>3
  <1> HIDE DEF heldBy, current
  <1>5. QED
    BY <1>2, <1>3, <1>4

\* The places of an event, in terms of the buffer and the posters.
LEMMA Places ==
    ASSUME AInv, NEW e \in Events
    PROVE  /\ InBuffer(e) = {<<"buffer", i>> : i \in {j \in 1 .. Len(buffer) : buffer[j] = e}}
           /\ InBuffer(e) # {} <=> e \in Buffered
           /\ InHands(e) # {} <=> \E p \in Posters : e \in Carried(p) \/ posters[p].cur = e
  <1>1. /\ DOMAIN buffer = 1 .. Len(buffer)
        /\ e \in Buffered <=> \E i \in 1 .. Len(buffer) : buffer[i] = e
    BY SetOfSeq DEF AInv, TypeOK, Buffered
  <1>2. ASSUME NEW p \in Posters
        PROVE  /\ DOMAIN posters[p].held = 1 .. Len(posters[p].held)
               /\ e \in Carried(p) <=>
                     \E i \in 1 .. Len(posters[p].held) : posters[p].held[i] = e
    <2>1. posters[p].held \in Seq(Events)
      BY DEF AInv, TypeOK
    <2>2. QED
      BY <2>1, SetOfSeq DEF Carried
  <1>3. InBuffer(e) = {<<"buffer", i>> : i \in {j \in 1 .. Len(buffer) : buffer[j] = e}}
    BY <1>1 DEF InBuffer
  <1>4. InBuffer(e) # {} <=> e \in Buffered
    BY <1>1, <1>3
  <1>5. ASSUME NEW x \in InHands(e)
        PROVE  \E p \in Posters : e \in Carried(p) \/ posters[p].cur = e
    BY <1>2, HandsOf
  <1>6. ASSUME NEW p \in Posters, e \in Carried(p) \/ posters[p].cur = e
        PROVE  InHands(e) # {}
    <2>1. CASE e \in Carried(p)
      <3>1. PICK i \in DOMAIN posters[p].held : posters[p].held[i] = e
        BY <1>2, <2>1
      <3>2. <<"held", p, i>> \in InHands(e)
        BY <3>1, HandsOf
      <3>3. QED
        BY <3>2
    <2>2. CASE posters[p].cur = e
      <3>1. <<"cur", p>> \in InHands(e)
        BY <2>2, HandsOf
      <3>2. QED
        BY <3>1
    <2>3. QED
      BY <1>6, <2>1, <2>2
  <1>7. QED
    BY <1>3, <1>4, <1>5, <1>6

\* A pending event is produced, and neither acknowledged nor dropped.
LEMMA PendingIsOpen ==
    ASSUME AInv, NEW e \in Events, Pending(e)
    PROVE  e \in Produced \ (acked \cup dropped)
  <1>1. e \in Buffered \/ \E p \in Posters : e \in Carried(p) \/ posters[p].cur = e
    BY Places DEF Pending
  <1>2. CASE e \in Buffered \/ \E p \in Posters : e \in Carried(p)
    BY <1>2 DEF AInv, EventsApart, EventsKept, Past
  <1>3. ASSUME NEW p \in Posters, posters[p].cur = e
        PROVE  e \in Produced \ (acked \cup dropped)
    <2>1. posters[p].pc # "idle"
      BY <1>3, EventPairs DEF AInv, PosterShape
    <2>2. QED
      BY <1>3, <2>1, CurrentEvent
  <1>4. QED
    BY <1>1, <1>2, <1>3

\* The partition of the events says that each has one place.
LEMMA AInvAccounts == AInv => EachEventAccounted
  <1> SUFFICES ASSUME AInv, NEW e \in Events
               PROVE  IF e \in Produced \ (acked \cup dropped)
                      THEN \E place \in InBuffer(e) \cup InHands(e) :
                              InBuffer(e) \cup InHands(e) = {place}
                      ELSE InBuffer(e) \cup InHands(e) = {}
    BY DEF EachEventAccounted
  <1>1. CASE e \notin Produced \ (acked \cup dropped)
    BY <1>1, PendingIsOpen DEF Pending
  <1>2. CASE e \in Produced \ (acked \cup dropped)
    <2>1. e[1] \in Posters /\ e # <<>>
      BY EventPairs
    <2>2. ASSUME NEW p \in Posters, posters[p].cur = e PROVE p = e[1] /\ e \notin Past
      <3>1. posters[p].pc # "idle"
        BY <2>1, <2>2 DEF AInv, PosterShape
      <3>2. QED
        BY <2>2, <3>1, CurrentEvent
    <2>3. CASE posters[e[1]].cur = e
      <3>1. e \notin Past
        BY <2>1, <2>2, <2>3
      <3>2. e \notin Buffered /\ \A p \in Posters : e \notin Carried(p)
        BY <3>1 DEF AInv, EventsKept
      <3>3. InBuffer(e) = {}
        BY <3>2, Places
      <3>4. ASSUME NEW p \in Posters
            PROVE  {j \in DOMAIN posters[p].held : posters[p].held[j] = e} = {}
        BY <3>2 DEF Carried, ToSet
      <3>5. {q \in Posters : posters[q].cur = e} = {e[1]}
        BY <2>1, <2>2, <2>3
      <3>6. InHands(e) = {<<"cur", e[1]>>}
        <4>1. \A x : x \in InHands(e) <=> x = <<"cur", e[1]>>
          BY <3>4, <3>5, HandsOf
        <4>2. QED
          BY <4>1
      <3>7. QED
        BY <1>2, <3>3, <3>6
    <2>4. CASE posters[e[1]].cur # e
      <3>1. e \in Past /\ \A p \in Posters : posters[p].cur # e
        BY <1>2, <2>2, <2>4 DEF Past
      <3>2. {q \in Posters : posters[q].cur = e} = {}
        BY <3>1
      <3>3. CASE e \in Buffered
        <4>1. PICK i \in 1 .. Len(buffer) : buffer[i] = e
          BY <3>3, SetOfSeq DEF AInv, TypeOK, Buffered
        <4>2. {j \in 1 .. Len(buffer) : buffer[j] = e} = {i}
          BY <4>1 DEF AInv, EventsApart, NoRepeat
        <4>3. InBuffer(e) = {<<"buffer", i>>}
          BY <4>2, Places
        <4>4. \A p \in Posters : e \notin Carried(p)
          BY <3>3 DEF AInv, EventsApart
        <4>5. InHands(e) = {}
          BY <3>1, <4>4, Places
        <4>6. QED
          BY <1>2, <4>3, <4>5
      <3>4. ASSUME NEW p \in Posters, e \in Carried(p)
            PROVE  \E place \in InBuffer(e) \cup InHands(e) :
                      InBuffer(e) \cup InHands(e) = {place}
        <4>1. posters[p].held \in Seq(Events)
          BY DEF AInv, TypeOK
        <4>2. /\ DOMAIN posters[p].held = 1 .. Len(posters[p].held)
              /\ \E i \in 1 .. Len(posters[p].held) : posters[p].held[i] = e
          BY <3>4, <4>1, SetOfSeq DEF Carried
        <4>3. PICK i \in DOMAIN posters[p].held : posters[p].held[i] = e
          BY <4>2
        <4>4. {j \in DOMAIN posters[p].held : posters[p].held[j] = e} = {i}
          BY <4>2, <4>3 DEF AInv, EventsApart, NoRepeat
        <4>5. InBuffer(e) = {}
          <5>1. e \notin Buffered
            BY <3>4 DEF AInv, EventsApart
          <5>2. QED
            BY <5>1, Places
        <4>6. ASSUME NEW q \in Posters, q # p
              PROVE  {j \in DOMAIN posters[q].held : posters[q].held[j] = e} = {}
          <5>1. e \notin Carried(q)
            BY <3>4, <4>6 DEF AInv, EventsApart
          <5>2. QED
            BY <5>1 DEF Carried, ToSet
        <4>7. InHands(e) = {<<"held", p, i>>}
          <5>1. \A x : x \in InHands(e) <=> x = <<"held", p, i>>
            BY <3>2, <4>4, <4>6, HandsOf
          <5>2. QED
            BY <5>1
        <4>8. QED
          BY <4>5, <4>7
      <3>5. QED
        BY <1>2, <3>1, <3>3, <3>4 DEF AInv, EventsKept
    <2>5. QED
      BY <2>3, <2>4
  <1>3. QED
    BY <1>1, <1>2

\* The partition of the produced events holds throughout every behaviour.
THEOREM BufferInvariance == BufferSpec => []AInv
  BY AInvInit, AInvNext, PTL DEF BufferSpec

\* Type correctness, and the bound MAX_EVENT_BUFFER_PER_SESSION.
THEOREM BufferTypeCorrect == BufferSpec => []TypeOK
  BY BufferInvariance, PTL DEF AInv

\* No event is lost or duplicated by flushes and failed posts that interleave.
THEOREM EventsAccounted == BufferSpec => []EachEventAccounted
  BY BufferInvariance, AInvAccounts, PTL

-----------------------------------------------------------------------------
(* Overtaking *)

\* No event of p is in the buffer or in the hands of another flush.
AheadOf(p) ==
    /\ \A e \in Buffered : e[1] # p
    /\ \A q \in Posters \ {p} : \A e \in Carried(q) : e[1] # p

LEMMA CleanInit == BufferInit => CleanIsAhead
  BY DEF BufferInit, CleanIsAhead, Idle

\* Only its own poster produces an event, and that poster puts back an event
\* only when its flush has failed.
LEMMA CleanNext == AInv /\ CleanIsAhead /\ [BufferNext]_vars => CleanIsAhead'
  <1> SUFFICES ASSUME AInv, CleanIsAhead, [BufferNext]_vars,
                      NEW p \in Posters,
                      posters'[p].pc \in {"flushing", "post"}, posters'[p].clean
               PROVE  AheadOf(p)'
    BY DEF CleanIsAhead, AheadOf
  <1>1. posters[p].pc \in {"flushing", "post"} /\ posters[p].clean => AheadOf(p)
    BY DEF CleanIsAhead, AheadOf
  <1>2. CASE Heal \/ UNCHANGED vars
    BY <1>1, <1>2 DEF Heal, vars, AheadOf, Buffered, Carried
  <1>3. ASSUME NEW q \in Posters, post_runtime_event(q) PROVE AheadOf(p)'
    <2>1. p # q /\ posters'[p] = posters[p] /\ Buffered' = Buffered
      BY <1>3 DEF post_runtime_event, AInv, TypeOK, Idle, Buffered
    <2>2. \A r \in Posters : Carried(r)' = Carried(r)
      BY <1>3, PostStarts
    <2>3. QED
      BY <1>1, <2>1, <2>2 DEF AheadOf
  <1>4. ASSUME NEW q \in Posters, TakeBuffer(q) PROVE AheadOf(p)'
    <2>1. CASE p = q
      BY <1>4, <2>1, TakeMoves DEF AheadOf
    <2>2. CASE p # q
      <3>1. AheadOf(p)
        BY <1>1, <1>4, <2>2, TakeMoves
      <3>2. QED
        BY <1>4, <2>2, <3>1, TakeMoves DEF AheadOf
    <2>3. QED
      BY <2>1, <2>2
  <1>5. ASSUME NEW q \in Posters, FlushAcked(q) PROVE AheadOf(p)'
    <2>1. /\ Carried(q)' \subseteq Carried(q)
          /\ \A r \in Posters \ {q} : Carried(r)' = Carried(r) /\ posters'[r] = posters[r]
          /\ posters'[q].clean = posters[q].clean
      BY <1>5, FlushSucceeds DEF FlushAcked
    <2>2. AheadOf(p)
      BY <1>1, <1>5, <2>1 DEF FlushAcked
    <2>3. Buffered' = Buffered
      BY <1>5 DEF FlushAcked, Buffered
    <2>4. QED
      BY <2>1, <2>2, <2>3 DEF AheadOf
  <1>6. ASSUME NEW q \in Posters, NEW outcome, FlushFailed(q, outcome) PROVE AheadOf(p)'
    <2>1. /\ \A r \in Posters : Carried(r)' = Carried(r)
          /\ \A r \in Posters \ {q} : posters'[r] = posters[r]
          /\ posters'[q].pc = "rebuffer"
      BY <1>6, FlushFails DEF FlushFailed
    <2>2. Buffered' = Buffered
      BY <1>6 DEF FlushFailed, Buffered
    <2>3. QED
      BY <1>1, <2>1, <2>2 DEF AheadOf
  <1>7. ASSUME NEW q \in Posters, Rebuffer(q) PROVE AheadOf(p)'
    <2>1. /\ Carried(q)' = {} /\ ~posters'[q].clean
          /\ \A r \in Posters \ {q} : Carried(r)' = Carried(r) /\ posters'[r] = posters[r]
          /\ Buffered' \subseteq Carried(q) \cup Buffered
      BY <1>7, RebufferMoves
    <2>2. p # q /\ AheadOf(p)
      BY <1>1, <2>1
    <2>3. QED
      BY <2>1, <2>2 DEF AheadOf
  <1>8. ASSUME NEW q \in Posters, NEW outcome, PostFailed(q, outcome) PROVE AheadOf(p)'
    <2>1. /\ \A r \in Posters : Carried(r)' = Carried(r)
          /\ \A r \in Posters \ {q} : posters'[r] = posters[r]
          /\ posters'[q].pc = "buffer"
      BY <1>8, PostFails DEF PostFailed
    <2>2. Buffered' = Buffered
      BY <1>8 DEF PostFailed, Buffered
    <2>3. QED
      BY <1>1, <2>1, <2>2 DEF AheadOf
  <1>9. ASSUME NEW q \in Posters, PostAcked(q) PROVE AheadOf(p)'
    <2>1. /\ \A r \in Posters : Carried(r)' = Carried(r)
          /\ \A r \in Posters \ {q} : posters'[r] = posters[r]
          /\ posters'[q].pc = "idle"
      BY <1>9, PostSucceeds DEF PostAcked
    <2>2. Buffered' = Buffered
      BY <1>9 DEF PostAcked, Buffered
    <2>3. QED
      BY <1>1, <2>1, <2>2 DEF AheadOf
  <1>10. ASSUME NEW q \in Posters, buffer_runtime_event(q) PROVE AheadOf(p)'
    <2>1. /\ \A r \in Posters : Carried(r)' = Carried(r)
          /\ \A r \in Posters \ {q} : posters'[r] = posters[r]
          /\ posters'[q].pc = "idle"
          /\ Buffered' \subseteq Buffered \cup {posters[q].cur}
      BY <1>10, BufferMoves
    <2>2. posters[q].cur[1] = q
      BY <1>10, CurrentEvent DEF buffer_runtime_event
    <2>3. p # q /\ AheadOf(p)
      BY <1>1, <2>1
    <2>4. QED
      BY <2>1, <2>2, <2>3 DEF AheadOf
  <1>11. QED
    BY <1>2, <1>3, <1>4, <1>5, <1>6, <1>7, <1>8, <1>9, <1>10, BufferSteps

\* When a call that flushed everything posts its event, no older event of its
\* task waits anywhere.
LEMMA NothingOlderWaits ==
    ASSUME AInv, CleanIsAhead, NEW p \in Posters,
           posters[p].pc = "post", posters[p].clean,
           NEW e \in Events, Older(e, posters[p].cur)
    PROVE  ~Pending(e)
  <1>1. posters[p].cur[1] = p /\ \A q \in Posters : posters[q].pc # "idle" => posters[q].cur[1] = q
    BY CurrentEvent
  <1>2. e[1] = p /\ e # posters[p].cur
    <2>1. posters[p].cur[2] = posted[p] /\ posted[p] \in Nat
      <3>1. posters[p].cur = <<p, posted[p]>> /\ posted[p] \in 0 .. MaxEvents
        BY DEF AInv, PosterShape, TypeOK
      <3>2. QED
        BY <3>1, BufferAssumption
    <2>2. QED
      BY <1>1, <2>1 DEF Older
  <1>3. e \notin Buffered /\ \A q \in Posters \ {p} : e \notin Carried(q)
    BY <1>2 DEF CleanIsAhead
  <1>4. Carried(p) = {}
    <2>1. posters[p].held = <<>>
      BY DEF AInv, PosterShape
    <2>2. QED
      BY <2>1 DEF Carried, ToSet
  <1>5. \A q \in Posters : posters[q].cur # e
    <2>1. ASSUME NEW q \in Posters, posters[q].cur = e PROVE FALSE
      <3>1. posters[q].pc # "idle"
        BY <2>1, EventPairs DEF AInv, PosterShape
      <3>2. q = p
        BY <1>1, <1>2, <2>1, <3>1
      <3>3. QED
        BY <1>2, <2>1, <3>2
    <2>2. QED
      BY <2>1
  <1>6. QED
    BY <1>3, <1>4, <1>5, Places DEF Pending

\* A new event overtakes an older one of its task only after a failed flush,
\* or while another flush has the older one in its hands.
THEOREM OvertakingBounded == BufferSpec => OvertakesOnlyAfterFailedFlush
  <1>1. AInv /\ CleanIsAhead /\ [BufferNext]_vars =>
          [\A p \in Posters :
             (posters[p].pc = "post" /\ posters[p].clean /\ posters[p].cur \in stored' \ stored)
             => \A e \in Events : Older(e, posters[p].cur) => ~Pending(e)]_vars
    BY NothingOlderWaits
  <1>2. BufferSpec => []CleanIsAhead
    BY CleanInit, CleanNext, BufferInvariance, PTL DEF BufferSpec
  <1>3. QED
    BY <1>1, <1>2, BufferInvariance, PTL DEF BufferSpec, OvertakesOnlyAfterFailedFlush

-----------------------------------------------------------------------------
(* Order *)

\* While a flush carries events and none overlaps it, another poster that is
\* about to buffer finds room: each of the others has buffered one event at
\* most, or it would have taken the buffer since.
LEMMA RoomWhileFlushing ==
    ASSUME AInv, InOrder, NEW p \in Posters, posters[p].held # <<>>,
           NEW q \in Posters, posters[q].pc = "buffer"
    PROVE  Len(buffer) < Cap
  <1> DEFINE others == (Posters \ {p}) \ {q}
             f == [i \in 1 .. Len(buffer) |-> buffer[i][1]]
  <1>1. p # q
    BY DEF AInv, PosterShape
  <1>2. /\ buffer \in Seq(Events) /\ Len(buffer) \in Nat
        /\ \A i \in 1 .. Len(buffer) : buffer[i] \in Events /\ buffer[i] \in Buffered
    BY SetOfSeq, ElementOfSeq DEF AInv, TypeOK, Buffered
  <1>3. /\ \A e \in Buffered : e[1] # p /\ posters[e[1]].pc \in {"idle", "flush"}
        /\ \A i, j \in 1 .. Len(buffer) : buffer[i][1] = buffer[j][1] => i = j
    BY DEF InOrder
  <1>4. \A i \in 1 .. Len(buffer) : buffer[i][1] \in others
    BY <1>2, <1>3, EventPairs
  <1>5. f \in Injection(1 .. Len(buffer), others)
    BY <1>3, <1>4 DEF Injection, IsInjective
  <1>6. /\ IsFiniteSet(others) /\ Cardinality(others) = Cardinality(Posters) - 2
        /\ Cardinality(Posters) \in Nat
    <2>1. IsFiniteSet(Posters) /\ Cardinality(Posters) \in Nat
      BY FewPosters, FS_CardinalityType
    <2>2. /\ IsFiniteSet(Posters \ {p})
          /\ Cardinality(Posters \ {p}) = Cardinality(Posters) - 1
      BY <2>1, FS_RemoveElement
    <2>3. /\ IsFiniteSet(others)
          /\ Cardinality(others) = Cardinality(Posters \ {p}) - 1
      BY <1>1, <2>2, FS_RemoveElement
    <2>4. QED
      BY <2>1, <2>2, <2>3
  <1>7. Cardinality(1 .. Len(buffer)) <= Cardinality(others)
    BY <1>5, <1>6, FS_Injection
  <1>8. Cardinality(1 .. Len(buffer)) = Len(buffer)
    <2> DEFINE n == Len(buffer)
    <2>1. n \in Nat
      BY <1>2
    <2> HIDE DEF n
    <2>2. IsFiniteSet(1 .. n) /\ Cardinality(1 .. n) = n
      BY <2>1, FS_Interval
    <2>3. QED
      BY <2>2 DEF n
  <1>9. QED
    BY <1>2, <1>6, <1>7, <1>8, FewPosters, BufferAssumption

LEMMA OrderInit == BufferInit => OInv
  <1> SUFFICES ASSUME BufferInit PROVE InOrder
    BY DEF OInv
  <1>1. /\ buffer = <<>> /\ dropped = {} /\ \A p \in Posters : posters[p].held = <<>>
    BY DEF BufferInit, Idle
  <1>2. Buffered = {} /\ \A p \in Posters : Carried(p) = {}
    BY <1>1 DEF Buffered, Carried, ToSet
  <1>3. Sorted(<<>>)
    BY EmptySeq DEF Sorted
  <1>4. QED
    BY <1>1, <1>2, <1>3 DEF InOrder

\* A step that moves no event; a poster with a buffered event stays before its
\* next TakeBuffer.
LEMMA OrderKept ==
    ASSUME AInv, InOrder, UNCHANGED <<buffer, dropped>>,
           \A p \in Posters : posters'[p].held = posters[p].held,
           \A e \in Buffered : posters[e[1]].pc \in {"idle", "flush"} =>
                                  posters'[e[1]].pc \in {"idle", "flush"}
    PROVE  InOrder'
  <1>1. Buffered' = Buffered /\ \A p \in Posters : Carried(p)' = Carried(p)
    BY DEF Buffered, Carried
  <1>2. Sorted(buffer') /\ \A p \in Posters : Sorted(posters'[p].held)
    BY DEF InOrder
  <1>3. \A p, q \in Posters : posters'[p].held # <<>> /\ posters'[q].held # <<>> => p = q
    BY DEF InOrder
  <1>4. ASSUME NEW p \in Posters, posters'[p].held # <<>>
        PROVE  /\ \A e \in Buffered' : e[1] # p /\ posters'[e[1]].pc \in {"idle", "flush"}
               /\ \A i, j \in 1 .. Len(buffer') : buffer'[i][1] = buffer'[j][1] => i = j
    <2>1. posters[p].held # <<>>
      BY <1>4
    <2>2. /\ \A e \in Buffered : e[1] # p /\ posters[e[1]].pc \in {"idle", "flush"}
          /\ \A i, j \in 1 .. Len(buffer) : buffer[i][1] = buffer[j][1] => i = j
      BY <2>1 DEF InOrder
    <2>3. QED
      BY <1>1, <2>2
  <1>5. /\ \A p \in Posters : \A e \in Carried(p)', f \in Buffered' : ~Older(f, e)
        /\ \A e \in dropped' : \A f \in Buffered' : ~Older(f, e)
        /\ \A e \in dropped' : \A p \in Posters : \A f \in Carried(p)' : ~Older(f, e)
    BY <1>1 DEF InOrder
  <1>6. QED
    BY <1>2, <1>3, <1>4, <1>5 DEF InOrder

\* A flush takes the buffer while nobody else carries anything.
LEMMA OrderTake ==
    ASSUME AInv, InOrder, NEW q \in Posters, TakeBuffer(q), ~crossed'
    PROVE  InOrder'
  <1>1. /\ Carried(q) = {} /\ Buffered' = {} /\ Carried(q)' = Buffered
        /\ \A r \in Posters \ {q} : Carried(r)' = Carried(r) /\ posters'[r] = posters[r]
        /\ posters'[q].held = buffer
    BY TakeMoves
  <1>2. buffer' = <<>> /\ dropped' = dropped /\ posters[q].held = <<>>
    BY DEF TakeBuffer, AInv, PosterShape
  <1>3. buffer = <<>> \/ \A r \in Posters \ {q} : posters[r].held = <<>>
    BY DEF TakeBuffer
  <1>4. Sorted(buffer') /\ \A p \in Posters : Sorted(posters'[p].held)
    <2>1. Sorted(<<>>)
      BY EmptySeq DEF Sorted
    <2>2. QED
      BY <1>1, <1>2, <2>1 DEF InOrder
  <1>5. \A p, r \in Posters : posters'[p].held # <<>> /\ posters'[r].held # <<>> => p = r
    BY <1>1, <1>3 DEF InOrder
  <1>6. \A i, j \in 1 .. Len(buffer') : buffer'[i][1] = buffer'[j][1] => i = j
    BY <1>2, EmptySeq
  <1>7. \A e \in dropped' : \A p \in Posters : \A f \in Carried(p)' : ~Older(f, e)
    BY <1>1, <1>2 DEF InOrder
  <1>8. QED
    BY <1>1, <1>4, <1>5, <1>6, <1>7 DEF InOrder

\* A flush hands over the oldest it carries.
LEMMA OrderFlush ==
    ASSUME AInv, InOrder, NEW q \in Posters, FlushAcked(q)
    PROVE  InOrder'
  <1>1. /\ Carried(q)' \subseteq Carried(q)
        /\ \A r \in Posters \ {q} : Carried(r)' = Carried(r) /\ posters'[r] = posters[r]
        /\ posters'[q].held = Tail(posters[q].held) /\ posters[q].held # <<>>
    BY FlushSucceeds DEF FlushAcked
  <1>2. buffer' = buffer /\ dropped' = dropped /\ Buffered' = Buffered
    BY DEF FlushAcked, Buffered
  <1>3. Sorted(buffer') /\ \A p \in Posters : Sorted(posters'[p].held)
    <2>1. posters[q].held \in Seq(Events) /\ Sorted(posters[q].held)
      BY DEF AInv, TypeOK, InOrder
    <2>2. Sorted(Tail(posters[q].held))
      BY <1>1, <2>1, TailSet
    <2>3. QED
      BY <1>1, <1>2, <2>2 DEF InOrder
  <1>4. \A p \in Posters : posters'[p].held # <<>> => p = q
    BY <1>1 DEF InOrder
  <1>5. /\ \A e \in Buffered' : e[1] # q /\ posters'[e[1]].pc \in {"idle", "flush"}
        /\ \A i, j \in 1 .. Len(buffer') : buffer'[i][1] = buffer'[j][1] => i = j
    <2>1. \A e \in Buffered : e[1] \in Posters
      BY EventPairs DEF AInv, EventsKept, Past, Produced
    <2>2. QED
      BY <1>1, <1>2, <2>1 DEF InOrder
  <1>6. \A p \in Posters : Carried(p)' \subseteq Carried(p)
    BY <1>1
  <1>7. /\ \A p \in Posters : \A e \in Carried(p)', f \in Buffered' : ~Older(f, e)
        /\ \A e \in dropped' : \A f \in Buffered' : ~Older(f, e)
        /\ \A e \in dropped' : \A p \in Posters : \A f \in Carried(p)' : ~Older(f, e)
    BY <1>2, <1>6 DEF InOrder
  <1>8. QED
    BY <1>3, <1>4, <1>5, <1>7 DEF InOrder

\* A failed flush puts older events in front of newer ones, and drops from
\* the front.
LEMMA OrderRebuffer ==
    ASSUME AInv, InOrder, NEW q \in Posters, Rebuffer(q)
    PROVE  InOrder'
  <1>1. /\ Carried(q)' = {} /\ posters'[q].held = <<>>
        /\ \A r \in Posters \ {q} : Carried(r)' = Carried(r) /\ posters'[r] = posters[r]
    BY RebufferMoves
  <1>2. PICK lost : /\ GivesUp(lost)
                    /\ lost \cup Buffered' = Carried(q) \cup Buffered
                    /\ Sorted(posters[q].held \o buffer) =>
                          /\ Sorted(buffer')
                          /\ \A e \in lost, f \in Buffered' : ~Older(f, e)
    BY RebufferMoves
  <1>3. posters[q].held # <<>>
    BY DEF Rebuffer, AInv, PosterShape
  <1>4. \A p \in Posters : posters'[p].held = <<>> /\ Carried(p)' = {}
    <2>1. \A p \in Posters \ {q} : posters[p].held = <<>>
      BY <1>3 DEF InOrder
    <2>2. \A p \in Posters \ {q} : Carried(p) = {}
      BY <2>1 DEF Carried, ToSet
    <2>3. QED
      BY <1>1, <2>1, <2>2
  <1>5. Sorted(posters[q].held \o buffer)
    <2>1. /\ posters[q].held \in Seq(Events) /\ buffer \in Seq(Events)
          /\ Sorted(posters[q].held) /\ Sorted(buffer)
      BY DEF AInv, TypeOK, InOrder
    <2>2. \A e \in ToSet(posters[q].held), f \in ToSet(buffer) : ~Older(f, e)
      BY DEF InOrder, Carried, Buffered
    <2>3. QED
      BY <2>1, <2>2, ConcatSet
  <1>6. \A e \in dropped' : \A f \in Buffered' : ~Older(f, e)
    <2>1. dropped' = dropped \cup lost
      BY <1>2 DEF GivesUp
    <2>2. \A e \in dropped : \A f \in Carried(q) \cup Buffered : ~Older(f, e)
      BY DEF InOrder
    <2>3. QED
      BY <1>2, <1>5, <2>1, <2>2
  <1>7. Sorted(<<>>)
    BY EmptySeq DEF Sorted
  <1>8. QED
    BY <1>2, <1>4, <1>5, <1>6, <1>7 DEF InOrder

\* A new event goes to the end; if that drops the front of the buffer, no
\* flush carries anything older.
LEMMA OrderBuffer ==
    ASSUME AInv, InOrder, NEW q \in Posters, buffer_runtime_event(q)
    PROVE  InOrder'
  <1> DEFINE c == posters[q].cur
  <1>1. /\ posters[q].pc = "buffer" /\ posters[q].pc # "idle"
    BY DEF buffer_runtime_event
  <1>2. /\ \A r \in Posters : Carried(r)' = Carried(r) /\ posters'[r].held = posters[r].held
        /\ \A r \in Posters \ {q} : posters'[r] = posters[r]
        /\ posters'[q].pc = "idle"
    BY BufferMoves
  <1>3. /\ c \in Events /\ c[1] = q /\ \A e \in Past : ~Older(c, e)
    BY <1>1, CurrentEvent
  <1>4. PICK lost : /\ GivesUp(lost) /\ lost \subseteq Buffered
                    /\ Buffered' = (Buffered \ lost) \cup {c}
                    /\ Len(buffer) < Cap => lost = {} /\ buffer' = Append(buffer, c)
                    /\ Sorted(buffer) =>
                          /\ Sorted(buffer')
                          /\ \A e \in lost, f \in Buffered \ lost : ~Older(f, e)
    BY BufferMoves
  <1>5. /\ buffer \in Seq(Events) /\ Buffered \subseteq Past /\ dropped \subseteq Past
        /\ \A p \in Posters : Carried(p) \subseteq Past
    BY DEF AInv, TypeOK, EventsKept
  <1> HIDE DEF c
  <1>6. Sorted(buffer') /\ \A p \in Posters : Sorted(posters'[p].held)
    BY <1>2, <1>4 DEF InOrder
  <1>7. \A p, r \in Posters : posters'[p].held # <<>> /\ posters'[r].held # <<>> => p = r
    BY <1>2 DEF InOrder
  <1>8. \A p \in Posters : \A e \in Carried(p)', f \in Buffered' : ~Older(f, e)
    BY <1>2, <1>3, <1>4, <1>5 DEF InOrder
  <1>9. dropped' = dropped \cup lost
    BY <1>4 DEF GivesUp
  <1>10. \A e \in dropped' : \A f \in Buffered' : ~Older(f, e)
    <2>1. \A e \in dropped, f \in Buffered : ~Older(f, e)
      BY DEF InOrder
    <2>2. \A e \in lost, f \in Buffered \ lost : ~Older(f, e)
      BY <1>4 DEF InOrder
    <2>3. \A e \in dropped \cup lost : ~Older(c, e)
      BY <1>3, <1>4, <1>5
    <2>4. QED
      BY <1>4, <1>9, <2>1, <2>2, <2>3
  <1>11. ASSUME NEW p \in Posters, posters'[p].held # <<>>
         PROVE  /\ lost = {}
                /\ \A e \in Buffered' : e[1] # p /\ posters'[e[1]].pc \in {"idle", "flush"}
                /\ \A i, j \in 1 .. Len(buffer') : buffer'[i][1] = buffer'[j][1] => i = j
    <2>1. posters[p].held # <<>>
      BY <1>2, <1>11
    <2>2. lost = {} /\ buffer' = Append(buffer, c)
      BY <1>1, <1>4, <2>1, RoomWhileFlushing
    <2>3. /\ \A e \in Buffered : e[1] # p /\ posters[e[1]].pc \in {"idle", "flush"}
          /\ \A i, j \in 1 .. Len(buffer) : buffer[i][1] = buffer[j][1] => i = j
      BY <2>1 DEF InOrder
    <2>4. p # q
      BY <1>1, <2>1 DEF AInv, PosterShape
    <2>5. \A e \in Buffered : e[1] \in Posters /\ e[1] # q
      BY <1>1, <1>5, <2>3, EventPairs DEF Past, Produced
    <2>6. \A e \in Buffered' : e[1] # p /\ posters'[e[1]].pc \in {"idle", "flush"}
      <3>1. \A e \in Buffered : posters'[e[1]].pc \in {"idle", "flush"}
        BY <1>2, <2>3, <2>5
      <3>2. c[1] # p /\ posters'[c[1]].pc = "idle"
        BY <1>2, <1>3, <2>4
      <3>3. QED
        BY <1>4, <2>3, <3>1, <3>2
    <2>7. \A i, j \in 1 .. Len(buffer') : buffer'[i][1] = buffer'[j][1] => i = j
      <3>1. /\ Len(buffer) \in Nat /\ Len(buffer') = Len(buffer) + 1
            /\ \A i \in 1 .. Len(buffer) : buffer'[i] = buffer[i]
            /\ buffer'[Len(buffer) + 1] = c
        BY <1>3, <1>5, <2>2, AppendProperties, LenProperties
      <3>2. \A i \in 1 .. Len(buffer) : buffer[i][1] # q
        BY <1>5, <2>5, SetOfSeq DEF Buffered
      <3>3. \A i \in 1 .. Len(buffer') : i \in 1 .. Len(buffer) \/ i = Len(buffer) + 1
        BY <3>1
      <3>4. QED
        BY <1>3, <2>3, <3>1, <3>2, <3>3
    <2>8. QED
      BY <2>2, <2>6, <2>7
  <1>12. \A e \in dropped' : \A p \in Posters : \A f \in Carried(p)' : ~Older(f, e)
    <2>1. ASSUME NEW e \in dropped', NEW p \in Posters, NEW f \in Carried(p)'
          PROVE  ~Older(f, e)
      <3>1. posters'[p].held # <<>>
        BY <2>1 DEF Carried, ToSet
      <3>2. e \in dropped /\ f \in Carried(p)
        BY <1>2, <1>9, <1>11, <2>1, <3>1
      <3>3. QED
        BY <3>2 DEF InOrder
    <2>2. QED
      BY <2>1
  <1>13. QED
    BY <1>6, <1>7, <1>8, <1>10, <1>11, <1>12 DEF InOrder

\* As long as flushes do not overlap, every step keeps the order.
LEMMA OrderNext == AInv /\ OInv /\ [BufferNext]_vars => OInv'
  <1> SUFFICES ASSUME AInv, OInv, [BufferNext]_vars, ~crossed' PROVE InOrder'
    BY DEF OInv
  <1>1. ~crossed
    BY BufferSteps DEF Heal, vars, post_runtime_event, TakeBuffer, Rebuffer, FlushAcked,
                       PostAcked, buffer_runtime_event, FlushFailed, PostFailed
  <1>2. InOrder
    BY <1>1 DEF OInv
  <1>3. \A e \in Buffered : e[1] \in Posters
    BY EventPairs DEF AInv, EventsKept, Past, Produced
  <1>4. CASE Heal \/ UNCHANGED vars
    BY <1>2, <1>4, OrderKept DEF Heal, vars
  <1>5. ASSUME NEW q \in Posters, post_runtime_event(q) PROVE InOrder'
    <2>1. /\ posters[q].pc = "idle" /\ posters[q].held = <<>>
          /\ UNCHANGED <<buffer, dropped>>
          /\ posters'[q].pc = "flush" /\ posters'[q].held = <<>>
          /\ \A r \in Posters \ {q} : posters'[r] = posters[r]
      BY <1>5 DEF post_runtime_event, AInv, TypeOK, PosterShape, Idle
    <2>2. QED
      BY <1>2, <1>3, <2>1, OrderKept
  <1>6. ASSUME NEW q \in Posters, NEW outcome, FlushFailed(q, outcome) PROVE InOrder'
    <2>1. /\ \A r \in Posters : posters'[r].held = posters[r].held
          /\ \A r \in Posters \ {q} : posters'[r] = posters[r]
          /\ posters[q].pc = "flushing" /\ UNCHANGED <<buffer, dropped>>
      BY <1>6, FlushFails DEF FlushFailed
    <2>2. QED
      BY <1>2, <1>3, <2>1, OrderKept
  <1>7. ASSUME NEW q \in Posters, NEW outcome, PostFailed(q, outcome) PROVE InOrder'
    <2>1. /\ \A r \in Posters : posters'[r].held = posters[r].held
          /\ \A r \in Posters \ {q} : posters'[r] = posters[r]
          /\ posters[q].pc = "post" /\ UNCHANGED <<buffer, dropped>>
      BY <1>7, PostFails DEF PostFailed
    <2>2. QED
      BY <1>2, <1>3, <2>1, OrderKept
  <1>8. ASSUME NEW q \in Posters, PostAcked(q) PROVE InOrder'
    <2>1. /\ \A r \in Posters : posters'[r].held = posters[r].held
          /\ \A r \in Posters \ {q} : posters'[r] = posters[r]
          /\ posters[q].pc = "post" /\ UNCHANGED <<buffer, dropped>>
      BY <1>8, PostSucceeds DEF PostAcked
    <2>2. QED
      BY <1>2, <1>3, <2>1, OrderKept
  <1>9. QED
    BY <1>2, <1>4, <1>5, <1>6, <1>7, <1>8, BufferSteps, OrderTake, OrderFlush,
       OrderRebuffer, OrderBuffer

\* Whatever is pending is in one of the ordered places, or newest of its task.
LEMMA OrderedDrops == AInv /\ OInv => OldestDropped
  <1> SUFFICES ASSUME AInv, InOrder
               PROVE  /\ \A i, j \in DOMAIN buffer : i < j => ~Older(buffer[j], buffer[i])
                      /\ \A e \in dropped, f \in Events : Pending(f) => ~Older(f, e)
    BY DEF OInv, OldestDropped
  <1>1. \A i, j \in DOMAIN buffer : i < j => ~Older(buffer[j], buffer[i])
    BY SetOfSeq DEF AInv, TypeOK, InOrder, Sorted
  <1>2. ASSUME NEW e \in dropped, NEW f \in Events, Pending(f) PROVE ~Older(f, e)
    <2>1. f \in Buffered \/ \E p \in Posters : f \in Carried(p) \/ posters[p].cur = f
      BY <1>2, Places DEF Pending
    <2>2. CASE f \in Buffered \/ \E p \in Posters : f \in Carried(p)
      BY <2>2 DEF InOrder
    <2>3. ASSUME NEW p \in Posters, posters[p].cur = f PROVE ~Older(f, e)
      <3>1. posters[p].pc # "idle"
        BY <2>3, EventPairs DEF AInv, PosterShape
      <3>2. e \in Past
        BY DEF AInv, EventsKept
      <3>3. QED
        BY <2>3, <3>1, <3>2, CurrentEvent
    <2>4. QED
      BY <2>1, <2>2, <2>3
  <1>3. QED
    BY <1>1, <1>2

\* What is dropped is the oldest, unless two flushes overlapped.
THEOREM DropsOldest == BufferSpec => []OldestDropped
  <1>1. BufferSpec => []OInv
    BY OrderInit, OrderNext, BufferInvariance, PTL DEF BufferSpec
  <1>2. QED
    BY <1>1, OrderedDrops, BufferInvariance, PTL

-----------------------------------------------------------------------------
(* The buffer implements EventDelivery *)

OpenEvents == Produced \ (acked \cup dropped)

\* What is carried, buffered or under way is open.
LEMMA CarriedIsOpen ==
    ASSUME AInv, NEW p \in Posters
    PROVE  /\ Carried(p) \subseteq OpenEvents /\ Buffered \subseteq OpenEvents
           /\ posters[p].pc # "idle" => posters[p].cur \in OpenEvents
  <1>1. Carried(p) \subseteq OpenEvents /\ Buffered \subseteq OpenEvents
    BY DEF AInv, EventsApart, EventsKept, Past, OpenEvents
  <1>2. posters[p].pc # "idle" => posters[p].cur \in OpenEvents
    BY CurrentEvent DEF OpenEvents
  <1>3. QED
    BY <1>1, <1>2

\* There are finitely many events.
LEMMA FinitelyMany == IsFiniteSet(Events)
  <1>1. IsFiniteSet(1 .. MaxEvents)
    BY FS_Interval, BufferAssumption
  <1>2. QED
    BY <1>1, FS_Product, FewPosters DEF Events

\* A step that only gives up events of the buffer or of a flush is a GiveUp
\* of the abstract specification, or leaves it where it is.
LEMMA GivingUpAbstracts ==
    ASSUME AInv, AInv', UNCHANGED <<posted, stored, acked>>, Produced' = Produced,
           NEW lost, GivesUp(lost), lost \subseteq OpenEvents
    PROVE  Delivery!GiveUp \/ UNCHANGED Delivery!deliveryVars
  <1>1. CASE lost = {}
    BY <1>1 DEF GivesUp, Delivery!deliveryVars
  <1>2. CASE lost # {}
    <2> DEFINE rest == OpenEvents \ lost
    <2>1. Buffered' \subseteq OpenEvents
      BY DEF AInv, EventsApart, EventsKept, Past, OpenEvents, GivesUp
    <2>2. Buffered' \subseteq rest
      BY <2>1 DEF GivesUp
    <2>3. IsFiniteSet(rest)
      <3>1. rest \in SUBSET Events
        BY DEF OpenEvents, Produced
      <3> HIDE DEF rest
      <3>2. QED
        BY <3>1, FinitelyMany, FS_Subset
    <2>4. Cardinality(Buffered') = Len(buffer') /\ Len(buffer') \in Nat
      <3>1. buffer' \in Seq(Events) /\ NoRepeat(buffer')
        BY DEF AInv, TypeOK, EventsApart
      <3>2. QED
        BY <3>1, CardinalityOfSeq, SetOfSeq DEF Buffered
    <2>5. Cardinality(Buffered') <= Cardinality(rest)
      <3> HIDE DEF rest
      <3>1. QED
        BY <2>2, <2>3, FS_Subset
    <2>6. Cardinality(rest) \in Nat
      BY <2>3, FS_CardinalityType
    <2>7. Len(buffer') >= Cap
      BY <1>2 DEF GivesUp
    <2>8. Cardinality(rest) >= Cap
      <3> HIDE DEF rest
      <3>1. QED
        BY <2>4, <2>5, <2>6, <2>7, BufferAssumption
    <2>9. /\ lost \in (SUBSET OpenEvents) \ {{}}
          /\ Cardinality(OpenEvents \ lost) >= Cap
          /\ dropped' = dropped \cup lost
      BY <1>2, <2>8 DEF GivesUp
    <2>10. Delivery!Open = OpenEvents
      BY DEF Delivery!Open, OpenEvents
    <2>11. Delivery!Cardinality(OpenEvents \ lost) = Cardinality(OpenEvents \ lost)
      BY DEF Delivery!Cardinality, Cardinality
    <2>12. Delivery!GiveUp
      BY <2>9, <2>10, <2>11 DEF Delivery!GiveUp
    <2>13. QED
      BY <2>12
  <1>3. QED
    BY <1>1, <1>2

\* The start of the buffer is the start of the abstract specification.
LEMMA DeliveryStarts == BufferInit => Delivery!DeliveryInit
  <1> SUFFICES ASSUME BufferInit PROVE Produced = {}
    BY DEF BufferInit, Delivery!DeliveryInit
  <1>1. ASSUME NEW e \in Events PROVE ~(e[2] <= posted[e[1]])
    BY EventPairs, BufferAssumption DEF BufferInit
  <1>2. QED
    BY <1>1 DEF Produced

\* Every step of the buffer is a step of the abstract specification, or none.
LEMMA DeliverySteps ==
    AInv /\ [BufferNext]_vars => [Delivery!DeliveryNext]_Delivery!deliveryVars
  <1> SUFFICES ASSUME AInv, [BufferNext]_vars
               PROVE  Delivery!DeliveryNext \/ UNCHANGED Delivery!deliveryVars
    OBVIOUS
  <1>1. AInv'
    BY AInvNext
  <1>2. Delivery!Open = OpenEvents
    BY DEF Delivery!Open, OpenEvents
  <1>3. CASE Heal \/ UNCHANGED vars
    <2>1. UNCHANGED <<posted, stored, acked, dropped>>
      BY <1>3 DEF Heal, vars
    <2>2. QED
      BY <2>1 DEF Produced, Delivery!deliveryVars
  <1>4. ASSUME NEW p \in Posters, post_runtime_event(p) PROVE Delivery!Accept
    <2>1. /\ Produced' = Produced \cup {NextEvent(p)}
          /\ NextEvent(p) \in Events \ Produced
      BY <1>4, PostStarts
    <2>2. UNCHANGED <<acked, dropped, stored>>
      BY <1>4 DEF post_runtime_event
    <2>3. QED
      BY <2>1, <2>2 DEF Delivery!Accept
  <1>5. ASSUME NEW p \in Posters, TakeBuffer(p) PROVE UNCHANGED Delivery!deliveryVars
    <2>1. Produced' = Produced
      BY <1>5, TakeMoves
    <2>2. UNCHANGED <<stored, acked, dropped>>
      BY <1>5 DEF TakeBuffer
    <2>3. QED
      BY <2>1, <2>2 DEF Delivery!deliveryVars
  <1>6. ASSUME NEW p \in Posters, FlushAcked(p) PROVE Delivery!Acknowledge
    <2> DEFINE h == Head(posters[p].held)
    <2>1. posters[p].pc = "flushing" /\ Request(h, "ok") /\ UNCHANGED <<posted, dropped>>
      BY <1>6 DEF FlushAcked
    <2>2. Produced' = Produced
      BY <2>1 DEF Produced
    <2>3. h \in Carried(p)
      <3>1. posters[p].held \in Seq(Events) /\ posters[p].held # <<>>
        BY <2>1 DEF AInv, TypeOK, PosterShape
      <3>2. QED
        BY <3>1, TailSet DEF Carried
    <2> HIDE DEF h
    <2>4. h \in OpenEvents
      BY <2>3, CarriedIsOpen
    <2>5. acked' = acked \cup {h} /\ stored' = stored \cup {h}
      BY <2>1 DEF Request
    <2>6. QED
      BY <1>2, <2>1, <2>2, <2>4, <2>5 DEF Delivery!Acknowledge
  <1>7. ASSUME NEW p \in Posters, PostAcked(p) PROVE Delivery!Acknowledge
    <2>1. /\ posters[p].cur \in OpenEvents /\ Produced' = Produced
      BY <1>7, PostSucceeds, CarriedIsOpen DEF PostAcked
    <2>2. /\ acked' = acked \cup {posters[p].cur} /\ dropped' = dropped
          /\ stored' = stored \cup {posters[p].cur}
      BY <1>7 DEF PostAcked, Request
    <2>3. QED
      BY <1>2, <2>1, <2>2 DEF Delivery!Acknowledge
  <1>8. ASSUME NEW p \in Posters, NEW outcome, FlushFailed(p, outcome)
        PROVE  Delivery!StoreUnanswered \/ UNCHANGED Delivery!deliveryVars
    <2>1. /\ Head(posters[p].held) \in OpenEvents /\ Produced' = Produced
          /\ acked' = acked
      BY <1>8, FlushFails, CarriedIsOpen DEF FlushFailed
    <2>2. /\ dropped' = dropped
          /\ stored' = stored \/ stored' = stored \cup {Head(posters[p].held)}
      BY <1>8 DEF FlushFailed, Request
    <2>3. QED
      BY <1>2, <2>1, <2>2 DEF Delivery!StoreUnanswered, Delivery!deliveryVars
  <1>9. ASSUME NEW p \in Posters, NEW outcome, PostFailed(p, outcome)
        PROVE  Delivery!StoreUnanswered \/ UNCHANGED Delivery!deliveryVars
    <2>1. /\ posters[p].cur \in OpenEvents /\ Produced' = Produced
          /\ acked' = acked
      BY <1>9, PostFails, CarriedIsOpen DEF PostFailed
    <2>2. /\ dropped' = dropped
          /\ stored' = stored \/ stored' = stored \cup {posters[p].cur}
      BY <1>9 DEF PostFailed, Request
    <2>3. QED
      BY <1>2, <2>1, <2>2 DEF Delivery!StoreUnanswered, Delivery!deliveryVars
  <1>10. ASSUME NEW p \in Posters, Rebuffer(p)
         PROVE  Delivery!GiveUp \/ UNCHANGED Delivery!deliveryVars
    <2>1. PICK lost : GivesUp(lost) /\ lost \cup Buffered' = Carried(p) \cup Buffered
      BY <1>10, RebufferMoves
    <2>2. lost \subseteq OpenEvents
      BY <2>1, CarriedIsOpen
    <2>3. UNCHANGED <<posted, stored, acked>>
      BY <1>10 DEF Rebuffer
    <2>5. Produced' = Produced
      BY <1>10, RebufferMoves
    <2>4. QED
      BY <1>1, <2>1, <2>2, <2>3, <2>5, GivingUpAbstracts
  <1>11. ASSUME NEW p \in Posters, buffer_runtime_event(p)
         PROVE  Delivery!GiveUp \/ UNCHANGED Delivery!deliveryVars
    <2>1. PICK lost : GivesUp(lost) /\ lost \subseteq Buffered
      BY <1>11, BufferMoves
    <2>2. lost \subseteq OpenEvents
      BY <2>1, CarriedIsOpen
    <2>3. UNCHANGED <<posted, stored, acked>> /\ Produced' = Produced
      BY <1>11, BufferMoves DEF buffer_runtime_event
    <2>4. QED
      BY <1>1, <2>1, <2>2, <2>3, GivingUpAbstracts
  <1>12. QED
    BY <1>3, <1>4, <1>5, <1>6, <1>7, <1>8, <1>9, <1>10, <1>11, BufferSteps
       DEF Delivery!DeliveryNext

\* The buffer implements the lossy delivery of EventDelivery: every accepted
\* event stays open until it is acknowledged, or given up while Cap others wait.
THEOREM BufferDelivers == BufferSpec => DeliveryImplemented
  BY DeliveryStarts, DeliverySteps, BufferInvariance, PTL
     DEF BufferSpec, DeliveryImplemented, Delivery!DeliverySpec
=============================================================================
