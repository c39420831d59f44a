-------------------------- MODULE EventIngestProofs --------------------------
(***************************************************************************)
(* Proofs about EventIngest, for any number of handlers, keys and batches, *)
(* any window, and any thresholds.                                         *)
(*                                                                         *)
(* The inductive invariant says, of the store, that one handler at a time  *)
(* holds its lock and that every key accepted less than Ttl ago is in the  *)
(* window with the expiry it was given, unless it was evicted alive.       *)
(* Pruning is a filter: RankOnto and EntriesAtProps show that it keeps     *)
(* every live entry, and keeps it once.                                    *)
(***************************************************************************)
EXTENDS EventIngest, FiniteSetTheorems, SequenceTheorems, TLAPS

\* The entry e is in the window s.
Has(s, e) == \E i \in DOMAIN s : s[i] = e

\* The window s holds each key once.
Unique(s) == \A i, j \in DOMAIN s : s[i].key = s[j].key => i = j

\* What Accept drops from the front of s, and what it loses with that.
Shortened(s) == SubSeq(s, EvictCount(s) + 1, Len(s))
Lost(s) == {s[i].key : i \in {j \in 1 .. EvictCount(s) : s[j].expiry > now}}

\* Positions are ranked from 1 on without gaps.
LEMMA RankOnto ==
  ASSUME NEW m \in Nat, NEW I \in SUBSET (1 .. m)
  PROVE  /\ IsFiniteSet(I) /\ Cardinality(I) \in Nat /\ Cardinality(I) <= m
         /\ \A i \in I : Rank(I, i) \in 1 .. Cardinality(I)
         /\ \A i, j \in I : Rank(I, i) = Rank(I, j) => i = j
         /\ \A n \in 1 .. Cardinality(I) : \E i \in I : Rank(I, i) = n
<1>1. IsFiniteSet(I) /\ Cardinality(I) \in Nat /\ Cardinality(I) <= m
  <2>1. IsFiniteSet(1 .. m) /\ Cardinality(1 .. m) = m
    BY FS_Interval
  <2>2. IsFiniteSet(I) /\ Cardinality(I) <= m
    BY <2>1, FS_Subset
  <2>3. QED
    BY <2>2, FS_CardinalityType
<1> DEFINE Upto(i) == {j \in I : j <= i}
<1>2. \A i \in I : IsFiniteSet(Upto(i)) /\ Rank(I, i) \in 1 .. Cardinality(I)
  <2> SUFFICES ASSUME NEW i \in I
               PROVE  IsFiniteSet(Upto(i)) /\ Rank(I, i) \in 1 .. Cardinality(I)
    OBVIOUS
  <2>1. Upto(i) \in SUBSET I /\ i \in Upto(i)
    OBVIOUS
  <2>2. IsFiniteSet(Upto(i)) /\ Cardinality(Upto(i)) <= Cardinality(I)
    BY <1>1, <2>1, FS_Subset
  <2>3. Cardinality(Upto(i)) \in Nat /\ Cardinality(Upto(i)) # 0
    BY <2>1, <2>2, FS_CardinalityType, FS_EmptySet
  <2>4. QED
    BY <1>1, <2>2, <2>3 DEF Rank
<1>3. \A i, j \in I : i < j => Rank(I, i) # Rank(I, j)
  <2> SUFFICES ASSUME NEW i \in I, NEW j \in I, i < j, Rank(I, i) = Rank(I, j)
               PROVE  FALSE
    OBVIOUS
  <2> i \in Nat /\ j \in Nat
    OBVIOUS
  <2>1. Upto(i) \in SUBSET Upto(j) /\ j \in Upto(j) /\ j \notin Upto(i)
    <3>1. \A l \in I : l <= i => l <= j
      OBVIOUS
    <3>2. ~(j <= i) /\ j <= j
      OBVIOUS
    <3>3. QED
      BY <3>1, <3>2
  <2>2. Upto(i) = Upto(j)
    BY <1>2, <2>1, FS_Subset DEF Rank
  <2>3. QED
    BY <2>1, <2>2
<1>4. \A i, j \in I : Rank(I, i) = Rank(I, j) => i = j
  BY <1>3
<1>5. \A n \in 1 .. Cardinality(I) : \E i \in I : Rank(I, i) = n
  <2> DEFINE F == [i \in I |-> Rank(I, i)]
             N == 1 .. Cardinality(I)
  <2>1. F \in [I -> N]
    BY <1>2
  <2>2. IsInjective(F)
    BY <1>4 DEF IsInjective
  <2>3. F \in Injection(I, N)
    BY <2>1, <2>2 DEF Injection
  <2>4. IsFiniteSet(N) /\ Cardinality(N) = Cardinality(I)
    BY <1>1, FS_Interval
  <2>5. F \in Surjection(I, N)
    BY <2>3, <2>4, FS_Injection
  <2>6. QED
    BY <2>5 DEF Surjection
<1>6. QED
  BY <1>1, <1>2, <1>4, <1>5

\* Pruning keeps whole entries, each once, none that is not asked for, and all
\* that are.
LEMMA EntriesAtProps ==
  ASSUME seen \in Seq(Entry), NEW I \in SUBSET DOMAIN seen
  PROVE  /\ EntriesAt(I) \in Seq(Entry) /\ Len(EntriesAt(I)) <= Len(seen)
         /\ \A n \in DOMAIN EntriesAt(I) : \E i \in I : EntriesAt(I)[n] = seen[i] /\ Rank(I, i) = n
         /\ \A i \in I : \E n \in DOMAIN EntriesAt(I) : EntriesAt(I)[n] = seen[i]
<1> DEFINE at(n) == CHOOSE i \in I : Rank(I, i) = n
           N == Cardinality(I)
<1>0. Len(seen) \in Nat /\ DOMAIN seen = 1 .. Len(seen)
  OBVIOUS
<1>1. /\ N \in Nat /\ N <= Len(seen)
      /\ \A i \in I : Rank(I, i) \in 1 .. N
      /\ \A i, j \in I : Rank(I, i) = Rank(I, j) => i = j
      /\ \A n \in 1 .. N : \E i \in I : Rank(I, i) = n
  BY <1>0, RankOnto
<1>2. \A n \in 1 .. N : at(n) \in I /\ Rank(I, at(n)) = n
  BY <1>1
<1>3. \A i \in I : at(Rank(I, i)) = i
  BY <1>1, <1>2
<1> HIDE DEF at
<1>4. EntriesAt(I) = [n \in 1 .. N |-> seen[at(n)]]
  BY DEF EntriesAt, at
<1>5. \A n \in 1 .. N : seen[at(n)] \in Entry
  BY <1>2
<1>6. EntriesAt(I) \in Seq(Entry) /\ Len(EntriesAt(I)) = N /\ DOMAIN EntriesAt(I) = 1 .. N
  BY <1>1, <1>4, <1>5
<1>7. QED
  BY <1>1, <1>2, <1>3, <1>4, <1>6

\* _prune_seen keeps the window as it should be, and every live entry in it.
LEMMA PrunedProps ==
  ASSUME seen \in Seq(Entry), now \in Nat, SeenBounded
  PROVE  /\ Pruned \in Seq(Entry) /\ Len(Pruned) <= 2 * MaxEvents /\ Unique(Pruned)
         /\ \A e \in Entry : Has(seen, e) /\ e.expiry > now => Has(Pruned, e)
<1>0. MaxEvents \in Nat /\ Len(seen) \in Nat /\ DOMAIN seen = 1 .. Len(seen)
  BY IngestAssumption
<1>1. CASE accepted % PruneEvery = 0
  <2> DEFINE I == {i \in DOMAIN seen : seen[i].expiry > now}
  <2>1. Pruned = EntriesAt(I)
    BY <1>1 DEF Pruned
  <2>2. /\ EntriesAt(I) \in Seq(Entry) /\ Len(EntriesAt(I)) <= Len(seen)
        /\ \A n \in DOMAIN EntriesAt(I) :
             \E i \in I : EntriesAt(I)[n] = seen[i] /\ Rank(I, i) = n
        /\ \A i \in I : \E n \in DOMAIN EntriesAt(I) : EntriesAt(I)[n] = seen[i]
    BY EntriesAtProps
  <2>3. Len(EntriesAt(I)) <= 2 * MaxEvents
    BY <1>0, <2>2 DEF SeenBounded
  <2>4. Unique(EntriesAt(I))
    BY <2>2 DEF Unique, SeenBounded
  <2>5. \A e \in Entry : Has(seen, e) /\ e.expiry > now => Has(EntriesAt(I), e)
    BY <2>2 DEF Has
  <2>6. QED
    BY <2>1, <2>2, <2>3, <2>4, <2>5
<1>2. CASE accepted % PruneEvery # 0
  <2>1. Pruned = seen
    BY <1>2 DEF Pruned
  <2>2. QED
    BY <2>1 DEF SeenBounded, Unique
<1>3. QED
  BY <1>1, <1>2

\* Registering a key gives it its new expiry, whether it was there or not, and
\* leaves the other keys alone.
LEMMA RegisteredProps ==
  ASSUME Pruned \in Seq(Entry), Unique(Pruned), now \in Nat, NEW k \in Key
  PROVE  /\ Registered(k) \in Seq(Entry) /\ Len(Registered(k)) <= Len(Pruned) + 1
         /\ Unique(Registered(k))
         /\ Has(Registered(k), [key |-> k, expiry |-> now + Ttl])
         /\ \A e \in Entry : Has(Pruned, e) /\ e.key # k => Has(Registered(k), e)
<1> DEFINE e == [key |-> k, expiry |-> now + Ttl]
           P == Pruned
<1>1. e \in Entry /\ e.key = k
  BY IngestAssumption DEF Entry
<1>2. Len(P) \in Nat /\ DOMAIN P = 1 .. Len(P)
  OBVIOUS
<1> HIDE DEF e
<1>3. CASE \E i \in DOMAIN P : P[i].key = k
  <2> DEFINE R == [i \in DOMAIN P |-> IF P[i].key = k THEN e ELSE P[i]]
  <2>1. Registered(k) = R
    BY <1>3 DEF Registered, e
  <2>2. R \in Seq(Entry) /\ Len(R) = Len(P) /\ DOMAIN R = DOMAIN P
    BY <1>1, <1>2
  <2>3. \A i \in DOMAIN P : R[i].key = P[i].key /\ (P[i].key = k => R[i] = e)
                            /\ (P[i].key # k => R[i] = P[i])
    BY <1>1
  <2> HIDE DEF R
  <2>4. Unique(R)
    BY <2>2, <2>3 DEF Unique
  <2>5. Has(R, e)
    BY <1>3, <2>2, <2>3 DEF Has
  <2>6. \A f \in Entry : Has(P, f) /\ f.key # k => Has(R, f)
    BY <2>2, <2>3 DEF Has
  <2>7. QED
    BY <1>2, <2>1, <2>2, <2>4, <2>5, <2>6 DEF e
<1>4. CASE ~\E i \in DOMAIN P : P[i].key = k
  <2> DEFINE R == Append(P, e)
  <2>1. Registered(k) = R
    BY <1>4 DEF Registered, e
  <2>2. /\ R \in Seq(Entry) /\ Len(R) = Len(P) + 1 /\ DOMAIN R = 1 .. Len(P) + 1
        /\ \A i \in DOMAIN P : R[i] = P[i]
        /\ R[Len(P) + 1] = e
    BY <1>1, <1>2
  <2> HIDE DEF R
  <2>4. Unique(R)
    BY <1>1, <1>2, <1>4, <2>2 DEF Unique
  <2>5. Has(R, e)
    BY <1>2, <2>2 DEF Has
  <2>6. \A f \in Entry : Has(P, f) => Has(R, f)
    BY <1>2, <2>2 DEF Has
  <2>7. QED
    BY <1>2, <2>1, <2>2, <2>4, <2>5, <2>6 DEF e
<1>5. QED
  BY <1>3, <1>4

\* Eviction brings a window that is one too long back to its limit; what was live
\* and is gone has its key among the lost.
LEMMA ShortenedProps ==
  ASSUME NEW s \in Seq(Entry), Len(s) <= 2 * MaxEvents + 1, Unique(s), now \in Nat
  PROVE  /\ Shortened(s) \in Seq(Entry) /\ Len(Shortened(s)) <= 2 * MaxEvents
         /\ Unique(Shortened(s))
         /\ Lost(s) \subseteq Key
         /\ \A e \in Entry : Has(s, e) /\ e.expiry > now => Has(Shortened(s), e) \/ e.key \in Lost(s)
<1> DEFINE n == EvictCount(s)
           t == Shortened(s)
<1>0. MaxEvents \in Nat /\ MaxEvents > 1 /\ Len(s) \in Nat /\ DOMAIN s = 1 .. Len(s)
  BY IngestAssumption
<1>1. n \in Nat /\ n <= Len(s) /\ Len(s) - n <= 2 * MaxEvents
  <2>1. CASE Len(s) > 2 * MaxEvents
    BY <1>0, <2>1 DEF EvictCount
  <2>2. CASE ~(Len(s) > 2 * MaxEvents)
    BY <1>0, <2>2 DEF EvictCount
  <2>3. QED
    BY <2>1, <2>2
<1> HIDE DEF n
<1>2. /\ t \in Seq(Entry) /\ Len(t) = Len(s) - n /\ DOMAIN t = 1 .. Len(s) - n
      /\ \A i \in DOMAIN t : t[i] = s[n + i]
  BY <1>0, <1>1 DEF Shortened, n
<1> HIDE DEF t
<1>3. Unique(t)
  <2> SUFFICES ASSUME NEW i \in DOMAIN t, NEW j \in DOMAIN t, t[i].key = t[j].key
               PROVE  i = j
    BY DEF Unique
  <2>1. n + i \in DOMAIN s /\ n + j \in DOMAIN s /\ s[n + i].key = s[n + j].key
    BY <1>0, <1>1, <1>2
  <2>2. n + i = n + j
    BY <2>1 DEF Unique
  <2>3. QED
    BY <1>1, <1>2, <2>2
<1>4. Lost(s) \subseteq Key
  <2>1. \A i \in 1 .. n : s[i] \in Entry
    BY <1>0, <1>1
  <2>2. QED
    BY <2>1 DEF Lost, n, Entry
<1>5. ASSUME NEW i \in DOMAIN s, s[i].expiry > now
      PROVE  Has(t, s[i]) \/ s[i].key \in Lost(s)
  <2>1. CASE i <= n
    BY <1>0, <1>1, <1>5, <2>1 DEF Lost, n
  <2>2. CASE i > n
    <3>1. i - n \in DOMAIN t /\ t[i - n] = s[i]
      BY <1>0, <1>1, <1>2, <2>2
    <3>2. QED
      BY <3>1 DEF Has
  <2>3. QED
    BY <1>0, <1>1, <2>1, <2>2
<1>6. QED
  BY <1>1, <1>2, <1>3, <1>4, <1>5 DEF Has, t

\* The last n of a sequence, element by element.
LEMMA LastNProps ==
  ASSUME NEW s \in Seq(Key), NEW n \in Nat
  PROVE  /\ LastN(s, n) \in Seq(Key)
         /\ Len(LastN(s, n)) = IF Len(s) > n THEN n ELSE Len(s)
         /\ \A i \in 1 .. Len(LastN(s, n)) : LastN(s, n)[i] = s[Len(s) - Len(LastN(s, n)) + i]
<1>0. Len(s) \in Nat /\ DOMAIN s = 1 .. Len(s)
  OBVIOUS
<1>1. CASE Len(s) > n
  <2>1. LastN(s, n) = SubSeq(s, Len(s) - n + 1, Len(s))
    BY <1>1 DEF LastN
  <2>2. \A i \in Len(s) - n + 1 .. Len(s) : s[i] \in Key
    BY <1>0, <1>1
  <2>3. /\ LastN(s, n) \in Seq(Key) /\ Len(LastN(s, n)) = n
        /\ \A i \in 1 .. n : LastN(s, n)[i] = s[(Len(s) - n + 1) + i - 1]
    BY <1>0, <1>1, <2>1, <2>2, SubSeqProperties
  <2>4. \A i \in 1 .. n : (Len(s) - n + 1) + i - 1 = Len(s) - n + i
    BY <1>0
  <2>5. QED
    BY <1>1, <2>3, <2>4
<1>2. CASE ~(Len(s) > n)
  BY <1>0, <1>2 DEF LastN
<1>3. QED
  BY <1>1, <1>2

\* A ring that was cut to the last n before an event came shows the same as one
\* that was not.
LEMMA LastNAppend ==
  ASSUME NEW s \in Seq(Key), NEW n \in Nat, NEW k \in Key
  PROVE  LastN(Append(LastN(s, n), k), n) = LastN(Append(s, k), n)
<1> DEFINE r == LastN(s, n)
           a == Append(r, k)
           b == Append(s, k)
<1>1. /\ r \in Seq(Key) /\ Len(r) \in Nat /\ Len(s) \in Nat
      /\ Len(r) = IF Len(s) > n THEN n ELSE Len(s)
      /\ \A i \in 1 .. Len(r) : r[i] = s[Len(s) - Len(r) + i]
  BY LastNProps
<1> HIDE DEF r
<1>2. /\ a \in Seq(Key) /\ Len(a) = Len(r) + 1 /\ a[Len(r) + 1] = k
      /\ \A i \in 1 .. Len(r) : a[i] = r[i]
      /\ b \in Seq(Key) /\ Len(b) = Len(s) + 1 /\ b[Len(s) + 1] = k
      /\ \A i \in 1 .. Len(s) : b[i] = s[i]
  BY <1>1
<1> HIDE DEF a, b
<1>3. /\ LastN(a, n) \in Seq(Key) /\ Len(LastN(a, n)) = (IF Len(a) > n THEN n ELSE Len(a))
      /\ \A i \in 1 .. Len(LastN(a, n)) : LastN(a, n)[i] = a[Len(a) - Len(LastN(a, n)) + i]
      /\ LastN(b, n) \in Seq(Key) /\ Len(LastN(b, n)) = (IF Len(b) > n THEN n ELSE Len(b))
      /\ \A i \in 1 .. Len(LastN(b, n)) : LastN(b, n)[i] = b[Len(b) - Len(LastN(b, n)) + i]
  BY <1>2, LastNProps
<1>4. /\ Len(LastN(a, n)) = Len(LastN(b, n))
      /\ Len(LastN(a, n)) \in Nat /\ Len(LastN(a, n)) <= Len(r) + 1
  BY <1>1, <1>2, <1>3
<1>5. ASSUME NEW i \in 1 .. Len(LastN(a, n)) PROVE LastN(a, n)[i] = LastN(b, n)[i]
  <2> DEFINE p == Len(a) - Len(LastN(a, n)) + i
             q == Len(b) - Len(LastN(b, n)) + i
  <2> i \in Nat
    BY <1>3
  <2>1. LastN(a, n)[i] = a[p] /\ LastN(b, n)[i] = b[q]
    BY <1>3, <1>4
  <2>2. p \in 1 .. Len(r) + 1 /\ q = Len(s) - Len(r) + p /\ q \in 1 .. Len(s) + 1
    <3>1. Len(r) <= Len(s) /\ Len(a) = Len(r) + 1 /\ Len(b) = Len(s) + 1
      BY <1>1, <1>2
    <3>2. /\ Len(LastN(a, n)) = Len(LastN(b, n))
          /\ Len(LastN(a, n)) \in Nat /\ Len(LastN(a, n)) <= Len(r) + 1
      BY <1>4
    <3>3. Len(r) \in Nat /\ Len(s) \in Nat
      BY <1>1
    <3>4. QED
      BY <3>1, <3>2, <3>3
  <2> HIDE DEF p, q
  <2>3. CASE p = Len(r) + 1
    BY <1>1, <1>2, <2>1, <2>2, <2>3
  <2>4. CASE p \in 1 .. Len(r)
    <3>1. a[p] = r[p] /\ r[p] = s[Len(s) - Len(r) + p]
      BY <1>1, <1>2, <2>4
    <3>2. q \in 1 .. Len(s)
      BY <1>1, <2>2, <2>4
    <3>3. b[q] = s[q]
      BY <1>2, <3>2
    <3>4. QED
      BY <2>1, <2>2, <3>1, <3>3
  <2>5. Len(r) \in Nat
    BY <1>1
  <2>6. QED
    BY <2>2, <2>3, <2>4, <2>5
<1>6. LastN(a, n) = LastN(b, n)
  BY <1>3, <1>4, <1>5, SeqEqual
<1>7. QED
  BY <1>6 DEF a, b, r

-----------------------------------------------------------------------------
(* The inductive invariant *)

\* One handler at a time is in the store, with something left to ingest.
HandlersOK ==
  /\ \A t, u \in Threads : pc[t] = "store" /\ pc[u] = "store" => t = u
  /\ \A t \in Threads : pc[t] = "store" => items[t] # <<>>

\* What was accepted less than Ttl ago, and was not lost, is in the window with
\* the expiry it got.
WindowInv ==
  \A k \in Key :
    acceptedAt[k] # Never /\ k \notin dropped /\ now < acceptedAt[k] + Ttl =>
      Has(seen, [key |-> k, expiry |-> acceptedAt[k] + Ttl])

StoreInv == TypeOK /\ HandlersOK /\ SeenBounded /\ WindowInv
IInv == StoreInv /\ RingIsTail /\ MiningExact

LEMMA Numbers == Never = MaxTime + 1 /\ MaxTime \in Nat /\ Ttl \in Nat /\ Ttl > 0
BY IngestAssumption DEF Never

\* Accepting a key in the store: the window stays as it should be, knows the key
\* from now on, and forgets no live key but those that are dropped.
LEMMA AcceptSeen ==
  ASSUME TypeOK, HandlersOK, SeenBounded, NEW th \in Threads, Accept(th)
  PROVE  LET k == Head(items[th])
             e == [key |-> k, expiry |-> now + Ttl]
         IN  /\ k \in Key
             /\ seen' \in Seq(Entry) /\ SeenBounded'
             /\ dropped' \subseteq Key /\ dropped \ {k} \subseteq dropped'
             /\ Has(seen', e) \/ k \in dropped'
             /\ \A f \in Entry : Has(seen, f) /\ f.expiry > now /\ f.key # k =>
                                  Has(seen', f) \/ f.key \in dropped'
<1> DEFINE k == Head(items[th])
           e == [key |-> k, expiry |-> now + Ttl]
           s == Registered(k)
<1>1. k \in Key
  BY DEF Accept, HandlersOK, TypeOK
<1>2. now \in Nat /\ e \in Entry /\ e.expiry > now /\ e.key = k
  BY <1>1, Numbers DEF TypeOK, Entry
<1>3. /\ Pruned \in Seq(Entry) /\ Len(Pruned) <= 2 * MaxEvents /\ Unique(Pruned)
      /\ \A f \in Entry : Has(seen, f) /\ f.expiry > now => Has(Pruned, f)
  BY <1>2, PrunedProps DEF TypeOK
<1>4. /\ s \in Seq(Entry) /\ Len(s) <= Len(Pruned) + 1 /\ Unique(s) /\ Has(s, e)
      /\ \A f \in Entry : Has(Pruned, f) /\ f.key # k => Has(s, f)
  BY <1>1, <1>2, <1>3, RegisteredProps
<1>5. seen' = Shortened(s) /\ dropped' = (dropped \ {k}) \cup Lost(s)
  BY DEF Accept, Shortened, Lost
<1> HIDE DEF s, e, k
<1>6. Len(s) <= 2 * MaxEvents + 1
  <2>1. Len(Pruned) \in Nat /\ Len(s) \in Nat /\ MaxEvents \in Nat
    BY <1>3, <1>4, IngestAssumption
  <2>2. QED
    BY <1>3, <1>4, <2>1
<1>7. /\ Shortened(s) \in Seq(Entry) /\ Len(Shortened(s)) <= 2 * MaxEvents
      /\ Unique(Shortened(s)) /\ Lost(s) \subseteq Key
      /\ \A f \in Entry : Has(s, f) /\ f.expiry > now => Has(Shortened(s), f) \/ f.key \in Lost(s)
  BY <1>2, <1>4, <1>6, ShortenedProps
<1>8. SeenBounded'
  BY <1>5, <1>7 DEF SeenBounded, Unique
<1>9. dropped' \subseteq Key /\ dropped \ {k} \subseteq dropped' /\ Lost(s) \subseteq dropped'
  BY <1>5, <1>7 DEF TypeOK
<1>10. Has(seen', e) \/ k \in dropped'
  <2>1. Has(Shortened(s), e) \/ e.key \in Lost(s)
    BY <1>2, <1>4, <1>7
  <2>2. QED
    BY <1>2, <1>5, <1>9, <2>1
<1>11. ASSUME NEW f \in Entry, Has(seen, f), f.expiry > now, f.key # k
       PROVE  Has(seen', f) \/ f.key \in dropped'
  <2>1. Has(s, f)
    BY <1>3, <1>4, <1>11
  <2>2. Has(Shortened(s), f) \/ f.key \in Lost(s)
    BY <1>7, <1>11, <2>1
  <2>3. QED
    BY <1>5, <1>9, <2>2
<1>12. QED
  BY <1>1, <1>5, <1>7, <1>8, <1>9, <1>10, <1>11 DEF e, k

\* What is left of a sequence that is longer than one.
LEMMA TailProps ==
  ASSUME NEW s \in Seq(Key), s # <<>>
  PROVE  Tail(s) \in Seq(Key) /\ (Len(s) > 1 => Tail(s) # <<>>)
<1>1. Tail(s) \in Seq(Key) /\ Len(Tail(s)) = Len(s) - 1
  BY HeadTailProperties
<1>2. Len(<<>>) = 0 /\ Len(s) \in Nat
  OBVIOUS
<1>3. Len(s) > 1 => Len(Tail(s)) # 0
  BY <1>1, <1>2
<1>4. QED
  BY <1>1, <1>2, <1>3

\* A handler that has dealt with an item is where NextItem says, with what is left.
LEMMA NextItemProps ==
  ASSUME TypeOK, HandlersOK, NEW th \in Threads, pc[th] = "store",
         NEW a \in Seq(Key), NextItem(th, a)
  PROVE  /\ pc' \in [Threads -> {"idle", "store", "process", "buffer", "trigger"}]
         /\ items' \in [Threads -> Seq(Key)] /\ batch' \in [Threads -> Seq(Key)]
         /\ HandlersOK'
<1>1. items[th] \in Seq(Key) /\ items[th] # <<>> /\ batch[th] \in Seq(Key)
  BY DEF TypeOK, HandlersOK
<1>2. /\ Tail(items[th]) \in Seq(Key) /\ batch[th] \o a \in Seq(Key)
      /\ Len(items[th]) > 1 => Tail(items[th]) # <<>>
  BY <1>1, TailProps
<1>3. items' \in [Threads -> Seq(Key)] /\ batch' \in [Threads -> Seq(Key)]
  BY <1>2 DEF NextItem, TypeOK
<1>4. pc' \in [Threads -> {"idle", "store", "process", "buffer", "trigger"}]
  BY DEF NextItem, Goto, TypeOK
<1>5. \A t \in Threads \ {th} : pc'[t] = pc[t]
  BY DEF NextItem, Goto, TypeOK
<1>6. \A t \in Threads : pc'[t] = "store" => t = th
  BY <1>5 DEF HandlersOK
<1>7. pc'[th] = "store" => items'[th] # <<>>
  BY <1>2 DEF NextItem, Goto, TypeOK
<1>8. QED
  BY <1>3, <1>4, <1>6, <1>7 DEF HandlersOK

-----------------------------------------------------------------------------
(* Types, handlers and the window *)

\* At the start there is nothing.
LEMMA InitIInv == Init => IInv
<1> SUFFICES ASSUME Init PROVE IInv
  OBVIOUS
<1>1. TypeOK
  <2>1. /\ 0 \in 0 .. MaxTime /\ 0 \in 0 .. MaxPosts /\ 0 \in 0 .. MaxIOErrors
        /\ 0 \in 0 .. MaxRestarts /\ Never \in 0 .. Never
    BY Numbers, IngestAssumption
  <2>2. <<>> \in Seq(Entry) /\ <<>> \in Seq(Key) /\ {} \subseteq Key
    OBVIOUS
  <2>3. QED
    BY <2>1, <2>2 DEF Init, TypeOK
<1>2. HandlersOK /\ WindowInv
  BY DEF Init, HandlersOK, WindowInv
<1>3. SeenBounded /\ MiningExact
  BY IngestAssumption DEF Init, SeenBounded, MiningExact
<1>4. RingIsTail
  BY IngestAssumption DEF Init, RingIsTail, LastN
<1>5. QED
  BY <1>1, <1>2, <1>3, <1>4 DEF IInv, StoreInv

\* A handler that takes the lock does so alone.
LEMMA PostKeeps ==
  ASSUME StoreInv, NEW th \in Threads, NEW b \in Batches, Post(th, b) PROVE StoreInv'
<1>1. b \in Seq(Key) /\ b # <<>>
  BY IngestAssumption
<1>2. TypeOK'
  <2>1. posts' \in 0 .. MaxPosts
    BY IngestAssumption DEF Post, StoreInv, TypeOK
  <2>2. /\ pc' \in [Threads -> {"idle", "store", "process", "buffer", "trigger"}]
        /\ items' \in [Threads -> Seq(Key)] /\ batch' \in [Threads -> Seq(Key)]
    BY <1>1 DEF Post, Goto, StoreInv, TypeOK
  <2>3. UNCHANGED <<store, processed, miner, now, ioErrors, restarts, history>>
    BY DEF Post
  <2>4. QED
    BY <2>1, <2>2, <2>3 DEF StoreInv, TypeOK, store, miner, history
<1>3. HandlersOK'
  <2>1. \A t \in Threads \ {th} : pc'[t] # "store"
    BY DEF Post, Goto, StoreInv, TypeOK
  <2>2. items'[th] # <<>>
    BY <1>1 DEF Post, StoreInv, TypeOK
  <2>3. QED
    BY <2>1, <2>2 DEF HandlersOK
<1>4. SeenBounded' /\ WindowInv'
  BY DEF Post, StoreInv, SeenBounded, WindowInv, Has, store, history
<1>5. QED
  BY <1>2, <1>3, <1>4 DEF StoreInv

\* A duplicate changes the window by pruning at most.
LEMMA SkipKeeps == ASSUME StoreInv, NEW th \in Threads, Skip(th) PROVE StoreInv'
<1>1. now \in Nat
  BY IngestAssumption DEF StoreInv, TypeOK
<1>2. /\ Pruned \in Seq(Entry) /\ Len(Pruned) <= 2 * MaxEvents /\ Unique(Pruned)
      /\ \A e \in Entry : Has(seen, e) /\ e.expiry > now => Has(Pruned, e)
  BY <1>1, PrunedProps DEF StoreInv, TypeOK
<1>3. /\ pc' \in [Threads -> {"idle", "store", "process", "buffer", "trigger"}]
      /\ items' \in [Threads -> Seq(Key)] /\ batch' \in [Threads -> Seq(Key)]
      /\ HandlersOK'
  <2>1. <<>> \in Seq(Key)
    OBVIOUS
  <2>2. QED
    BY <2>1, NextItemProps DEF Skip, StoreInv
<1>4. TypeOK'
  BY <1>2, <1>3 DEF Skip, StoreInv, TypeOK, miner, bounds, history
<1>5. SeenBounded'
  BY <1>2 DEF Skip, SeenBounded, Unique
<1>6. WindowInv'
  <2> SUFFICES ASSUME NEW k \in Key, acceptedAt[k] # Never, k \notin dropped,
                      now < acceptedAt[k] + Ttl
               PROVE  Has(Pruned, [key |-> k, expiry |-> acceptedAt[k] + Ttl])
    BY DEF Skip, WindowInv, Has, bounds, history
  <2>1. acceptedAt[k] + Ttl \in Nat
    BY Numbers DEF StoreInv, TypeOK
  <2>2. Has(seen, [key |-> k, expiry |-> acceptedAt[k] + Ttl])
    BY DEF StoreInv, WindowInv
  <2>3. QED
    BY <1>1, <1>2, <2>1, <2>2 DEF Entry
<1>7. QED
  BY <1>3, <1>4, <1>5, <1>6 DEF StoreInv

\* An accepted event enters the window, and what leaves it is dropped.
LEMMA AcceptKeeps == ASSUME StoreInv, NEW th \in Threads, Accept(th) PROVE StoreInv'
<1> DEFINE k == Head(items[th])
           e == [key |-> k, expiry |-> now + Ttl]
<1>1. /\ k \in Key
      /\ seen' \in Seq(Entry) /\ SeenBounded'
      /\ dropped' \subseteq Key /\ dropped \ {k} \subseteq dropped'
      /\ Has(seen', e) \/ k \in dropped'
      /\ \A f \in Entry : Has(seen, f) /\ f.expiry > now /\ f.key # k =>
                           Has(seen', f) \/ f.key \in dropped'
  BY AcceptSeen DEF StoreInv
<1>2. now \in Nat /\ now \in 0 .. MaxTime /\ MaxEvents \in Nat
  BY IngestAssumption DEF StoreInv, TypeOK
<1>3. /\ pc' \in [Threads -> {"idle", "store", "process", "buffer", "trigger"}]
      /\ items' \in [Threads -> Seq(Key)] /\ batch' \in [Threads -> Seq(Key)]
      /\ HandlersOK'
  <2>1. <<k>> \in Seq(Key) /\ NextItem(th, <<k>>) /\ pc[th] = "store"
    BY <1>1 DEF Accept
  <2>2. QED
    BY <2>1, NextItemProps DEF StoreInv
<1>4. acceptedAt' = [acceptedAt EXCEPT ![k] = now]
  BY DEF Accept
<1>5. TypeOK'
  <2>1. ring' \in Seq(Key) /\ file' \in Seq(Key)
    <3>1. Append(ring, k) \in Seq(Key) /\ Append(file, k) \in Seq(Key)
      BY <1>1 DEF StoreInv, TypeOK
    <3>2. LastN(Append(ring, k), MaxEvents) \in Seq(Key)
      BY <1>2, <3>1, LastNProps
    <3>3. QED
      BY <3>1, <3>2 DEF Accept, StoreInv, TypeOK
  <2>2. ioErrors' \in 0 .. MaxIOErrors
    BY IngestAssumption DEF Accept, StoreInv, TypeOK
  <2>3. acceptedAt' \in [Key -> 0 .. Never] /\ accepted' \in Nat
    BY <1>1, <1>2, <1>4, Numbers DEF Accept, StoreInv, TypeOK
  <2>4. /\ UNCHANGED <<processed, miner, now, posts, restarts, applied, resets, collected, mined, unmined>>
    BY DEF Accept
  <2>5. QED
    BY <1>1, <1>3, <2>1, <2>2, <2>3, <2>4 DEF StoreInv, TypeOK, miner
<1>6. WindowInv'
  <2> SUFFICES ASSUME NEW l \in Key, acceptedAt'[l] # Never, l \notin dropped',
                      now < acceptedAt'[l] + Ttl
               PROVE  Has(seen', [key |-> l, expiry |-> acceptedAt'[l] + Ttl])
    BY DEF Accept, WindowInv, Has
  <2>1. CASE l = k
    <3>1. acceptedAt'[l] = now
      BY <1>1, <1>4, <2>1 DEF StoreInv, TypeOK
    <3>2. QED
      BY <1>1, <2>1, <3>1
  <2>2. CASE l # k
    <3>1. acceptedAt'[l] = acceptedAt[l] /\ l \notin dropped
      BY <1>1, <1>4, <2>2 DEF StoreInv, TypeOK
    <3>2. acceptedAt[l] + Ttl \in Nat
      BY Numbers DEF StoreInv, TypeOK
    <3>3. Has(seen, [key |-> l, expiry |-> acceptedAt[l] + Ttl])
      BY <3>1 DEF StoreInv, WindowInv
    <3>4. [key |-> l, expiry |-> acceptedAt[l] + Ttl] \in Entry
      BY <3>2 DEF Entry
    <3>5. QED
      BY <1>1, <1>2, <2>2, <3>1, <3>2, <3>3, <3>4
  <2>3. QED
    BY <2>1, <2>2
<1>7. QED
  BY <1>1, <1>3, <1>5, <1>6 DEF StoreInv

\* How often a key is in a batch is a number.
LEMMA OccurrencesType ==
  ASSUME NEW b \in Seq(Key), NEW k PROVE Occurrences(k, b) \in Nat
<1>1. IsFiniteSet(1 .. Len(b)) /\ DOMAIN b = 1 .. Len(b)
  BY FS_Interval
<1>2. IsFiniteSet({i \in DOMAIN b : b[i] = k})
  BY <1>1, FS_Subset
<1>3. QED
  BY <1>2, FS_CardinalityType DEF Occurrences

\* A handler that leaves the store, or has left it, lets the window alone.
LEMMA OutsideStore ==
  ASSUME StoreInv, NEW th \in Threads, pc[th] # "store", NEW l \in {"idle", "buffer", "trigger"},
         Goto(th, l), UNCHANGED <<store, items, batch, bounds, acceptedAt, dropped>>
  PROVE  /\ pc' \in [Threads -> {"idle", "store", "process", "buffer", "trigger"}]
         /\ HandlersOK' /\ SeenBounded' /\ WindowInv'
<1>1. pc' \in [Threads -> {"idle", "store", "process", "buffer", "trigger"}]
  BY DEF Goto, StoreInv, TypeOK
<1>2. \A t \in Threads : pc'[t] = "store" => pc[t] = "store"
  BY DEF Goto, StoreInv, TypeOK
<1>3. HandlersOK'
  BY <1>2 DEF StoreInv, HandlersOK
<1>4. SeenBounded' /\ WindowInv'
  BY DEF StoreInv, SeenBounded, WindowInv, Has, store, bounds
<1>5. QED
  BY <1>1, <1>3, <1>4

\* Processing a batch keeps to the keys of the batch.
LEMMA ProcessKeeps == ASSUME StoreInv, NEW th \in Threads, Process(th) PROVE StoreInv'
<1>1. batch[th] \in Seq(Key)
  BY DEF StoreInv, TypeOK
<1>2. processed' \subseteq Key /\ applied' \in [Key -> Nat] /\ resets' \in Nat
  <2> DEFINE unique == {k \in ToSet(batch[th]) : k \notin processed}
  <2>1. CASE unique = {}
    BY <2>1 DEF Process, StoreInv, TypeOK
  <2>2. CASE unique # {}
    <3>1. PICK failing \in Failures :
            /\ applied' = [k \in Key |-> applied[k] +
                             IF k \in unique \ failing THEN Occurrences(k, batch[th]) ELSE 0]
            /\ processed' \in {{}, processed \cup (unique \ failing)}
            /\ resets' \in {resets, resets + 1}
      BY <2>2 DEF Process
    <3>2. unique \subseteq Key
      BY <1>1 DEF ToSet
    <3>3. processed' \subseteq Key /\ resets' \in Nat
      BY <3>1, <3>2 DEF StoreInv, TypeOK
    <3>4. \A k \in Key : Occurrences(k, batch[th]) \in Nat /\ applied[k] \in Nat
      BY <1>1, OccurrencesType DEF StoreInv, TypeOK
    <3>5. applied' \in [Key -> Nat]
      BY <3>1, <3>4
    <3>6. QED
      BY <3>3, <3>5
  <2>3. QED
    BY <2>1, <2>2
<1>3. \E l \in {"idle", "buffer", "trigger"} : Goto(th, l)
  BY DEF Process
<1>4. pc[th] = "process"
      /\ UNCHANGED <<store, miner, items, batch, bounds, acceptedAt, dropped, collected, mined, unmined>>
  BY DEF Process
<1>5. /\ pc' \in [Threads -> {"idle", "store", "process", "buffer", "trigger"}]
      /\ HandlersOK' /\ SeenBounded' /\ WindowInv'
  BY <1>3, <1>4, OutsideStore
<1>6. TypeOK'
  BY <1>2, <1>4, <1>5 DEF StoreInv, TypeOK, store, miner, bounds
<1>7. QED
  BY <1>5, <1>6 DEF StoreInv

\* Buffering and the trigger move whole batches.
LEMMA MinerKeeps ==
  ASSUME StoreInv, NEW th \in Threads, BufferForMining(th) \/ MaybeTriggerMining(th)
  PROVE  StoreInv'
<1>1. \E l \in {"idle", "buffer", "trigger"} : Goto(th, l)
  BY DEF BufferForMining, MaybeTriggerMining
<1>2. /\ pc[th] # "store"
      /\ UNCHANGED <<store, processed, items, batch, bounds, acceptedAt, dropped,
                     applied, resets, mined, unmined>>
  BY DEF BufferForMining, MaybeTriggerMining, history
<1>3. /\ pc' \in [Threads -> {"idle", "store", "process", "buffer", "trigger"}]
      /\ HandlersOK' /\ SeenBounded' /\ WindowInv'
  BY <1>1, <1>2, OutsideStore
<1>4. /\ buffer' \in Seq(Key) /\ mineBatch' \in Seq(Key) /\ mining' \in BOOLEAN
      /\ since' \in Nat /\ lastMine' \in Nat /\ collected' \in Nat
  <2>1. CASE BufferForMining(th)
    <3>1. buffer \o batch[th] \in Seq(Key) /\ Len(batch[th]) \in Nat
      BY DEF StoreInv, TypeOK
    <3>2. QED
      BY <2>1, <3>1 DEF BufferForMining, StoreInv, TypeOK
  <2>2. CASE MaybeTriggerMining(th)
    <3>1. <<>> \in Seq(Key) /\ now \in Nat
      BY IngestAssumption DEF StoreInv, TypeOK
    <3>2. collected' = collected
      BY <2>2 DEF MaybeTriggerMining, history
    <3>3. \/ mineBatch' = buffer /\ buffer' = <<>> /\ since' = 0 /\ lastMine' = now
             /\ mining' = TRUE
          \/ UNCHANGED <<buffer, since, lastMine, mining, mineBatch>>
      BY <2>2 DEF MaybeTriggerMining, miner
    <3>4. mining' \in BOOLEAN
      BY <3>3 DEF StoreInv, TypeOK
    <3>5. buffer' \in Seq(Key) /\ mineBatch' \in Seq(Key)
      BY <3>1, <3>3 DEF StoreInv, TypeOK
    <3>6. since' \in Nat /\ lastMine' \in Nat /\ collected' \in Nat
      <4>1. since \in Nat /\ lastMine \in Nat /\ collected \in Nat
        BY DEF StoreInv, TypeOK
      <4>2. since' \in {0, since} /\ lastMine' \in {now, lastMine}
        BY <3>3
      <4>3. QED
        BY <3>1, <3>2, <4>1, <4>2
    <3>7. QED
      BY <3>4, <3>5, <3>6
  <2>3. QED
    BY <2>1, <2>2
<1>5. TypeOK'
  BY <1>2, <1>3, <1>4 DEF StoreInv, TypeOK, store, bounds
<1>6. QED
  BY <1>3, <1>5 DEF StoreInv

\* The end of a mining run touches the miner only.
LEMMA RunMiningKeeps == ASSUME StoreInv, RunMining PROVE StoreInv'
<1>1. Len(mineBatch) \in Nat /\ <<>> \in Seq(Key)
  BY DEF StoreInv, TypeOK
<1>2. TypeOK'
  <2>1. mining' \in BOOLEAN /\ mineBatch' \in Seq(Key) /\ mined' \in Nat /\ unmined' \in Nat
    <3>1. mined \in Nat /\ unmined \in Nat
      BY DEF StoreInv, TypeOK
    <3>2. /\ mineBatch' = <<>>
          /\ \/ mined' = mined + Len(mineBatch) /\ unmined' = unmined
             \/ unmined' = unmined + Len(mineBatch) /\ mined' = mined
      BY DEF RunMining
    <3>3. mined' \in Nat /\ unmined' \in Nat /\ mineBatch' \in Seq(Key)
      BY <1>1, <3>1, <3>2
    <3>4. mining' \in BOOLEAN
      BY DEF RunMining
    <3>5. QED
      BY <3>3, <3>4
  <2>2. UNCHANGED <<store, processed, buffer, since, lastMine, handlers, bounds,
                    acceptedAt, dropped, applied, resets, collected>>
    BY DEF RunMining
  <2>3. /\ UNCHANGED <<seen, ring, file, accepted, pc, items, batch>>
        /\ UNCHANGED <<now, posts, ioErrors, restarts>>
    BY <2>2 DEF store, handlers, bounds
  <2>4. QED
    BY <2>1, <2>2, <2>3 DEF StoreInv, TypeOK
<1>3. HandlersOK' /\ SeenBounded' /\ WindowInv'
  BY DEF RunMining, StoreInv, HandlersOK, SeenBounded, WindowInv, Has, store, handlers, bounds
<1>4. QED
  BY <1>2, <1>3 DEF StoreInv

\* As time passes the window only has to hold less.
LEMMA TickKeeps == ASSUME StoreInv, Tick PROVE StoreInv'
<1>1. now' = now + 1 /\ now \in Nat /\ now' \in 0 .. MaxTime
  BY Numbers DEF Tick, StoreInv, TypeOK
<1>2. UNCHANGED <<store, processed, miner, handlers, posts, ioErrors, restarts, history>>
  BY DEF Tick
<1>3. TypeOK' /\ HandlersOK' /\ SeenBounded'
  BY <1>1, <1>2
     DEF StoreInv, TypeOK, HandlersOK, SeenBounded, store, miner, handlers, history
<1>4. WindowInv'
  <2> SUFFICES ASSUME NEW k \in Key, acceptedAt[k] # Never, k \notin dropped,
                      now' < acceptedAt[k] + Ttl
               PROVE  Has(seen, [key |-> k, expiry |-> acceptedAt[k] + Ttl])
    BY <1>2 DEF WindowInv, Has, store, history
  <2>1. acceptedAt[k] + Ttl \in Nat
    BY Numbers DEF StoreInv, TypeOK
  <2>2. now < acceptedAt[k] + Ttl
    BY <1>1, <2>1
  <2>3. QED
    BY <2>2 DEF StoreInv, WindowInv
<1>5. QED
  BY <1>3, <1>4 DEF StoreInv

\* A restarted Core starts with an empty window and idle handlers.
LEMMA RestartKeeps == ASSUME StoreInv, Restart PROVE StoreInv'
<1>1. LoadTail \in Seq(Key)
  BY LastNProps, IngestAssumption DEF LoadTail, StoreInv, TypeOK
<1>2. restarts' \in 0 .. MaxRestarts /\ now \in Nat
  BY IngestAssumption DEF Restart, StoreInv, TypeOK
<1>3. <<>> \in Seq(Key) /\ <<>> \in Seq(Entry) /\ {} \subseteq Key /\ Never \in 0 .. Never
  BY Numbers
<1>4. /\ pc' = [th \in Threads |-> "idle"]
      /\ items' = [th \in Threads |-> <<>>] /\ batch' = [th \in Threads |-> <<>>]
      /\ acceptedAt' = [k \in Key |-> Never]
  BY DEF Restart
<1>5. TypeOK'
  BY <1>1, <1>2, <1>3, <1>4 DEF Restart, StoreInv, TypeOK
<1>6. HandlersOK' /\ WindowInv'
  BY <1>4 DEF HandlersOK, WindowInv
<1>7. SeenBounded'
  BY IngestAssumption DEF Restart, SeenBounded
<1>8. QED
  BY <1>5, <1>6, <1>7 DEF StoreInv

\* Every step of handlers, mining and clock, and every restart.
LEMMA NextStoreInv == StoreInv /\ [Next]_vars => StoreInv'
<1> SUFFICES ASSUME StoreInv, [Next]_vars PROVE StoreInv'
  OBVIOUS
<1>1. CASE UNCHANGED vars
  BY <1>1 DEF vars, store, miner, handlers, bounds, history, StoreInv, TypeOK, HandlersOK,
              SeenBounded, WindowInv, Has
<1>2. CASE Next
  BY <1>2, PostKeeps, SkipKeeps, AcceptKeeps, ProcessKeeps, MinerKeeps, RunMiningKeeps,
     TickKeeps, RestartKeeps
     DEF Next, Handle
<1>3. QED
  BY <1>1, <1>2

-----------------------------------------------------------------------------
(* The ring and the file *)

\* An accepted event is appended to both, or an append has failed.
LEMMA AcceptRing ==
  ASSUME StoreInv, RingIsTail, NEW th \in Threads, Accept(th) PROVE RingIsTail'
<1> DEFINE k == Head(items[th])
<1> SUFFICES ASSUME ioErrors' = 0 PROVE ring' = LastN(file', MaxEvents)
  BY DEF RingIsTail, LastN
<1>1. k \in Key
  BY AcceptSeen DEF StoreInv
<1>2. ring' = LastN(Append(ring, k), MaxEvents)
  BY DEF Accept
<1>3. ioErrors \in Nat
  BY IngestAssumption DEF StoreInv, TypeOK
<1>4. file' = Append(file, k) /\ ioErrors = 0
  BY <1>3 DEF Accept
<1>5. ring = LastN(file, MaxEvents)
  BY <1>4 DEF RingIsTail
<1>6. MaxEvents \in Nat /\ file \in Seq(Key)
  BY IngestAssumption DEF StoreInv, TypeOK
<1>7. LastN(Append(LastN(file, MaxEvents), k), MaxEvents) = LastN(Append(file, k), MaxEvents)
  BY <1>1, <1>6, LastNAppend
<1>8. QED
  BY <1>2, <1>4, <1>5, <1>7

\* Only an accepted event and a restart change the ring or the file.
LEMMA NextRing == StoreInv /\ RingIsTail /\ [Next]_vars => RingIsTail'
<1> SUFFICES ASSUME StoreInv, RingIsTail, [Next]_vars PROVE RingIsTail'
  OBVIOUS
<1>1. CASE \E th \in Threads : Accept(th)
  BY <1>1, AcceptRing
<1>2. CASE Restart
  BY <1>2 DEF Restart, LoadTail, RingIsTail, LastN
<1>3. CASE UNCHANGED <<ring, file, ioErrors>>
  BY <1>3 DEF RingIsTail, LastN
<1>4. ASSUME NEW th \in Threads, Handle(th), ~Accept(th)
      PROVE  UNCHANGED <<ring, file, ioErrors>>
  BY <1>4 DEF Handle, Skip, Process, BufferForMining, MaybeTriggerMining, store, bounds
<1>5. ASSUME NEW th \in Threads, NEW b \in Batches, Post(th, b)
      PROVE  UNCHANGED <<ring, file, ioErrors>>
  BY <1>5 DEF Post, store
<1>6. CASE RunMining \/ Tick \/ UNCHANGED vars
  BY <1>3, <1>6 DEF RunMining, Tick, vars, store, bounds
<1>7. QED
  BY <1>1, <1>2, <1>3, <1>4, <1>5, <1>6 DEF Next

-----------------------------------------------------------------------------
(* The mining buffer *)

\* The batch that was accepted is counted as it is buffered.
LEMMA BufferMining ==
  ASSUME StoreInv, MiningExact, NEW th \in Threads, BufferForMining(th) PROVE MiningExact'
<1> DEFINE b == batch[th]
<1>1. b \in Seq(Key) /\ buffer \in Seq(Key) /\ mineBatch \in Seq(Key)
  BY DEF StoreInv, TypeOK
<1>2. Len(b) \in Nat /\ Len(buffer) \in Nat /\ Len(mineBatch) \in Nat
      /\ mined \in Nat /\ unmined \in Nat
  BY <1>1 DEF StoreInv, TypeOK
<1>3. Len(buffer \o b) = Len(buffer) + Len(b)
  BY <1>1
<1>4. /\ buffer' = buffer \o b /\ since' = since + Len(b) /\ collected' = collected + Len(b)
      /\ UNCHANGED <<mined, unmined, mineBatch, mining>>
  BY DEF BufferForMining
<1>5. collected = mined + unmined + Len(mineBatch) + Len(buffer) /\ since = Len(buffer)
  BY DEF MiningExact
<1>6. collected' = mined' + unmined' + Len(mineBatch') + Len(buffer') /\ since' = Len(buffer')
  <2>1. /\ Len(buffer') = Len(buffer) + Len(b)
        /\ Len(mineBatch') = Len(mineBatch) /\ mined' = mined
        /\ unmined' = unmined
    BY <1>3, <1>4
  <2>2. since' = since + Len(b) /\ collected' = collected + Len(b)
    BY <1>4
  <2>3. collected + Len(b) = mined + unmined + Len(mineBatch) + (Len(buffer) + Len(b))
    <3>1. PICK m \in Nat, u \in Nat, q \in Nat, l \in Nat, d \in Nat :
            m = mined /\ u = unmined /\ q = Len(mineBatch) /\ l = Len(buffer) /\ d = Len(b)
      BY <1>2
    <3>2. collected = m + u + q + l
      BY <1>5, <3>1
    <3>3. collected + d = m + u + q + (l + d)
      BY <3>2
    <3>4. QED
      BY <3>1, <3>3
  <2>4. QED
    BY <1>5, <2>1, <2>2, <2>3
<1>7. mining' <=> mineBatch' # <<>>
  BY <1>4 DEF MiningExact
<1>8. QED
  BY <1>6, <1>7 DEF MiningExact

\* The trigger finds no batch being mined, and takes a buffer that is not empty.
LEMMA TriggerMining ==
  ASSUME StoreInv, MiningExact, NEW th \in Threads, MaybeTriggerMining(th) PROVE MiningExact'
<1>1. CASE ~(~mining /\ ShouldMine)
  BY <1>1 DEF MaybeTriggerMining, MiningExact, miner, history
<1>2. CASE ~mining /\ ShouldMine
  <2>1. /\ mineBatch' = buffer /\ buffer' = <<>> /\ since' = 0 /\ mining'
        /\ UNCHANGED <<collected, mined, unmined>>
    BY <1>2 DEF MaybeTriggerMining, history
  <2>2. /\ mineBatch = <<>> /\ since = Len(buffer)
        /\ collected = mined + unmined + Len(mineBatch) + Len(buffer)
    BY <1>2 DEF MiningExact
  <2>3. since > 0
    BY <1>2, IngestAssumption DEF ShouldMine, StoreInv, TypeOK
  <2>4. Len(<<>>) = 0 /\ Len(buffer) \in Nat /\ mined \in Nat /\ unmined \in Nat
    BY DEF StoreInv, TypeOK
  <2>5. buffer # <<>>
    BY <2>2, <2>3, <2>4
  <2>6. collected' = mined' + unmined' + Len(mineBatch') + Len(buffer') /\ since' = Len(buffer')
    BY <2>1, <2>2, <2>4
  <2>7. QED
    BY <2>1, <2>5, <2>6 DEF MiningExact
<1>3. QED
  BY <1>1, <1>2

\* The batch is counted as it is given up, as mined or as lost.
LEMMA EndMining == ASSUME StoreInv, MiningExact, RunMining PROVE MiningExact'
<1>1. /\ mineBatch' = <<>> /\ UNCHANGED <<buffer, since, collected>>
      /\ \/ mined' = mined + Len(mineBatch) /\ unmined' = unmined
         \/ unmined' = unmined + Len(mineBatch) /\ mined' = mined
  BY DEF RunMining
<1>2. /\ Len(<<>>) = 0 /\ Len(buffer) \in Nat /\ Len(mineBatch) \in Nat
      /\ mined \in Nat /\ unmined \in Nat
  BY DEF StoreInv, TypeOK
<1>3. collected = mined + unmined + Len(mineBatch) + Len(buffer) /\ since = Len(buffer)
  BY DEF MiningExact
<1>4. collected' = mined' + unmined' + Len(mineBatch') + Len(buffer') /\ since' = Len(buffer')
  BY <1>1, <1>2, <1>3
<1>5. ~mining'
  BY DEF RunMining
<1>6. QED
  BY <1>1, <1>4, <1>5 DEF MiningExact

\* Only these three and a restart touch the miner.
LEMMA NextMining == StoreInv /\ MiningExact /\ [Next]_vars => MiningExact'
<1> SUFFICES ASSUME StoreInv, MiningExact, [Next]_vars PROVE MiningExact'
  OBVIOUS
<1>1. CASE \E th \in Threads : BufferForMining(th) \/ MaybeTriggerMining(th)
  BY <1>1, BufferMining, TriggerMining
<1>2. CASE RunMining
  BY <1>2, EndMining
<1>3. CASE Restart
  <2>1. /\ buffer' = <<>> /\ since' = 0 /\ mineBatch' = <<>>
        /\ collected' = 0 /\ mined' = 0 /\ unmined' = 0
    BY <1>3 DEF Restart
  <2>2. Len(<<>>) = 0
    OBVIOUS
  <2>3. ~mining'
    BY <1>3 DEF Restart
  <2>4. collected' = mined' + unmined' + Len(mineBatch') + Len(buffer') /\ since' = Len(buffer')
    BY <2>1, <2>2
  <2>5. QED
    BY <2>1, <2>3, <2>4 DEF MiningExact
<1>4. CASE UNCHANGED <<buffer, since, mining, mineBatch, collected, mined, unmined>>
  BY <1>4 DEF MiningExact
<1>5. ASSUME NEW th \in Threads, Skip(th) \/ Accept(th) \/ Process(th)
      PROVE  UNCHANGED <<buffer, since, mining, mineBatch, collected, mined, unmined>>
  BY <1>5 DEF Skip, Accept, Process, miner, history
<1>6. ASSUME NEW th \in Threads, NEW b \in Batches, Post(th, b)
      PROVE  UNCHANGED <<buffer, since, mining, mineBatch, collected, mined, unmined>>
  BY <1>6 DEF Post, miner, history
<1>7. CASE Tick \/ UNCHANGED vars
  BY <1>4, <1>7 DEF Tick, vars, miner, history
<1>8. QED
  BY <1>1, <1>2, <1>3, <1>4, <1>5, <1>6, <1>7 DEF Next, Handle

-----------------------------------------------------------------------------
(* The window, step by step *)

\* The total of accepted events grows only as a handler accepts one.
LEMMA OnlyAccept ==
  ASSUME StoreInv, [Next]_vars, accepted' = accepted + 1
  PROVE  \E th \in Threads : Accept(th)
<1>1. accepted' # accepted /\ accepted' # 0
  BY DEF StoreInv, TypeOK
<1>2. ~Restart /\ ~RunMining /\ ~Tick /\ ~UNCHANGED vars
  BY <1>1 DEF Restart, RunMining, Tick, vars, store
<1>3. \A th \in Threads : \A b \in Batches : ~Post(th, b)
  BY <1>1 DEF Post, store
<1>4. \A th \in Threads : ~(Skip(th) \/ Process(th) \/ BufferForMining(th) \/ MaybeTriggerMining(th))
  BY <1>1 DEF Skip, Process, BufferForMining, MaybeTriggerMining, store
<1>5. QED
  BY <1>2, <1>3, <1>4 DEF Next, Handle

\* A key that _is_duplicate does not know was accepted long ago, or was dropped.
LEMMA AcceptsNew ==
  ASSUME StoreInv, NEW th \in Threads, Accept(th), NEW k \in Key, k = Head(items[th]),
         k \notin dropped, acceptedAt[k] # Never
  PROVE  now >= acceptedAt[k] + Ttl
<1> DEFINE e == [key |-> k, expiry |-> acceptedAt[k] + Ttl]
<1>1. acceptedAt[k] + Ttl \in Nat /\ now \in Nat
  BY Numbers DEF StoreInv, TypeOK
<1> SUFFICES ASSUME now < acceptedAt[k] + Ttl PROVE FALSE
  BY <1>1
<1>2. Has(seen, e)
  BY DEF StoreInv, WindowInv
<1>3. e \in Entry
  BY <1>1 DEF Entry
<1>4. Has(Pruned, e)
  BY <1>1, <1>2, <1>3, PrunedProps DEF StoreInv, TypeOK
<1>5. Duplicate(k)
  BY <1>4 DEF Duplicate, Has
<1>6. QED
  BY <1>5 DEF Accept

\* The steps of DedupWindow.
LEMMA StepInWindow ==
  ASSUME StoreInv, [Next]_vars, NEW th \in Threads, NEW k \in Key,
         pc[th] = "store", k = Head(items[th]), accepted' = accepted + 1
  PROVE  k \in dropped \/ acceptedAt[k] = Never \/ now >= acceptedAt[k] + Ttl
<1>1. PICK u \in Threads : Accept(u)
  BY OnlyAccept
<1>2. u = th
  BY <1>1 DEF Accept, StoreInv, HandlersOK
<1>3. QED
  BY <1>1, <1>2, AcceptsNew

-----------------------------------------------------------------------------
(* The theorems *)

\* The inductive invariant holds in every reachable state.
THEOREM Invariant == Spec => []IInv
<1>1. IInv /\ [Next]_vars => IInv'
  BY NextStoreInv, NextRing, NextMining DEF IInv
<1>2. QED
  BY InitIInv, <1>1, PTL DEF Spec

\* Every variable of store, processor and handlers has a value of its kind.
THEOREM TypeCorrect == Spec => []TypeOK
<1>1. IInv => TypeOK
  BY DEF IInv, StoreInv
<1>2. QED
  BY Invariant, <1>1, PTL

\* However batches, expiry, pruning and eviction follow each other, _seen never holds
\* more than 2 * _max keys, nor a key twice.
THEOREM WindowBounded == Spec => []SeenBounded
<1>1. IInv => SeenBounded
  BY DEF IInv, StoreInv
<1>2. QED
  BY Invariant, <1>1, PTL

\* As long as no append to the JSONL file fails, what the ring shows is what a
\* restart loads.
THEOREM RingShowsFile == Spec => []RingIsTail
<1>1. IInv => RingIsTail
  BY DEF IInv
<1>2. QED
  BY Invariant, <1>1, PTL

\* Whatever handlers buffer and trigger while a batch is mined, every event that was
\* buffered goes to one mining, is there, was mined or was lost with it, or is in the
\* buffer, and is counted for the trigger once.
THEOREM EveryEventToOneMining == Spec => []MiningExact
<1>1. IInv => MiningExact
  BY DEF IInv
<1>2. QED
  BY Invariant, <1>1, PTL

\* A key that comes again within its window is a duplicate, whatever was pruned in
\* between, unless it was evicted while alive.
THEOREM NoDoubleAccept == Spec => DedupWindow
<1>1. IInv /\ [Next]_vars =>
        [\A th \in Threads : \A k \in Key :
           /\ pc[th] = "store" /\ k = Head(items[th])
           /\ accepted' = accepted + 1
           => k \in dropped \/ acceptedAt[k] = Never \/ now >= acceptedAt[k] + Ttl]_vars
  BY StepInWindow DEF IInv
<1>2. QED
  BY Invariant, <1>1, PTL DEF DedupWindow, Spec

-----------------------------------------------------------------------------
(* What passes the processors *)

\* No batch that is posted repeats a key.
DistinctBatches == \A b \in Batches : IsInjective(b)

\* What a handler has left to ingest and what it has accepted do not repeat a key.
KeysOnce ==
  \A t \in Threads :
    /\ IsInjective(items[t]) /\ IsInjective(batch[t])
    /\ \A i \in DOMAIN items[t], j \in DOMAIN batch[t] : items[t][i] # batch[t][j]

\* A key that the processor remembers may have passed once more than it forgot.
Passed ==
  \A k \in Key : applied[k] <= resets + restarts + IF k \in processed THEN 1 ELSE 0

OnceInv == KeysOnce /\ Passed

\* In a batch without repetitions a key occurs once at most.
LEMMA OccursOnce ==
  ASSUME NEW b \in Seq(Key), IsInjective(b), NEW k
  PROVE  Occurrences(k, b) \in {0, 1}
<1> DEFINE S == {i \in DOMAIN b : b[i] = k}
<1>1. CASE S = {}
  BY <1>1, FS_EmptySet DEF Occurrences
<1>2. CASE S # {}
  <2>1. PICK i \in S : TRUE
    BY <1>2
  <2>2. S = {i}
    BY <2>1 DEF IsInjective
  <2>3. QED
    BY <2>2, FS_Singleton DEF Occurrences
<1>3. QED
  BY <1>1, <1>2

\* The item that was dealt with goes to the batch or nowhere.
LEMMA NextItemOnce ==
  ASSUME TypeOK, HandlersOK, KeysOnce, NEW th \in Threads, pc[th] = "store",
         NEW a \in {<<>>, <<Head(items[th])>>}, NextItem(th, a)
  PROVE  KeysOnce'
<1> DEFINE s == items[th]
           b == batch[th]
<1>1. /\ s \in Seq(Key) /\ s # <<>> /\ b \in Seq(Key)
      /\ IsInjective(s) /\ IsInjective(b)
      /\ \A i \in DOMAIN s, j \in DOMAIN b : s[i] # b[j]
  BY DEF TypeOK, HandlersOK, KeysOnce
<1>2. items' = [items EXCEPT ![th] = Tail(s)] /\ batch' = [batch EXCEPT ![th] = b \o a]
  BY DEF NextItem
<1> HIDE DEF s, b
<1>3. /\ Len(s) \in Nat /\ Len(s) >= 1 /\ DOMAIN s = 1 .. Len(s) /\ Head(s) = s[1]
      /\ DOMAIN Tail(s) = 1 .. Len(s) - 1
      /\ \A i \in 1 .. Len(s) - 1 : Tail(s)[i] = s[i + 1]
  BY <1>1, HeadTailProperties, EmptySeq, LenProperties
<1>4. IsInjective(Tail(s)) /\ \A i \in DOMAIN Tail(s) : Tail(s)[i] # Head(s)
  BY <1>1, <1>3 DEF IsInjective
<1>5. \A i \in DOMAIN Tail(s), j \in DOMAIN b : Tail(s)[i] # b[j]
  BY <1>1, <1>3
<1>6. IsInjective(b \o a) /\ \A i \in DOMAIN Tail(s), j \in DOMAIN (b \o a) : Tail(s)[i] # (b \o a)[j]
  <2>1. CASE a = <<>>
    <3>1. b \o a = b
      BY <1>1, <2>1
    <3>2. QED
      BY <1>1, <1>5, <3>1
  <2>2. CASE a = <<Head(s)>>
    <3>1. /\ Len(b) \in Nat /\ DOMAIN b = 1 .. Len(b) /\ DOMAIN (b \o a) = 1 .. Len(b) + 1
          /\ (b \o a)[Len(b) + 1] = Head(s) /\ \A j \in 1 .. Len(b) : (b \o a)[j] = b[j]
      BY <1>1, <1>3, <2>2
    <3>2. \A j \in DOMAIN b : b[j] # Head(s)
      BY <1>1, <1>3
    <3>3. IsInjective(b \o a)
      BY <1>1, <3>1, <3>2 DEF IsInjective
    <3>4. QED
      BY <1>4, <1>5, <3>1, <3>3
  <2>3. QED
    BY <2>1, <2>2 DEF s
<1>7. /\ items'[th] = Tail(s) /\ batch'[th] = b \o a
      /\ \A t \in Threads \ {th} : items'[t] = items[t] /\ batch'[t] = batch[t]
  BY <1>2 DEF TypeOK
<1>8. ASSUME NEW t \in Threads
      PROVE  /\ IsInjective(items'[t]) /\ IsInjective(batch'[t])
             /\ \A i \in DOMAIN items'[t], j \in DOMAIN batch'[t] : items'[t][i] # batch'[t][j]
  <2>1. CASE t = th
    <3>1. items'[t] = Tail(s) /\ batch'[t] = b \o a
      BY <1>7, <2>1
    <3>2. QED
      BY <1>4, <1>6, <3>1, Zenon
  <2>2. CASE t # th
    BY <1>7, <2>2 DEF KeysOnce
  <2>3. QED
    BY <2>1, <2>2
<1>9. QED
  BY <1>8 DEF KeysOnce

\* Nothing but the store moves keys from what is left to what was accepted.
LEMMA NextKeysOnce ==
  ASSUME DistinctBatches, StoreInv, KeysOnce, [Next]_vars PROVE KeysOnce'
<1>1. CASE UNCHANGED <<items, batch>>
  BY <1>1 DEF KeysOnce
<1>2. ASSUME NEW th \in Threads, Skip(th) \/ Accept(th) PROVE KeysOnce'
  <2>1. /\ pc[th] = "store"
        /\ \E a \in {<<>>, <<Head(items[th])>>} : NextItem(th, a)
    BY <1>2 DEF Skip, Accept
  <2>2. QED
    BY <2>1, NextItemOnce DEF StoreInv
<1>3. ASSUME NEW th \in Threads, NEW b \in Batches, Post(th, b) PROVE KeysOnce'
  <2>1. /\ items'[th] = b /\ batch'[th] = <<>>
        /\ \A t \in Threads \ {th} : items'[t] = items[t] /\ batch'[t] = batch[t]
    BY <1>3 DEF Post, StoreInv, TypeOK
  <2>2. IsInjective(b) /\ IsInjective(<<>>) /\ DOMAIN <<>> = {}
    BY DEF DistinctBatches, IsInjective
  <2>3. QED
    BY <2>1, <2>2 DEF KeysOnce
<1>4. CASE Restart
  <2>1. \A t \in Threads : items'[t] = <<>> /\ batch'[t] = <<>>
    BY <1>4 DEF Restart
  <2>2. IsInjective(<<>>) /\ DOMAIN <<>> = {}
    BY DEF IsInjective
  <2>3. QED
    BY <2>1, <2>2 DEF KeysOnce
<1>5. ASSUME NEW th \in Threads, Process(th) \/ BufferForMining(th) \/ MaybeTriggerMining(th)
      PROVE  UNCHANGED <<items, batch>>
  BY <1>5 DEF Process, BufferForMining, MaybeTriggerMining
<1>6. RunMining \/ Tick \/ UNCHANGED vars => UNCHANGED <<items, batch>>
  BY DEF RunMining, Tick, vars, handlers
<1>7. QED
  BY <1>1, <1>2, <1>3, <1>4, <1>5, <1>6 DEF Next, Handle

\* A batch is looked up and recorded under one lock: what passes was not remembered,
\* and is from now on, unless the processor forgets everything.
LEMMA ProcessPassed ==
  ASSUME StoreInv, KeysOnce, Passed, NEW th \in Threads, Process(th) PROVE Passed'
<1> DEFINE unique == {k \in ToSet(batch[th]) : k \notin processed}
<1>1. restarts' = restarts /\ restarts \in Nat /\ resets \in Nat
  BY IngestAssumption DEF Process, StoreInv, TypeOK, bounds
<1>2. CASE unique = {}
  BY <1>1, <1>2 DEF Process, Passed
<1>3. CASE unique # {}
  <2>1. PICK failing \in Failures :
          LET successful == unique \ failing
              ids == processed \cup successful
              full == Cardinality(ids) > MaxProcessedIds
          IN  /\ applied' = [k \in Key |-> applied[k] +
                   IF k \in successful THEN Occurrences(k, batch[th]) ELSE 0]
              /\ processed' = IF full THEN {} ELSE ids
              /\ resets' = IF full THEN resets + 1 ELSE resets
    BY <1>3 DEF Process
  <2> DEFINE successful == unique \ failing
             ids == processed \cup successful
  <2> SUFFICES ASSUME NEW k \in Key
               PROVE  applied'[k] <= resets' + restarts' + IF k \in processed' THEN 1 ELSE 0
    BY DEF Passed
  <2>2. Occurrences(k, batch[th]) \in {0, 1}
    BY OccursOnce DEF StoreInv, TypeOK, KeysOnce
  <2>3. /\ applied[k] \in Nat
        /\ applied[k] <= resets + restarts + IF k \in processed THEN 1 ELSE 0
    BY DEF StoreInv, TypeOK, Passed
  <2>4. applied'[k] = applied[k] + IF k \in successful THEN Occurrences(k, batch[th]) ELSE 0
    BY <2>1
  <2>5. k \in successful => k \notin processed
    OBVIOUS
  <2>6. \/ processed' = {} /\ resets' = resets + 1
        \/ processed' = ids /\ resets' = resets
    BY <2>1
  <2>7. applied'[k] <= resets + restarts + IF k \in ids THEN 1 ELSE 0
    <3> HIDE DEF successful
    <3>1. k \in ids <=> k \in processed \/ k \in successful
      OBVIOUS
    <3>2. CASE k \in successful
      BY <1>1, <2>2, <2>3, <2>4, <2>5, <3>1, <3>2
    <3>3. CASE k \notin successful
      BY <1>1, <2>3, <2>4, <3>1, <3>3
    <3>4. QED
      BY <3>2, <3>3
  <2>8. applied'[k] \in Nat
    BY <2>2, <2>3, <2>4
  <2> HIDE DEF ids
  <2>9. QED
    BY <1>1, <2>6, <2>7, <2>8
<1>4. QED
  BY <1>2, <1>3

\* Only processing and a restart touch what Passed compares.
LEMMA NextPassed ==
  ASSUME StoreInv, KeysOnce, Passed, [Next]_vars PROVE Passed'
<1>1. CASE \E th \in Threads : Process(th)
  BY <1>1, ProcessPassed
<1>2. CASE Restart
  <2>1. /\ processed' = {} /\ restarts' = restarts + 1
        /\ applied' = applied /\ resets' = resets
    BY <1>2 DEF Restart
  <2>2. restarts \in Nat /\ resets \in Nat /\ \A k \in Key : applied[k] \in Nat
    BY IngestAssumption DEF StoreInv, TypeOK
  <2>3. QED
    BY <2>1, <2>2 DEF Passed
<1>3. CASE UNCHANGED <<applied, resets, restarts, processed>>
  BY <1>3 DEF Passed
<1>4. ASSUME NEW th \in Threads,
             Skip(th) \/ Accept(th) \/ BufferForMining(th) \/ MaybeTriggerMining(th)
      PROVE  UNCHANGED <<applied, resets, restarts, processed>>
  BY <1>4 DEF Skip, Accept, BufferForMining, MaybeTriggerMining, bounds, history
<1>5. ASSUME NEW th \in Threads, NEW b \in Batches, Post(th, b)
      PROVE  UNCHANGED <<applied, resets, restarts, processed>>
  BY <1>5 DEF Post, history
<1>6. RunMining \/ Tick \/ UNCHANGED vars => UNCHANGED <<applied, resets, restarts, processed>>
  BY DEF RunMining, Tick, vars, bounds, history
<1>7. QED
  BY <1>1, <1>2, <1>3, <1>4, <1>5, <1>6 DEF Next, Handle

\* When no posted batch repeats a key, an event passes the processors once, and once
\* more for every time the processor has lost its memory: lookups and records of
\* concurrent handlers cannot overlap.
THEOREM OncePerMemory == ASSUME DistinctBatches PROVE Spec => []AppliedOnce
<1>1. Init => OnceInv
  <2>1. IsInjective(<<>>) /\ DOMAIN <<>> = {}
    BY DEF IsInjective
  <2>2. Init => KeysOnce
    BY <2>1 DEF Init, KeysOnce
  <2>3. Init => Passed
    BY DEF Init, Passed
  <2>4. QED
    BY <2>2, <2>3 DEF OnceInv
<1>2. IInv /\ OnceInv /\ [Next]_vars => OnceInv'
  BY NextKeysOnce, NextPassed DEF IInv, OnceInv
<1>3. IInv /\ OnceInv => AppliedOnce
  <2> SUFFICES ASSUME StoreInv, Passed, NEW k \in Key
               PROVE  applied[k] <= 1 + resets + restarts
    BY DEF IInv, OnceInv, AppliedOnce
  <2>1. resets \in Nat /\ restarts \in Nat /\ applied[k] \in Nat
    BY IngestAssumption DEF StoreInv, TypeOK
  <2>2. QED
    BY <2>1 DEF Passed
<1>4. QED
  BY Invariant, <1>1, <1>2, <1>3, PTL DEF Spec

=============================================================================
