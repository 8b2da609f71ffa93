------------------------------ MODULE KVProofs ------------------------------
(***************************************************************************)
(* Proofs about KV, for any keys, calls, sizes and capacity: the cache     *)
(* keeps its accounts, a stale entry has a reason, a bulk get that         *)
(* succeeds is complete.                                                   *)
(***************************************************************************)
EXTENDS KV, FiniteSetTheorems, SequenceTheorems, TLAPS

\* An entry of the cache, and the calls: a get, a put or delete, one not made or refused.
CacheEntry == [key : Keys, record : Record, overlaps : BOOLEAN]
GetCall == [at : {"lookup", "read", "fill", "done"}, op : {"get"}, key : Keys,
            record : Record, overlaps : BOOLEAN]
WriteCall == [at : {"write", "invalidate", "done", "failed"}, op : {"put", "delete"}, key : Keys]
NoCall == [at : {"new", "done"}]

\* The types of the variables, but those of the cache.
CallTypes ==
  /\ last \subseteq Keys /\ call \in [Calls -> GetCall \cup WriteCall \cup NoCall]
  /\ store \in [Keys -> Record] /\ writes \in Nat
PoolTypes ==
  /\ bulk \in {"new", "lookup", "produce", "wait", "fill", "done"}
  /\ next \in Nat \ {0} /\ misses \in Seq(Keys) /\ sent \in 0..Len(misses)
  /\ worker \in [Workers -> [at : {"read"}, key : Keys] \cup [at : {"none", "idle", "done"}]]
  /\ cancelled \in BOOLEAN /\ firstErr \in BOOLEAN
  /\ DOMAIN records \subseteq Keys
  /\ records \in [DOMAIN records -> [record : Record, overlaps : BOOLEAN]]

\* A list of entries with one entry per key, and its size.
Sound(s) ==
  /\ s \in Seq(CacheEntry)
  /\ \A i, j \in 1..Len(s) : s[i].key = s[j].key => i = j
Size(s) == Weight(s, 1..Len(s))
OneOf(e, s) == \E j \in 1..Len(s) : e = s[j]
Accounts == Sound(order) /\ size = Size(order) /\ size <= Capacity

\* The keys of which a write took effect, or may have, and is not yet, or never,
\* followed by its invalidation.
Unsettled == {k \in Keys : \E c \in Calls : call[c].at \in {"invalidate", "failed"} /\ call[c].key = k}

\* What a reader of the store holds of key k is what the store has, or it is known
\* to be old, or nobody can tell yet.
Fresh(k, rec, overlaps) == rec = store[k] \/ overlaps \/ k \in Unsettled

\* What the cache holds, and what a get is about to put there.
CacheInv == \A i \in 1..Len(order) : Fresh(order[i].key, order[i].record, order[i].overlaps)
FillInv == \A c \in Calls : call[c].at = "fill" => Fresh(call[c].key, call[c].record, call[c].overlaps)

\* The misses handed to a worker were read, are being read, or a read failed.
Reading(k) == \E w \in Workers : worker[w].at = "read" /\ worker[w].key = k
Got(k) == k \in DOMAIN records /\ Fresh(k, records[k].record, records[k].overlaps)
PoolInv ==
  /\ bulk \in {"new", "lookup"} => sent = 0
  /\ cancelled => firstErr
  /\ bulk \in {"wait", "fill"} => sent = Len(misses) \/ firstErr
  /\ bulk = "fill" => ~firstErr /\ \A w \in Workers : worker[w].at # "read"
  /\ bulk # "done" => \A i \in 1..sent : firstErr \/ Reading(misses[i]) \/ Got(misses[i])

\* Every key of the bulk get was found in the cache or is a miss.
Missed(k) == \E m \in 1..Len(misses) : misses[m] = k
LookedUp(i) == BulkKeys[i] \in DOMAIN records \/ Missed(BulkKeys[i])
BulkInv ==
  /\ bulk = "new" => next = 1
  /\ bulk = "lookup" => next <= Len(BulkKeys) + 1 /\ \A i \in 1..(next - 1) : LookedUp(i)
  /\ bulk \in {"produce", "wait", "fill"} => \A i \in 1..Len(BulkKeys) : LookedUp(i)
  /\ bulk = "done" /\ ~firstErr => \A i \in 1..Len(BulkKeys) : BulkKeys[i] \in DOMAIN records

\* The inductive invariant.
IInv == CallTypes /\ PoolTypes /\ Accounts /\ CacheInv /\ FillInv /\ PoolInv /\ BulkInv

-----------------------------------------------------------------------------
(* The size of entries.                                                    *)

\* The pairs an entry contributes.
LEMMA BytesOf ==
  ASSUME NEW s, NEW I, NEW x
  PROVE  x \in Bytes(s, I) <=> \E i \in I : \E b \in 1..s[i].record.size : x = <<i, b>>
BY DEF Bytes

\* A list of entries has a size, a natural number.
LEMMA BytesFinite ==
  ASSUME NEW s, NEW I, IsFiniteSet(I), \A i \in I : s[i] \in CacheEntry
  PROVE  IsFiniteSet(Bytes(s, I)) /\ Weight(s, I) \in Nat
<1> DEFINE P(i) == {i} \X (1..s[i].record.size)
           T == {P(i) : i \in I}
           f == [i \in I |-> P(i)]
<1>1. \A i \in I : IsFiniteSet(P(i))
  <2> SUFFICES ASSUME NEW i \in I PROVE IsFiniteSet(P(i))
    OBVIOUS
  <2>1. IsFiniteSet(1..s[i].record.size)
    BY FS_Interval DEF CacheEntry, Record
  <2>2. IsFiniteSet({i})
    BY FS_Singleton
  <2> QED BY <2>1, <2>2, FS_Product
<1>2. f \in Surjection(I, T)
  BY DEF Surjection
<1> HIDE DEF f
<1>3. IsFiniteSet(T)
  BY <1>2, FS_Surjection
<1>4. \A X \in T : IsFiniteSet(X)
  BY <1>1
<1>5. Bytes(s, I) = UNION T
  BY DEF Bytes
<1> HIDE DEF T
<1>6. IsFiniteSet(Bytes(s, I))
  BY <1>3, <1>4, <1>5, FS_UNION
<1> QED BY <1>6, FS_CardinalityType DEF Weight

\* Sizes add up.
LEMMA WeightAdds ==
  ASSUME NEW s, NEW I, IsFiniteSet(I), NEW J, IsFiniteSet(J), I \cap J = {},
         \A i \in I \cup J : s[i] \in CacheEntry
  PROVE  /\ Weight(s, I \cup J) = Weight(s, I) + Weight(s, J)
         /\ Weight(s, I) \in Nat /\ Weight(s, J) \in Nat
<1>1. Bytes(s, I \cup J) = Bytes(s, I) \cup Bytes(s, J)
  BY BytesOf
<1>2. Bytes(s, I) \cap Bytes(s, J) = {}
  <2> SUFFICES ASSUME NEW x, x \in Bytes(s, I), x \in Bytes(s, J) PROVE FALSE
    OBVIOUS
  <2>1. PICK i \in I : \E b \in 1..s[i].record.size : x = <<i, b>>
    BY BytesOf
  <2>2. PICK j \in J : \E b \in 1..s[j].record.size : x = <<j, b>>
    BY BytesOf
  <2>3. i = j
    BY <2>1, <2>2
  <2> QED BY <2>3
<1>3. /\ IsFiniteSet(Bytes(s, I)) /\ Weight(s, I) \in Nat
      /\ IsFiniteSet(Bytes(s, J)) /\ Weight(s, J) \in Nat
  BY BytesFinite
<1>4. Cardinality(Bytes(s, I) \cup Bytes(s, J)) = Cardinality(Bytes(s, I)) + Cardinality(Bytes(s, J)) - 0
  BY <1>2, <1>3, FS_Union, FS_EmptySet
<1>5. Weight(s, I \cup J) = Weight(s, I) + Weight(s, J) - 0
  BY <1>1, <1>4 DEF Weight
<1> QED BY <1>3, <1>5

\* Moving entries does not change their size.
LEMMA WeightMoves ==
  ASSUME NEW s, NEW t, NEW I, IsFiniteSet(I), NEW J, NEW f \in Bijection(I, J),
         \A i \in I : s[i] \in CacheEntry, \A i \in I : t[f[i]] = s[i]
  PROVE  Weight(t, J) = Weight(s, I)
<1> DEFINE A == Bytes(s, I)
           B == Bytes(t, J)
           g == [x \in A |-> <<f[x[1]], x[2]>>]
<1>0. /\ f \in [I -> J] /\ \A a, b \in I : f[a] = f[b] => a = b
      /\ \A j \in J : \E i \in I : f[i] = j
  BY DEF Bijection, Injection, Surjection, IsInjective
<1>1. ASSUME NEW x \in A
      PROVE  /\ x[1] \in I /\ x[2] \in 1..s[x[1]].record.size /\ x = <<x[1], x[2]>>
             /\ g[x] = <<f[x[1]], x[2]>> /\ g[x] \in B
  <2>1. PICK i \in I : \E b \in 1..s[i].record.size : x = <<i, b>>
    BY BytesOf
  <2>2. PICK b \in 1..s[i].record.size : x = <<i, b>>
    BY <2>1
  <2>3. f[i] \in J /\ b \in 1..t[f[i]].record.size /\ x[1] = i /\ x[2] = b
    BY <2>2, <1>0
  <2>4. <<f[i], b>> \in B
    BY <2>3, BytesOf
  <2> QED BY <2>2, <2>3, <2>4
<1>2. ASSUME NEW x \in A, NEW y \in A, g[x] = g[y] PROVE x = y
  <2>1. f[x[1]] = f[y[1]] /\ x[2] = y[2]
    BY <1>1, <1>2
  <2>2. x[1] = y[1]
    BY <2>1, <1>0, <1>1
  <2>3. x = <<x[1], x[2]>> /\ y = <<y[1], y[2]>>
    BY <1>1
  <2> HIDE DEF A, g
  <2> QED BY <2>1, <2>2, <2>3
<1>3. ASSUME NEW y \in B PROVE \E x \in A : g[x] = y
  <2>1. PICK j \in J : \E b \in 1..t[j].record.size : y = <<j, b>>
    BY BytesOf
  <2>2. PICK b \in 1..t[j].record.size : y = <<j, b>>
    BY <2>1
  <2>3. PICK i \in I : f[i] = j
    BY <1>0
  <2>4. <<i, b>> \in A
    BY <2>2, <2>3, BytesOf
  <2>5. g[<<i, b>>] = y
    BY <2>2, <2>3, <2>4
  <2> QED BY <2>4, <2>5
<1>4. g \in [A -> B]
  BY <1>1
<1> HIDE DEF g
<1>5. g \in Bijection(A, B)
  BY <1>2, <1>3, <1>4 DEF Bijection, Injection, Surjection, IsInjective
<1>6. IsFiniteSet(A)
  BY BytesFinite
<1> HIDE DEF A, B
<1>7. Cardinality(B) = Cardinality(A)
  BY <1>5, <1>6, FS_Bijection DEF ExistsBijection
<1> QED BY <1>7 DEF Weight, A, B

\* The size of one entry.
LEMMA WeightOne ==
  ASSUME NEW s, NEW i, s[i] \in CacheEntry
  PROVE  Weight(s, {i}) = s[i].record.size
<1> DEFINE n == s[i].record.size
<1>0. n \in Nat
  BY DEF CacheEntry, Record
<1>1. Bytes(s, {i}) = {i} \X (1..n)
  BY DEF Bytes
<1> HIDE DEF n
<1>2. IsFiniteSet({i}) /\ Cardinality({i}) = 1
  BY FS_Singleton
<1>3. IsFiniteSet(1..n) /\ Cardinality(1..n) = n
  BY <1>0, FS_Interval
<1>4. Cardinality({i} \X (1..n)) = 1 * n
  <2>1. ASSUME NEW S, NEW T, IsFiniteSet(S), IsFiniteSet(T)
        PROVE  Cardinality(S \X T) = Cardinality(S) * Cardinality(T)
    BY <2>1, FS_Product
  <2>2. Cardinality({i} \X (1..n)) = Cardinality({i}) * Cardinality(1..n)
    BY <1>2, <1>3, <2>1
  <2> QED BY <2>2, <1>2, <1>3
<1>5. 1 * n = n
  BY <1>0
<1>6. Weight(s, {i}) = n
  BY <1>1, <1>4, <1>5 DEF Weight
<1> QED BY <1>6 DEF n

-----------------------------------------------------------------------------
(* The operations of the cache.                                            *)

\* The size of a list is a natural number.
LEMMA SizeNat == ASSUME NEW s \in Seq(CacheEntry) PROVE Size(s) \in Nat
<1>1. IsFiniteSet(1..Len(s)) /\ \A i \in 1..Len(s) : s[i] \in CacheEntry
  BY FS_Interval
<1> QED BY <1>1, BytesFinite DEF Size

\* remove takes out the entry of its key, and its size.
LEMMA Removes ==
  ASSUME Sound(order), NEW k
  PROVE  /\ Sound(Without(k))
         /\ \A i \in 1..Len(Without(k)) : Without(k)[i].key # k /\ OneOf(Without(k)[i], order)
         /\ Size(Without(k)) = Size(order) - SizeOf(k) /\ SizeOf(k) \in Nat
         /\ Cached(k) => Entry(k) \in CacheEntry /\ Entry(k).key = k /\ OneOf(Entry(k), order)
                         /\ Entry(k).record.size = SizeOf(k)
<1>0. order \in Seq(CacheEntry) /\ Len(order) \in Nat /\ DOMAIN order = 1..Len(order)
      /\ Size(order) \in Nat /\ \A i \in 1..Len(order) : order[i] \in CacheEntry
  BY SizeNat DEF Sound
<1>1. CASE ~Cached(k)
  <2>1. Without(k) = order /\ SizeOf(k) = 0
    BY <1>1 DEF Without, SizeOf
  <2>2. \A i \in 1..Len(order) : order[i].key # k
    BY <1>0, <1>1 DEF Cached, Position
  <2> QED BY <2>1, <2>2, <1>0, <1>1 DEF OneOf
<1>2. CASE Cached(k)
  <2> DEFINE p == Element(k)
             q == Without(k)
             L == Len(order)
             lo == 1..(p-1)
             hi == (p+1)..L
  <2>1. p \in 1..L /\ order[p].key = k
    BY <1>0, <1>2 DEF Cached, Position, Element
  <2> HIDE DEF p
  <2>2. q = [i \in 1..(L-1) |-> IF i < p THEN order[i] ELSE order[i+1]]
    BY <1>2 DEF Without, p
  <2>3. SizeOf(k) = order[p].record.size /\ Entry(k) = order[p]
    BY <1>2 DEF SizeOf, Entry, p
  <2>4. order[p].record.size \in Nat
    BY <1>0, <2>1 DEF CacheEntry, Record
  <2> HIDE DEF q, L
  <2>5. L \in Nat /\ L >= 1 /\ L = Len(order)
    BY <1>0, <2>1 DEF L
  <2>6. \A i \in 1..(L-1) : /\ i < p => q[i] = order[i]
                            /\ ~(i < p) => q[i] = order[i+1]
    BY <2>2
  <2>7. q \in Seq(CacheEntry) /\ Len(q) = L - 1
    <3>1. q \in [1..(L-1) -> CacheEntry]
      BY <2>1, <2>2, <2>5, <1>0
    <3> QED BY <3>1, <2>5
  <2>8. \A i \in 1..(L-1) : q[i].key # k /\ OneOf(q[i], order)
    <3> SUFFICES ASSUME NEW i \in 1..(L-1) PROVE q[i].key # k /\ OneOf(q[i], order)
      OBVIOUS
    <3>1. CASE i < p
      <4>1. i \in 1..Len(order) /\ i # p /\ q[i] = order[i]
        BY <3>1, <2>1, <2>5, <2>6
      <4> QED BY <4>1, <2>1, <2>5 DEF Sound, OneOf
    <3>2. CASE ~(i < p)
      <4>1. i + 1 \in 1..Len(order) /\ i + 1 # p /\ q[i] = order[i+1]
        BY <3>2, <2>1, <2>5, <2>6
      <4> QED BY <4>1, <2>1, <2>5 DEF Sound, OneOf
    <3> QED BY <3>1, <3>2
  <2>9. Sound(q)
    <3> SUFFICES ASSUME NEW i \in 1..(L-1), NEW j \in 1..(L-1), q[i].key = q[j].key PROVE i = j
      BY <2>7 DEF Sound
    <3>1. PICK a \in 1..Len(order) : q[i] = order[a] /\ a = IF i < p THEN i ELSE i + 1
      BY <2>1, <2>5, <2>6
    <3>2. PICK b \in 1..Len(order) : q[j] = order[b] /\ b = IF j < p THEN j ELSE j + 1
      BY <2>1, <2>5, <2>6
    <3>3. a = b
      BY <3>1, <3>2 DEF Sound
    <3> QED BY <3>1, <3>2, <3>3, <2>1, <2>5
  <2>0. IsFiniteSet(lo) /\ IsFiniteSet(hi)
    <3>1. p \in Int /\ p - 1 \in Int /\ p + 1 \in Int /\ L \in Int
      BY <2>1, <2>5
    <3> QED BY <3>1, FS_Interval
  <2>10. Size(q) = Weight(order, lo \cup hi)
    <3> DEFINE f == [i \in lo \cup hi |-> IF i < p THEN i ELSE i - 1]
    <3>1. f \in [lo \cup hi -> 1..(L-1)]
      BY <2>1, <2>5
    <3>2. \A i, j \in lo \cup hi : f[i] = f[j] => i = j
      BY <2>1, <2>5
    <3>3. \A j \in 1..(L-1) : \E i \in lo \cup hi : f[i] = j
      <4> SUFFICES ASSUME NEW j \in 1..(L-1) PROVE \E i \in lo \cup hi : f[i] = j
        OBVIOUS
      <4>1. CASE j < p
        <5>1. j \in lo /\ f[j] = j
          BY <4>1, <2>1, <2>5
        <5> QED BY <5>1
      <4>2. CASE ~(j < p)
        <5>1. j + 1 \in hi /\ f[j+1] = j
          BY <4>2, <2>1, <2>5
        <5> QED BY <5>1
      <4> QED BY <4>1, <4>2
    <3>4. \A i \in lo \cup hi : q[f[i]] = order[i] /\ order[i] \in CacheEntry
      BY <2>1, <2>5, <2>6, <1>0
    <3> HIDE DEF f, lo, hi
    <3>5. IsFiniteSet(lo \cup hi)
      BY <2>0, FS_Union
    <3>6. f \in Bijection(lo \cup hi, 1..(L-1))
      BY <3>1, <3>2, <3>3 DEF Bijection, Injection, Surjection, IsInjective
    <3>7. Weight(q, 1..(L-1)) = Weight(order, lo \cup hi)
      BY <3>4, <3>5, <3>6, WeightMoves
    <3> QED BY <3>7, <2>7 DEF Size
  <2>11. Size(order) = Weight(order, lo \cup hi) + order[p].record.size
    <3>1. (lo \cup hi) \cup {p} = 1..L /\ (lo \cup hi) \cap {p} = {}
      BY <2>1, <2>5
    <3> HIDE DEF lo, hi
    <3>2. IsFiniteSet(lo \cup hi) /\ IsFiniteSet({p})
      BY <2>0, FS_Union, FS_Singleton
    <3>3. Weight(order, 1..L) = Weight(order, lo \cup hi) + Weight(order, {p})
      BY <3>1, <3>2, <1>0, <2>5, WeightAdds
    <3>4. Weight(order, {p}) = order[p].record.size
      BY <1>0, <2>1, <2>5, WeightOne
    <3> QED BY <3>3, <3>4, <2>5 DEF Size
  <2>12. Size(q) \in Nat
    BY <2>7, SizeNat
  <2>13. Size(q) = Size(order) - SizeOf(k)
    BY <2>3, <2>4, <2>10, <2>11, <2>12
  <2>14. OneOf(order[p], order)
    BY <2>1, <2>5 DEF OneOf
  <2>15. order[p] \in CacheEntry
    BY <1>0, <2>1, <2>5
  <2> QED BY <2>1, <2>3, <2>4, <2>7, <2>8, <2>9, <2>13, <2>14, <2>15 DEF q
<1> QED BY <1>1, <1>2

\* An entry of a new key goes to the front.
LEMMA Pushes ==
  ASSUME NEW s, Sound(s), NEW e \in CacheEntry, \A i \in 1..Len(s) : s[i].key # e.key
  PROVE  /\ Sound(<<e>> \o s) /\ Size(<<e>> \o s) = Size(s) + e.record.size
         /\ \A i \in 1..Len(<<e>> \o s) : (<<e>> \o s)[i] = e \/ OneOf((<<e>> \o s)[i], s)
<1> DEFINE q == <<e>> \o s
           L == Len(s)
<1>1. s \in Seq(CacheEntry) /\ L \in Nat /\ \A i \in 1..L : s[i] \in CacheEntry
  BY DEF Sound
<1>2. /\ q \in Seq(CacheEntry) /\ Len(q) = L + 1 /\ q[1] = e
      /\ \A i \in 1..L : q[i+1] = s[i]
      /\ \A i \in 2..(L+1) : q[i] = s[i-1]
  BY <1>1
<1> HIDE DEF q
<1>3. \A i \in 1..(L+1) : q[i] = e \/ OneOf(q[i], s)
  <2> SUFFICES ASSUME NEW i \in 1..(L+1), i # 1 PROVE OneOf(q[i], s)
    BY <1>2
  <2>1. i - 1 \in 1..Len(s) /\ q[i] = s[i-1]
    BY <1>1, <1>2
  <2> QED BY <2>1 DEF OneOf
<1>4. Sound(q)
  <2> SUFFICES ASSUME NEW i \in 1..(L+1), NEW j \in 1..(L+1), q[i].key = q[j].key PROVE i = j
    BY <1>2 DEF Sound
  <2>1. CASE i = 1 /\ j = 1
    BY <2>1
  <2>2. CASE i = 1 /\ j # 1
    <3>1. j - 1 \in 1..Len(s) /\ q[j] = s[j-1]
      BY <2>2, <1>1, <1>2
    <3> QED BY <3>1, <2>2, <1>2
  <2>3. CASE i # 1 /\ j = 1
    <3>1. i - 1 \in 1..Len(s) /\ q[i] = s[i-1]
      BY <2>3, <1>1, <1>2
    <3> QED BY <3>1, <2>3, <1>2
  <2>4. CASE i # 1 /\ j # 1
    <3>1. i - 1 \in 1..Len(s) /\ q[i] = s[i-1] /\ j - 1 \in 1..Len(s) /\ q[j] = s[j-1]
      BY <2>4, <1>1, <1>2
    <3>2. i - 1 = j - 1
      BY <3>1 DEF Sound
    <3> QED BY <3>2
  <2> QED BY <2>1, <2>2, <2>3, <2>4
<1>5. Size(q) = Size(s) + e.record.size
  <2> DEFINE f == [i \in 1..L |-> i + 1]
             J == 2..(L+1)
  <2>1. f \in [1..L -> J] /\ (\A i, j \in 1..L : f[i] = f[j] => i = j)
    BY <1>1
  <2>2. \A j \in J : \E i \in 1..L : f[i] = j
    <3> SUFFICES ASSUME NEW j \in J PROVE \E i \in 1..L : f[i] = j
      OBVIOUS
    <3>1. j - 1 \in 1..L /\ f[j-1] = j
      BY <1>1
    <3> QED BY <3>1
  <2>3. \A i \in 1..L : q[f[i]] = s[i]
    BY <1>1, <1>2
  <2> HIDE DEF f
  <2>4. f \in Bijection(1..L, J)
    BY <2>1, <2>2 DEF Bijection, Injection, Surjection, IsInjective
  <2>5. IsFiniteSet(1..L) /\ IsFiniteSet(J) /\ IsFiniteSet({1})
    <3>1. 1 \in Int /\ L \in Int /\ 2 \in Int /\ L + 1 \in Int
      BY <1>1
    <3>2. IsFiniteSet(1..L) /\ IsFiniteSet(J)
      BY <3>1, FS_Interval
    <3> QED BY <3>2, FS_Singleton
  <2>6. Weight(q, J) = Weight(s, 1..L)
    BY <2>3, <2>4, <2>5, <1>1, WeightMoves
  <2>7. {1} \cup J = 1..(L+1) /\ {1} \cap J = {}
    BY <1>1
  <2>8. \A i \in {1} \cup J : q[i] \in CacheEntry
    BY <2>7, <1>2
  <2> HIDE DEF J
  <2>9. Weight(q, 1..(L+1)) = Weight(q, {1}) + Weight(q, J) /\ Weight(q, {1}) \in Nat /\ Weight(q, J) \in Nat
    <3>1. /\ Weight(q, {1} \cup J) = Weight(q, {1}) + Weight(q, J)
          /\ Weight(q, {1}) \in Nat /\ Weight(q, J) \in Nat
      BY <2>5, <2>7, <2>8, WeightAdds
    <3> QED BY <3>1, <2>7
  <2>10. Weight(q, {1}) = e.record.size
    BY <1>2, WeightOne
  <2> QED BY <2>6, <2>9, <2>10, <1>2 DEF Size
<1> QED BY <1>2, <1>3, <1>4, <1>5 DEF q

\* Eviction takes the recorded size down with the entries, to the capacity.
LEMMA Evicts ==
  ASSUME NEW s, Sound(s), Evict(s, Size(s))
  PROVE  /\ Sound(order') /\ size' = Size(order') /\ size' <= Capacity
         /\ \A i \in 1..Len(order') : OneOf(order'[i], s)
<1>0. s \in Seq(CacheEntry) /\ Len(s) \in Nat /\ \A i \in 1..Len(s) : s[i] \in CacheEntry
  BY DEF Sound
<1>1. PICK n \in 0..Len(s) : /\ Left(s, Size(s), n) <= Capacity
                             /\ order' = SubSeq(s, 1, n) /\ size' = Left(s, Size(s), n)
  BY DEF Evict
<1> DEFINE L == Len(s)
           hi == (n+1)..L
<1>2. /\ order' \in Seq(CacheEntry) /\ Len(order') = n /\ n \in Nat
      /\ \A i \in 1..n : order'[i] = s[i] /\ i \in 1..L
  BY <1>0, <1>1
<1>3. (1..n) \cup hi = 1..L /\ (1..n) \cap hi = {}
  BY <1>0, <1>1
<1>4. IsFiniteSet(1..n) /\ IsFiniteSet(hi)
  BY <1>0, <1>1, FS_Interval
<1> HIDE DEF hi
<1>5. /\ Weight(s, 1..L) = Weight(s, 1..n) + Weight(s, hi)
      /\ Weight(s, 1..n) \in Nat /\ Weight(s, hi) \in Nat
  <2> DEFINE lo == 1..n
  <2>1. lo \cup hi = 1..L /\ lo \cap hi = {} /\ IsFiniteSet(lo) /\ IsFiniteSet(hi)
    BY <1>3, <1>4
  <2>2. \A i \in lo \cup hi : s[i] \in CacheEntry
    BY <1>0, <2>1
  <2> HIDE DEF lo
  <2>3. /\ Weight(s, lo \cup hi) = Weight(s, lo) + Weight(s, hi)
        /\ Weight(s, lo) \in Nat /\ Weight(s, hi) \in Nat
    BY <2>1, <2>2, WeightAdds
  <2> QED BY <2>1, <2>3 DEF lo
<1>6. Weight(order', 1..n) = Weight(s, 1..n)
  <2>1. Bytes(order', 1..n) = Bytes(s, 1..n)
    <3> DEFINE t == order'
    <3>1. \A i \in 1..n : t[i] = s[i]
      BY <1>2
    <3> HIDE DEF t
    <3>2. Bytes(t, 1..n) = Bytes(s, 1..n)
      BY <3>1 DEF Bytes
    <3> QED BY <3>2 DEF t
  <2> QED BY <2>1 DEF Weight
<1>7. size' = Size(order')
  <2>1. size' = Weight(s, 1..L) - Weight(s, hi)
    BY <1>1 DEF Left, Size, hi
  <2> QED BY <2>1, <1>2, <1>5, <1>6 DEF Size
<1>8. Sound(order')
  BY <1>2 DEF Sound
<1>9. \A i \in 1..Len(order') : OneOf(order'[i], s)
  BY <1>2 DEF OneOf
<1> QED BY <1>1, <1>7, <1>8, <1>9

-----------------------------------------------------------------------------
(* What the cache holds after each of its operations.                      *)

\* A hit keeps the accounts and the entries.
LEMMA HitKeeps ==
  ASSUME Accounts, NEW k, CacheHit(k)
  PROVE  Accounts' /\ \A i \in 1..Len(order') : OneOf(order'[i], order)
<1> DEFINE e == Entry(k)
           s == Without(k)
<1>1. order' = <<e>> \o s /\ size' = size /\ Cached(k)
  BY DEF CacheHit
<1>2. /\ Sound(s) /\ \A i \in 1..Len(s) : s[i].key # k /\ OneOf(s[i], order)
      /\ Size(s) = Size(order) - SizeOf(k) /\ SizeOf(k) \in Nat
      /\ e \in CacheEntry /\ e.key = k /\ OneOf(e, order) /\ e.record.size = SizeOf(k)
  BY <1>1, Removes DEF Accounts
<1> HIDE DEF e, s
<1>3. /\ Sound(<<e>> \o s) /\ Size(<<e>> \o s) = Size(s) + e.record.size
      /\ \A i \in 1..Len(<<e>> \o s) : (<<e>> \o s)[i] = e \/ OneOf((<<e>> \o s)[i], s)
  BY <1>2, Pushes
<1>4. Size(order) \in Nat
  BY SizeNat DEF Accounts, Sound
<1>5. Size(<<e>> \o s) = Size(order)
  BY <1>2, <1>3, <1>4
<1>6. \A x : OneOf(x, s) => OneOf(x, order)
  BY <1>2 DEF OneOf
<1>7. Accounts'
  BY <1>1, <1>3, <1>5 DEF Accounts
<1>8. ASSUME NEW i \in 1..Len(order') PROVE OneOf(order'[i], order)
  <2>1. order'[i] = e \/ OneOf(order'[i], s)
    BY <1>1, <1>3
  <2> QED BY <2>1, <1>2, <1>6
<1> QED BY <1>7, <1>8

\* After a miss or a delete the key has no entry.
LEMMA DeleteKeeps ==
  ASSUME Accounts, NEW k, CacheMiss(k) \/ CacheDelete(k)
  PROVE  Accounts' /\ \A i \in 1..Len(order') : order'[i].key # k /\ OneOf(order'[i], order)
<1> DEFINE s == Without(k)
<1>1. order' = s /\ size' = size - SizeOf(k)
  BY DEF CacheMiss, CacheDelete
<1>2. /\ Sound(s) /\ \A i \in 1..Len(s) : s[i].key # k /\ OneOf(s[i], order)
      /\ Size(s) = Size(order) - SizeOf(k) /\ SizeOf(k) \in Nat
  BY Removes DEF Accounts
<1> HIDE DEF s
<1>3. Size(order) \in Nat /\ Capacity \in Nat /\ size <= Capacity /\ size = Size(order)
  BY SizeNat, KVAssumption DEF Accounts, Sound
<1>4. size' <= Capacity
  BY <1>1, <1>2, <1>3
<1> QED BY <1>1, <1>2, <1>3, <1>4 DEF Accounts

\* A put adds at most its own entry.
LEMMA PutKeeps ==
  ASSUME Accounts, NEW k \in Keys, NEW rec \in Record, NEW overlaps \in BOOLEAN,
         CachePut(k, rec, overlaps)
  PROVE  /\ Accounts'
         /\ \A i \in 1..Len(order') : \/ OneOf(order'[i], order)
                                      \/ order'[i] = [key |-> k, record |-> rec, overlaps |-> overlaps]
<1>1. CASE UNCHANGED cache
  BY <1>1 DEF cache, Accounts, OneOf
<1>2. CASE ~UNCHANGED cache
  <2> DEFINE e == [key |-> k, record |-> rec, overlaps |-> overlaps]
             s == Without(k)
             t == <<e>> \o s
  <2>1. Evict(t, size - SizeOf(k) + rec.size)
    BY <1>2 DEF CachePut
  <2>2. /\ Sound(s) /\ \A i \in 1..Len(s) : s[i].key # k /\ OneOf(s[i], order)
        /\ Size(s) = Size(order) - SizeOf(k) /\ SizeOf(k) \in Nat
    BY Removes DEF Accounts
  <2>3. e \in CacheEntry /\ e.key = k /\ e.record = rec
    BY DEF CacheEntry
  <2> HIDE DEF e, s
  <2>4. /\ Sound(t) /\ Size(t) = Size(s) + e.record.size
        /\ \A i \in 1..Len(t) : t[i] = e \/ OneOf(t[i], s)
    BY <2>2, <2>3, Pushes
  <2> HIDE DEF t
  <2>5. size - SizeOf(k) + rec.size = Size(t)
    BY <2>2, <2>3, <2>4 DEF Accounts
  <2>6. /\ Sound(order') /\ size' = Size(order') /\ size' <= Capacity
        /\ \A i \in 1..Len(order') : OneOf(order'[i], t)
    BY <2>1, <2>4, <2>5, Evicts
  <2>7. \A x : OneOf(x, s) => OneOf(x, order)
    BY <2>2 DEF OneOf
  <2>8. \A x : OneOf(x, t) => x = e \/ OneOf(x, order)
    BY <2>4, <2>7 DEF OneOf
  <2>9. \A i \in 1..Len(order') : OneOf(order'[i], order) \/ order'[i] = e
    BY <2>6, <2>8
  <2> QED BY <2>6, <2>9 DEF Accounts, e
<1> QED BY <1>1, <1>2

-----------------------------------------------------------------------------
(* Freshness from step to step.                                            *)

\* Only an invalidation settles a key; a write unsettles its own.
NothingSettles ==
  \A k \in Keys : /\ k \in Unsettled => k \in Unsettled'
                  /\ store'[k] = store[k] \/ k \in Unsettled'

\* The place of a call tells its record.
LEMMA Shapes ==
  ASSUME CallTypes, NEW c \in Calls
  PROVE  /\ call[c].at \in {"lookup", "read", "fill"} => call[c] \in GetCall
         /\ call[c].at \in {"write", "invalidate", "failed"} => call[c] \in WriteCall
<1>1. call[c] \in GetCall \/ call[c] \in WriteCall \/ call[c] \in NoCall
  BY DEF CallTypes
<1> QED BY <1>1 DEF GetCall, WriteCall, NoCall

\* Entries that stay remain fresh while nothing settles.
LEMMA CacheFresh ==
  ASSUME Accounts, CacheInv, NothingSettles,
         \A i \in 1..Len(order') : \/ OneOf(order'[i], order)
                                   \/ order'[i].record = store'[order'[i].key]
                                   \/ order'[i].overlaps \/ order'[i].key \in Unsettled'
  PROVE  CacheInv'
<1> SUFFICES ASSUME NEW i \in 1..Len(order')
             PROVE  \/ order'[i].record = store'[order'[i].key]
                    \/ order'[i].overlaps \/ order'[i].key \in Unsettled'
  BY DEF CacheInv, Fresh
<1>1. CASE OneOf(order'[i], order)
  <2>1. PICK j \in 1..Len(order) : order'[i] = order[j]
    BY <1>1 DEF OneOf
  <2>2. order[j].key \in Keys
    <3>1. order \in Seq(CacheEntry)
      BY DEF Accounts, Sound
    <3>2. order[j] \in CacheEntry
      BY <3>1
    <3> QED BY <3>2 DEF CacheEntry
  <2>3. order[j].record = store[order[j].key] \/ order[j].overlaps \/ order[j].key \in Unsettled
    BY DEF CacheInv, Fresh
  <2> QED BY <2>1, <2>2, <2>3 DEF NothingSettles
<1> QED BY <1>1

\* A step that leaves the cache alone.
LEMMA CacheStays ==
  ASSUME Accounts, CacheInv, NothingSettles, UNCHANGED cache
  PROVE  Accounts' /\ CacheInv'
<1>1. order' = order /\ size' = size
  BY DEF cache
<1>2. \A i \in 1..Len(order') : OneOf(order'[i], order)
  BY <1>1 DEF OneOf
<1> QED BY <1>1, <1>2, CacheFresh DEF Accounts

\* A step that leaves the bulk get alone.
LEMMA PoolStays ==
  ASSUME PoolTypes, PoolInv, BulkInv, NothingSettles, UNCHANGED bulkVars
  PROVE  PoolTypes' /\ PoolInv' /\ BulkInv'
<1>0. /\ bulk' = bulk /\ next' = next /\ misses' = misses /\ sent' = sent /\ worker' = worker
      /\ cancelled' = cancelled /\ firstErr' = firstErr /\ records' = records
  BY DEF bulkVars
<1>1. PoolTypes' /\ BulkInv'
  BY <1>0 DEF PoolTypes, BulkInv, LookedUp, Missed
<1>2. ASSUME bulk # "done", NEW i \in 1..sent
      PROVE  firstErr' \/ Reading(misses[i])' \/ Got(misses[i])'
  <2>1. misses[i] \in Keys
    BY DEF PoolTypes
  <2>2. firstErr \/ Reading(misses[i]) \/ Got(misses[i])
    BY <1>2 DEF PoolInv
  <2> DEFINE k == misses[i]
  <2>3. Got(k) => k \in DOMAIN records' /\ (records'[k].record = store'[k] \/ records'[k].overlaps \/ k \in Unsettled')
    BY <1>0, <2>1 DEF Got, Fresh, NothingSettles
  <2> QED BY <1>0, <2>2, <2>3 DEF Reading, Got, Fresh
<1>3. PoolInv'
  BY <1>0, <1>2 DEF PoolInv
<1> QED BY <1>1, <1>3

\* A call moves that has no unsettled write.
LEMMA CallMoves ==
  ASSUME IInv, NEW c \in Calls, NEW r \in GetCall \cup WriteCall \cup NoCall,
         call' = [call EXCEPT ![c] = r], call[c].at \notin {"invalidate", "failed"},
         r.at = "fill" => r \in GetCall /\ Fresh(r.key, r.record, r.overlaps),
         UNCHANGED <<ext, bulkVars>>, last' \subseteq Keys
  PROVE  CallTypes' /\ NothingSettles /\ FillInv' /\ PoolTypes' /\ PoolInv' /\ BulkInv'
<1>0. CallTypes /\ PoolTypes /\ PoolInv /\ BulkInv /\ FillInv
  BY DEF IInv
<1>1. store' = store /\ writes' = writes /\ UNCHANGED bulkVars
  BY DEF ext
<1>2. call'[c] = r /\ \A d \in Calls : d # c => call'[d] = call[d]
  BY <1>0 DEF CallTypes
<1>3. CallTypes'
  BY <1>0, <1>1 DEF CallTypes
<1>4. NothingSettles
  <2>1. ASSUME NEW k \in Unsettled PROVE k \in Unsettled'
    <3>1. PICK d \in Calls : call[d].at \in {"invalidate", "failed"} /\ call[d].key = k
      BY DEF Unsettled
    <3>2. d # c
      BY <3>1
    <3> QED BY <3>1, <3>2, <1>2 DEF Unsettled
  <2> QED BY <2>1, <1>1 DEF NothingSettles
<1>5. FillInv'
  <2> SUFFICES ASSUME NEW d \in Calls, call'[d].at = "fill"
               PROVE  \/ call'[d].record = store'[call'[d].key]
                      \/ call'[d].overlaps \/ call'[d].key \in Unsettled'
    BY DEF FillInv, Fresh
  <2>1. call'[d] \in GetCall
    <3>1. CASE d = c
      BY <3>1, <1>2
    <3>2. CASE d # c
      BY <3>2, <1>0, <1>2, Shapes
    <3> QED BY <3>1, <3>2
  <2>2. call'[d].record = store[call'[d].key] \/ call'[d].overlaps \/ call'[d].key \in Unsettled
    <3>1. CASE d = c
      BY <3>1, <1>2 DEF Fresh
    <3>2. CASE d # c
      BY <3>2, <1>0, <1>2 DEF FillInv, Fresh
    <3> QED BY <3>1, <3>2
  <2>3. call'[d].key \in Keys
    BY <2>1 DEF GetCall
  <2> QED BY <2>2, <2>3, <1>1, <1>4 DEF NothingSettles
<1>6. PoolTypes' /\ PoolInv' /\ BulkInv'
  BY <1>0, <1>1, <1>4, PoolStays
<1> QED BY <1>3, <1>4, <1>5, <1>6

\* The bulk get moves.
LEMMA CallsStay ==
  ASSUME CallTypes, FillInv, UNCHANGED <<last, call, ext>>
  PROVE  CallTypes' /\ NothingSettles /\ FillInv' /\ Unsettled' = Unsettled /\ store' = store
<1>1. last' = last /\ call' = call /\ store' = store /\ writes' = writes
  BY DEF ext
<1>2. Unsettled' = Unsettled
  BY <1>1 DEF Unsettled
<1> QED BY <1>1, <1>2 DEF CallTypes, NothingSettles, FillInv, Fresh

\* Renaming of a call's place.
LEMMA GetAt ==
  ASSUME NEW r \in GetCall, NEW at \in {"lookup", "read", "fill", "done"}
  PROVE  /\ [r EXCEPT !.at = at] \in GetCall /\ [r EXCEPT !.at = at].at = at
         /\ [r EXCEPT !.at = at].key = r.key
BY DEF GetCall

LEMMA WriteAt ==
  ASSUME NEW r \in WriteCall, NEW at \in {"write", "invalidate", "done", "failed"}
  PROVE  /\ [r EXCEPT !.at = at] \in WriteCall /\ [r EXCEPT !.at = at].at = at
         /\ [r EXCEPT !.at = at].key = r.key
BY DEF WriteCall

-----------------------------------------------------------------------------
(* The calls.                                                              *)

\* get, put and delete start.
LEMMA StartsKeep ==
  ASSUME IInv, NEW c \in Calls, NEW k \in Keys, Get(c, k) \/ Put(c, k) \/ Delete(c, k)
  PROVE  IInv'
<1>0. Accounts /\ CacheInv /\ last \subseteq Keys
  BY DEF IInv, CallTypes
<1> DEFINE get == [at |-> "lookup", op |-> "get", key |-> k, record |-> Missing, overlaps |-> FALSE]
<1>1. get \in GetCall /\ get.at = "lookup"
  BY DEF GetCall, Record, Missing
<1>2. PICK r \in {get, [at |-> "write", op |-> "delete", key |-> k],
                  [at |-> "write", op |-> "put", key |-> k], [at |-> "done"]} :
        call' = [call EXCEPT ![c] = r]
  BY DEF Get, Put, Delete
<1>3. /\ call[c].at = "new" /\ UNCHANGED <<cache, ext, bulkVars>>
      /\ last' \subseteq Keys
  BY <1>0 DEF Get, Put, Delete
<1>4. r \in GetCall \cup WriteCall \cup NoCall /\ r.at # "fill"
  <2>1. /\ [at |-> "write", op |-> "delete", key |-> k] \in WriteCall
        /\ [at |-> "write", op |-> "put", key |-> k] \in WriteCall
    BY DEF WriteCall
  <2>2. [at |-> "done"] \in NoCall
    BY DEF NoCall
  <2>3. CASE r = get
    BY <2>3, <1>1
  <2>4. CASE r = [at |-> "write", op |-> "delete", key |-> k]
    BY <2>4, <2>1
  <2>5. CASE r = [at |-> "write", op |-> "put", key |-> k]
    BY <2>5, <2>1
  <2>6. CASE r = [at |-> "done"]
    BY <2>6, <2>2
  <2> QED BY <1>2, <2>3, <2>4, <2>5, <2>6
<1> HIDE DEF get
<1>5. CallTypes' /\ NothingSettles /\ FillInv' /\ PoolTypes' /\ PoolInv' /\ BulkInv'
  BY <1>2, <1>3, <1>4, CallMoves
<1>6. Accounts' /\ CacheInv'
  BY <1>0, <1>3, <1>5, CacheStays
<1> QED BY <1>5, <1>6 DEF IInv

\* A get looks into the cache.
LEMMA LookupKeeps ==
  ASSUME IInv, NEW c \in Calls, Lookup(c)
  PROVE  IInv'
<1>0. Accounts /\ CacheInv /\ CallTypes
  BY DEF IInv
<1>1. call[c].at = "lookup" /\ call[c] \in GetCall /\ UNCHANGED <<last, ext, bulkVars>>
  BY <1>0, Shapes DEF Lookup
<1>2. PICK at \in {"read", "done"} : call' = [call EXCEPT ![c].at = at]
  BY DEF Lookup, Goto
<1> DEFINE r == [call[c] EXCEPT !.at = at]
<1>3. r \in GetCall /\ r.at = at
  <2>1. at \in {"lookup", "read", "fill", "done"}
    BY <1>2
  <2> QED BY <2>1, <1>1, GetAt
<1>4. call' = [call EXCEPT ![c] = r]
  BY <1>2
<1> HIDE DEF r
<1>5. CallTypes' /\ NothingSettles /\ FillInv' /\ PoolTypes' /\ PoolInv' /\ BulkInv'
  <2>1. last' \subseteq Keys
    BY <1>0, <1>1 DEF CallTypes
  <2> QED BY <2>1, <1>1, <1>3, <1>4, CallMoves
<1>6. Accounts' /\ \A i \in 1..Len(order') : OneOf(order'[i], order)
  <2>1. CacheHit(call[c].key) \/ CacheMiss(call[c].key)
    BY DEF Lookup
  <2> QED BY <2>1, <1>0, HitKeeps, DeleteKeeps
<1>7. CacheInv'
  BY <1>0, <1>5, <1>6, CacheFresh
<1> QED BY <1>5, <1>6, <1>7 DEF IInv

\* What a get reads is what the store has.
LEMMA ReadKeeps ==
  ASSUME IInv, NEW c \in Calls, Read(c)
  PROVE  IInv'
<1>0. Accounts /\ CacheInv /\ CallTypes
  BY DEF IInv
<1>1. call[c].at = "read" /\ call[c] \in GetCall /\ UNCHANGED <<cache, last, ext, bulkVars>>
  BY <1>0, Shapes DEF Read
<1>2. last' \subseteq Keys
  BY <1>0, <1>1 DEF CallTypes
<1>3. CallTypes' /\ NothingSettles /\ FillInv' /\ PoolTypes' /\ PoolInv' /\ BulkInv'
  <2>1. CASE Goto(c, "done")
    <3> DEFINE r == [call[c] EXCEPT !.at = "done"]
    <3>1. r \in GetCall /\ r.at = "done"
      BY <1>1, GetAt
    <3>2. call' = [call EXCEPT ![c] = r]
      BY <2>1 DEF Goto
    <3> HIDE DEF r
    <3> QED BY <1>1, <1>2, <3>1, <3>2, CallMoves
  <2>2. CASE ~Goto(c, "done")
    <3> DEFINE r == [call[c] EXCEPT !.at = "fill", !.record = store[call[c].key]]
    <3>0. call[c].key \in Keys /\ store[call[c].key] \in Record
      BY <1>0, <1>1 DEF CallTypes, GetCall
    <3>1. r \in GetCall /\ r.record = store[r.key]
      BY <1>1, <3>0 DEF GetCall
    <3>2. call' = [call EXCEPT ![c] = r]
      BY <2>2 DEF Read
    <3> HIDE DEF r
    <3>3. Fresh(r.key, r.record, r.overlaps)
      BY <3>1 DEF Fresh
    <3> QED BY <1>1, <1>2, <3>1, <3>2, <3>3, CallMoves
  <2> QED BY <2>1, <2>2
<1>4. Accounts' /\ CacheInv'
  BY <1>0, <1>1, <1>3, CacheStays
<1> QED BY <1>3, <1>4 DEF IInv

\* A get fills the cache with what it read.
LEMMA FillKeeps ==
  ASSUME IInv, NEW c \in Calls, Fill(c)
  PROVE  IInv'
<1>0. Accounts /\ CacheInv /\ CallTypes /\ FillInv
  BY DEF IInv
<1>1. call[c].at = "fill" /\ call[c] \in GetCall /\ UNCHANGED <<last, ext, bulkVars>>
  BY <1>0, Shapes DEF Fill
<1>2. last' \subseteq Keys /\ store' = store
  BY <1>0, <1>1 DEF CallTypes, ext
<1> DEFINE r == [call[c] EXCEPT !.at = "done"]
<1>3. r \in GetCall /\ r.at = "done"
  BY <1>1, GetAt
<1>4. call' = [call EXCEPT ![c] = r]
  BY DEF Fill, Goto
<1> HIDE DEF r
<1>5. CallTypes' /\ NothingSettles /\ FillInv' /\ PoolTypes' /\ PoolInv' /\ BulkInv'
  BY <1>1, <1>2, <1>3, <1>4, CallMoves
<1> DEFINE k == call[c].key
           rec == call[c].record
           ov == call[c].overlaps
<1>6. k \in Keys /\ rec \in Record /\ ov \in BOOLEAN
  BY <1>1 DEF GetCall
<1>7. rec = store[k] \/ ov \/ k \in Unsettled
  BY <1>0, <1>1 DEF FillInv, Fresh
<1>8. CachePut(k, rec, ov)
  BY DEF Fill
<1> HIDE DEF k, rec, ov
<1>9. /\ Accounts'
      /\ \A i \in 1..Len(order') : \/ OneOf(order'[i], order)
                                   \/ order'[i] = [key |-> k, record |-> rec, overlaps |-> ov]
  BY <1>0, <1>6, <1>8, PutKeeps
<1>10. rec = store'[k] \/ ov \/ k \in Unsettled'
  BY <1>2, <1>5, <1>6, <1>7 DEF NothingSettles
<1>11. CacheInv'
  <2>1. \A i \in 1..Len(order') : \/ OneOf(order'[i], order)
                                  \/ order'[i].record = store'[order'[i].key]
                                  \/ order'[i].overlaps \/ order'[i].key \in Unsettled'
    BY <1>9, <1>10
  <2> QED BY <2>1, <1>0, <1>5, CacheFresh
<1> QED BY <1>5, <1>9, <1>11 DEF IInv

\* From the write to its invalidation the key is unsettled.
LEMMA WriteKeeps ==
  ASSUME IInv, NEW c \in Calls, StoreWrite(c)
  PROVE  IInv'
<1>0. Accounts /\ CacheInv /\ CallTypes /\ FillInv /\ PoolTypes /\ PoolInv /\ BulkInv
  BY DEF IInv
<1> DEFINE k == call[c].key
<1>1. /\ call[c].at = "write" /\ call[c] \in WriteCall /\ k \in Keys
      /\ UNCHANGED cache /\ UNCHANGED bulkVars /\ last' = last
  BY <1>0, Shapes DEF StoreWrite, WriteCall
<1>2. PICK took, ok \in BOOLEAN, s \in Sizes :
        /\ store' = IF took THEN [store EXCEPT ![call[c].key] =
                          [written |-> writes + 1, found |-> call[c].op = "put", size |-> s]] ELSE store
        /\ writes' = IF took THEN writes + 1 ELSE writes
        /\ Goto(c, IF ok THEN "invalidate" ELSE "failed")
  BY DEF StoreWrite
<1>3. PICK at \in {"invalidate", "failed"} : call' = [call EXCEPT ![c].at = at]
  <2>1. CASE ok
    BY <1>2, <2>1 DEF Goto
  <2>2. CASE ~ok
    BY <1>2, <2>2 DEF Goto
  <2> QED BY <2>1, <2>2
<1> DEFINE r == [call[c] EXCEPT !.at = at]
<1>4. r \in WriteCall /\ r.at = at /\ r.key = k
  <2>1. at \in {"write", "invalidate", "done", "failed"}
    BY <1>3
  <2> QED BY <2>1, <1>1, WriteAt
<1>5. call' = [call EXCEPT ![c] = r]
  BY <1>3
<1>6. call'[c] = r /\ \A d \in Calls : d # c => call'[d] = call[d]
  BY <1>0, <1>5 DEF CallTypes
<1> HIDE DEF r
<1>7. store' \in [Keys -> Record] /\ writes' \in Nat /\ \A j \in Keys : j # k => store'[j] = store[j]
  <2>1. s \in Nat /\ writes \in Nat /\ store \in [Keys -> Record]
    BY <1>0, KVAssumption DEF CallTypes
  <2>2. [written |-> writes + 1, found |-> call[c].op = "put", size |-> s] \in Record
    BY <2>1 DEF Record
  <2> HIDE DEF Record
  <2> QED BY <1>1, <1>2, <2>1, <2>2
<1>8. CallTypes'
  BY <1>0, <1>1, <1>4, <1>5, <1>7 DEF CallTypes
<1>9. k \in Unsettled'
  BY <1>1, <1>3, <1>4, <1>6 DEF Unsettled
<1> HIDE DEF k
<1>10. NothingSettles
  <2>1. ASSUME NEW j \in Unsettled PROVE j \in Unsettled'
    <3>1. PICK d \in Calls : call[d].at \in {"invalidate", "failed"} /\ call[d].key = j
      BY DEF Unsettled
    <3>2. d # c
      BY <3>1, <1>1
    <3> QED BY <3>1, <3>2, <1>6 DEF Unsettled
  <2> QED BY <2>1, <1>7, <1>9 DEF NothingSettles
<1>11. FillInv'
  <2> SUFFICES ASSUME NEW d \in Calls, call'[d].at = "fill"
               PROVE  \/ call'[d].record = store'[call'[d].key]
                      \/ call'[d].overlaps \/ call'[d].key \in Unsettled'
    BY DEF FillInv, Fresh
  <2>1. d # c /\ call'[d] = call[d]
    BY <1>3, <1>4, <1>6
  <2>2. call[d].key \in Keys
    BY <2>1, <1>0, Shapes DEF GetCall
  <2>3. call[d].record = store[call[d].key] \/ call[d].overlaps \/ call[d].key \in Unsettled
    BY <2>1, <1>0 DEF FillInv, Fresh
  <2> QED BY <2>1, <2>2, <2>3, <1>10 DEF NothingSettles
<1>12. PoolTypes' /\ PoolInv' /\ BulkInv'
  BY <1>0, <1>1, <1>10, PoolStays
<1>13. Accounts' /\ CacheInv'
  BY <1>0, <1>1, <1>10, CacheStays
<1> QED BY <1>8, <1>11, <1>12, <1>13 DEF IInv

\* What was read before the invalidation is marked, or gone from the cache.
LEMMA InvalidateKeeps ==
  ASSUME IInv, NEW c \in Calls, Invalidate(c)
  PROVE  IInv'
<1>0. Accounts /\ CacheInv /\ CallTypes /\ FillInv /\ PoolTypes /\ PoolInv /\ BulkInv
  BY DEF IInv
<1> DEFINE k == call[c].key
<1>1. /\ call[c].at = "invalidate" /\ call[c] \in WriteCall /\ k \in Keys
      /\ CacheDelete(k) /\ last' = last /\ store' = store /\ writes' = writes
      /\ bulk' = bulk /\ next' = next /\ misses' = misses /\ sent' = sent /\ worker' = worker
      /\ cancelled' = cancelled /\ firstErr' = firstErr
  BY <1>0, Shapes DEF Invalidate, WriteCall, ext
<1>2. records' = [j \in DOMAIN records |->
         IF j = k THEN [records[j] EXCEPT !.overlaps = TRUE] ELSE records[j]]
  BY DEF Invalidate
<1>3. /\ call' = [d \in Calls |-> call'[d]]
      /\ call'[c] = [call[c] EXCEPT !.at = "done"]
      /\ \A d \in Calls : d # c /\ call[d].at = "fill" /\ call[d].key = k
                            => call'[d] = [call[d] EXCEPT !.overlaps = TRUE]
      /\ \A d \in Calls : d # c /\ ~(call[d].at = "fill" /\ call[d].key = k) => call'[d] = call[d]
  BY DEF Invalidate
<1>4. call'[c] \in WriteCall /\ call'[c].at = "done"
  <2>1. call[c] \in WriteCall /\ call'[c] = [call[c] EXCEPT !.at = "done"]
    BY <1>1, <1>3
  <2> QED BY <2>1 DEF WriteCall
<1> HIDE DEF k
<1>5. ASSUME NEW d \in Calls, d # c, call[d].at = "fill", call[d].key = k
      PROVE  call'[d] \in GetCall /\ call'[d].overlaps /\ call'[d].at = "fill" /\ call'[d].key = k
  <2>1. call[d] \in GetCall
    BY <1>0, <1>5, Shapes
  <2>2. call'[d] = [call[d] EXCEPT !.overlaps = TRUE]
    BY <1>3, <1>5
  <2>3. call[d].at = "fill" /\ call[d].key = k
    BY <1>5
  <2> QED BY <2>1, <2>2, <2>3 DEF GetCall
<1>6. CallTypes'
  <2>1. ASSUME NEW d \in Calls PROVE call'[d] \in GetCall \cup WriteCall \cup NoCall
    BY <1>0, <1>3, <1>4, <1>5 DEF CallTypes
  <2> QED BY <2>1, <1>0, <1>1, <1>3 DEF CallTypes
<1>7. ASSUME NEW j \in Unsettled, j # k PROVE j \in Unsettled'
  <2>1. PICK d \in Calls : call[d].at \in {"invalidate", "failed"} /\ call[d].key = j
    BY DEF Unsettled
  <2>2. d # c
    BY <2>1, <1>7 DEF k
  <2>3. call'[d] = call[d]
    BY <2>1, <2>2, <1>3
  <2> QED BY <2>1, <2>3 DEF Unsettled
<1>8. FillInv'
  <2> SUFFICES ASSUME NEW d \in Calls, call'[d].at = "fill"
               PROVE  \/ call'[d].record = store'[call'[d].key]
                      \/ call'[d].overlaps \/ call'[d].key \in Unsettled'
    BY DEF FillInv, Fresh
  <2>1. d # c
    BY <1>4
  <2>2. CASE call[d].at = "fill" /\ call[d].key = k
    BY <2>1, <2>2, <1>5
  <2>3. CASE ~(call[d].at = "fill" /\ call[d].key = k)
    <3>1. call'[d] = call[d] /\ call[d].key # k
      BY <2>1, <2>3, <1>3
    <3>2. call[d].record = store[call[d].key] \/ call[d].overlaps \/ call[d].key \in Unsettled
      BY <3>1, <1>0 DEF FillInv, Fresh
    <3> QED BY <3>1, <3>2, <1>1, <1>7
  <2> QED BY <2>2, <2>3
<1>9. Accounts' /\ \A i \in 1..Len(order') : order'[i].key # k /\ OneOf(order'[i], order)
  BY <1>0, <1>1, DeleteKeeps
<1>10. CacheInv'
  <2> SUFFICES ASSUME NEW i \in 1..Len(order')
               PROVE  \/ order'[i].record = store'[order'[i].key]
                      \/ order'[i].overlaps \/ order'[i].key \in Unsettled'
    BY DEF CacheInv, Fresh
  <2>1. PICK j \in 1..Len(order) : order'[i] = order[j]
    BY <1>9 DEF OneOf
  <2>2. order[j].record = store[order[j].key] \/ order[j].overlaps \/ order[j].key \in Unsettled
    BY <1>0 DEF CacheInv, Fresh
  <2> QED BY <2>1, <2>2, <1>1, <1>7, <1>9
<1>11. /\ DOMAIN records' = DOMAIN records
       /\ \A j \in DOMAIN records : j # k => records'[j] = records[j]
       /\ k \in DOMAIN records => records'[k] = [records[k] EXCEPT !.overlaps = TRUE]
  BY <1>2
<1>12. /\ \A j \in DOMAIN records : records'[j] \in [record : Record, overlaps : BOOLEAN]
       /\ k \in DOMAIN records => records'[k].overlaps
  <2>1. \A j \in DOMAIN records : records[j] \in [record : Record, overlaps : BOOLEAN]
    BY <1>0 DEF PoolTypes
  <2> QED BY <2>1, <1>11
<1>13. PoolTypes'
  <2>1. records' \in [DOMAIN records' -> [record : Record, overlaps : BOOLEAN]]
    BY <1>2, <1>11, <1>12
  <2> QED BY <2>1, <1>0, <1>1, <1>11 DEF PoolTypes
<1>14. BulkInv'
  BY <1>0, <1>1, <1>11 DEF BulkInv, LookedUp, Missed
<1>15. ASSUME bulk # "done", NEW i \in 1..sent
       PROVE  firstErr \/ Reading(misses[i]) \/
                (/\ misses[i] \in DOMAIN records'
                 /\ \/ records'[misses[i]].record = store'[misses[i]]
                    \/ records'[misses[i]].overlaps \/ misses[i] \in Unsettled')
  <2>1. firstErr \/ Reading(misses[i]) \/ Got(misses[i])
    BY <1>0, <1>15 DEF PoolInv
  <2>2. CASE misses[i] = k /\ Got(misses[i])
    BY <2>2, <1>11, <1>12 DEF Got
  <2>3. CASE misses[i] # k /\ Got(misses[i])
    BY <2>3, <1>1, <1>7, <1>11 DEF Got, Fresh
  <2> QED BY <2>1, <2>2, <2>3
<1>16. PoolInv'
  BY <1>0, <1>1, <1>15 DEF PoolInv, Reading, Got, Fresh
<1> QED BY <1>6, <1>8, <1>9, <1>10, <1>13, <1>14, <1>16 DEF IInv

-----------------------------------------------------------------------------
(* The bulk get.                                                           *)

\* A record joins the found ones.
LEMMA WithTypes ==
  ASSUME PoolTypes, NEW k \in Keys, NEW v \in [record : Record, overlaps : BOOLEAN],
         records' = With(records, k, v)
  PROVE  /\ DOMAIN records' = DOMAIN records \cup {k} /\ DOMAIN records' \subseteq Keys
         /\ records'[k] = v /\ \A j \in DOMAIN records : j # k => records'[j] = records[j]
         /\ records' \in [DOMAIN records' -> [record : Record, overlaps : BOOLEAN]]
<1>1. /\ DOMAIN records \subseteq Keys
      /\ \A j \in DOMAIN records : records[j] \in [record : Record, overlaps : BOOLEAN]
  BY DEF PoolTypes
<1> DEFINE R == [record : Record, overlaps : BOOLEAN]
<1> HIDE DEF R
<1> SUFFICES ASSUME \A j \in DOMAIN records : records[j] \in R, v \in R
             PROVE  /\ DOMAIN records' = DOMAIN records \cup {k} /\ DOMAIN records' \subseteq Keys
                    /\ records'[k] = v /\ \A j \in DOMAIN records : j # k => records'[j] = records[j]
                    /\ records' \in [DOMAIN records' -> R]
  BY <1>1 DEF R
<1>2. records' = [j \in DOMAIN records \cup {k} |-> IF j = k THEN v ELSE records[j]]
  BY DEF With
<1> QED BY <1>1, <1>2

\* Steps of the bulk get that change neither the cache nor what it has found.
LEMMA BulkMoves ==
  ASSUME IInv, UNCHANGED <<cache, last, call, ext>>
  PROVE  /\ CallTypes' /\ FillInv' /\ Accounts' /\ CacheInv'
         /\ UNCHANGED records => \A k : Got(k) => k \in DOMAIN records' /\
              (records'[k].record = store'[k] \/ records'[k].overlaps \/ k \in Unsettled')
<1>0. Accounts /\ CacheInv /\ CallTypes /\ FillInv
  BY DEF IInv
<1>1. CallTypes' /\ NothingSettles /\ FillInv' /\ Unsettled' = Unsettled /\ store' = store
  BY <1>0, CallsStay
<1>2. Accounts' /\ CacheInv'
  BY <1>0, <1>1, CacheStays
<1> QED BY <1>1, <1>2 DEF Got, Fresh

\* The bulk get starts.
LEMMA GetManyKeeps ==
  ASSUME IInv, GetMany PROVE IInv'
<1>1. UNCHANGED <<cache, last, call, ext>> /\ UNCHANGED records
  BY DEF GetMany
<1>2. CallTypes' /\ FillInv' /\ Accounts' /\ CacheInv'
  BY <1>1, BulkMoves
<1>3. /\ bulk = "new" /\ bulk' = "lookup" /\ next' = next /\ misses' = misses /\ sent' = sent
      /\ worker' = worker /\ cancelled' = cancelled /\ firstErr' = firstErr /\ records' = records
  BY DEF GetMany
<1>4. PoolTypes' /\ BulkInv'
  <2>1. Len(BulkKeys) \in Nat /\ next = 1
    BY <1>3, KVAssumption DEF IInv, BulkInv
  <2> QED BY <2>1, <1>3 DEF IInv, PoolTypes, BulkInv
<1>5. PoolInv'
  <2>1. sent' = 0
    BY <1>3 DEF IInv, PoolInv
  <2> QED BY <1>3, <2>1 DEF IInv, PoolInv
<1> QED BY <1>2, <1>4, <1>5 DEF IInv

\* A key of the bulk get is found in the cache or becomes a miss.
LEMMA BulkLookupKeeps ==
  ASSUME IInv, BulkLookup PROVE IInv'
<1>0. Accounts /\ CacheInv /\ CallTypes /\ FillInv /\ PoolTypes /\ PoolInv /\ BulkInv
  BY DEF IInv
<1> DEFINE k == BulkKeys[next]
<1>1. /\ bulk = "lookup" /\ bulk' = "lookup" /\ next <= Len(BulkKeys) /\ next' = next + 1
      /\ UNCHANGED <<last, call, ext>> /\ sent' = sent
      /\ worker' = worker /\ cancelled' = cancelled /\ firstErr' = firstErr
  BY DEF BulkLookup
<1>2. CallTypes' /\ NothingSettles /\ FillInv' /\ Unsettled' = Unsettled /\ store' = store
  BY <1>0, <1>1, CallsStay
<1>3. k \in Keys /\ next \in 1..Len(BulkKeys) /\ Len(BulkKeys) \in Nat
  BY <1>0, <1>1, KVAssumption DEF PoolTypes
<1>4. CacheHit(k) \/ CacheMiss(k)
  BY DEF BulkLookup
<1>5. Accounts' /\ \A i \in 1..Len(order') : OneOf(order'[i], order)
  BY <1>0, <1>4, HitKeeps, DeleteKeeps
<1>6. CacheInv'
  BY <1>0, <1>2, <1>5, CacheFresh
<1>7. /\ DOMAIN records \subseteq DOMAIN records' /\ DOMAIN records' \subseteq Keys
      /\ records' \in [DOMAIN records' -> [record : Record, overlaps : BOOLEAN]]
      /\ misses' \in Seq(Keys) /\ Len(misses) \in Nat /\ Len(misses) <= Len(misses')
      /\ \A m \in 1..Len(misses) : misses'[m] = misses[m]
      /\ k \in DOMAIN records' \/ \E m \in 1..Len(misses') : misses'[m] = k
  <2>0. misses \in Seq(Keys) /\ DOMAIN misses = 1..Len(misses) /\ Len(misses) \in Nat
    BY <1>0 DEF PoolTypes
  <2>1. CASE CacheHit(k) /\ records' = With(records, k, FromCache(k)) /\ misses' = misses
    <3>1. Cached(k)
      BY <2>1 DEF CacheHit
    <3>2. Entry(k) \in CacheEntry
      BY <3>1, <1>0, Removes DEF Accounts
    <3>3. FromCache(k) \in [record : Record, overlaps : BOOLEAN]
      BY <3>2 DEF FromCache, CacheEntry
    <3>4. /\ DOMAIN records' = DOMAIN records \cup {k} /\ DOMAIN records' \subseteq Keys
          /\ records' \in [DOMAIN records' -> [record : Record, overlaps : BOOLEAN]]
      BY <2>1, <3>3, <1>0, <1>3, WithTypes
    <3> HIDE DEF k
    <3> QED BY <2>0, <2>1, <3>4
  <2>2. CASE /\ records' = records
             /\ misses' = IF \E i \in DOMAIN misses : misses[i] = k THEN misses ELSE Append(misses, k)
    <3> HIDE DEF k
    <3>1. records' = records /\ DOMAIN records \subseteq Keys
          /\ records \in [DOMAIN records -> [record : Record, overlaps : BOOLEAN]]
      BY <2>2, <1>0 DEF PoolTypes
    <3>2. CASE \E i \in DOMAIN misses : misses[i] = k
      <4>1. misses' = misses
        BY <3>2, <2>2
      <4> QED BY <3>1, <3>2, <4>1, <2>0
    <3>3. CASE ~\E i \in DOMAIN misses : misses[i] = k
      <4>1. misses' = Append(misses, k)
        BY <3>3, <2>2
      <4>2. /\ misses' \in Seq(Keys) /\ Len(misses') = Len(misses) + 1
            /\ misses'[Len(misses) + 1] = k /\ \A m \in 1..Len(misses) : misses'[m] = misses[m]
        BY <4>1, <2>0, <1>3
      <4>3. Len(misses) + 1 \in 1..Len(misses')
        BY <4>2, <2>0
      <4> QED BY <3>1, <4>2, <4>3, <2>0
    <3> QED BY <3>2, <3>3
  <2> QED BY <2>1, <2>2 DEF BulkLookup
<1> HIDE DEF k
<1>8. sent = 0
  BY <1>0, <1>1 DEF PoolInv
<1>9. PoolTypes'
  <2>1. sent' \in 0..Len(misses')
    BY <1>1, <1>7, <1>8
  <2> QED BY <2>1, <1>0, <1>1, <1>7 DEF PoolTypes
<1>10. PoolInv'
  BY <1>0, <1>1, <1>8 DEF PoolInv
<1>11. ASSUME NEW i \in 1..next PROVE LookedUp(i)'
  <2>1. CASE i = next
    BY <2>1, <1>7 DEF LookedUp, Missed, k
  <2>2. CASE i # next
    <3>1. i \in 1..(next - 1)
      BY <2>2, <1>3
    <3>2. LookedUp(i)
      BY <3>1, <1>0, <1>1 DEF BulkInv
    <3>3. \A m \in 1..Len(misses) : m \in 1..Len(misses')
      BY <1>7
    <3> QED BY <3>2, <3>3, <1>7 DEF LookedUp, Missed
  <2> QED BY <2>1, <2>2
<1>12. BulkInv'
  <2>1. next' <= Len(BulkKeys) + 1 /\ next' - 1 = next
    BY <1>1, <1>3
  <2> QED BY <2>1, <1>1, <1>11 DEF BulkInv
<1> QED BY <1>2, <1>5, <1>6, <1>9, <1>10, <1>12 DEF IInv

\* After the last lookup every key is found or a miss.
LEMMA StartWorkersKeeps ==
  ASSUME IInv, StartWorkers PROVE IInv'
<1>1. UNCHANGED <<cache, last, call, ext>> /\ UNCHANGED records
  BY DEF StartWorkers
<1>2. CallTypes' /\ FillInv' /\ Accounts' /\ CacheInv'
  BY <1>1, BulkMoves
<1>3. /\ bulk = "lookup" /\ bulk' = "produce" /\ next > Len(BulkKeys)
      /\ next' = next /\ misses' = misses /\ sent' = sent
      /\ cancelled' = cancelled /\ firstErr' = firstErr /\ records' = records
  BY DEF StartWorkers
<1>4. worker' \in [Workers -> [at : {"none", "idle", "done"}]]
  BY DEF StartWorkers
<1>5. PoolTypes'
  BY <1>3, <1>4 DEF IInv, PoolTypes
<1>6. PoolInv'
  <2>1. sent' = 0
    BY <1>3 DEF IInv, PoolInv
  <2> QED BY <1>3, <2>1 DEF IInv, PoolInv
<1>7. BulkInv'
  <2>1. Len(BulkKeys) \in Nat /\ next - 1 = Len(BulkKeys)
    BY <1>3, KVAssumption DEF IInv, BulkInv, PoolTypes
  <2>2. \A i \in 1..Len(BulkKeys) : LookedUp(i)
    BY <1>3, <2>1 DEF IInv, BulkInv
  <2> QED BY <1>3, <2>2 DEF BulkInv, LookedUp, Missed
<1> QED BY <1>2, <1>5, <1>6, <1>7 DEF IInv

\* The next miss is being read.
LEMMA ProduceKeeps ==
  ASSUME IInv, NEW w \in Workers, Produce(w) PROVE IInv'
<1>0. PoolTypes /\ PoolInv /\ BulkInv
  BY DEF IInv
<1>1. UNCHANGED <<cache, last, call, ext>> /\ UNCHANGED records
  BY DEF Produce
<1>2. /\ CallTypes' /\ FillInv' /\ Accounts' /\ CacheInv'
      /\ \A k : Got(k) => k \in DOMAIN records' /\
           (records'[k].record = store'[k] \/ records'[k].overlaps \/ k \in Unsettled')
  BY <1>1, BulkMoves
<1> DEFINE k == misses[sent + 1]
<1>3. /\ bulk = "produce" /\ bulk' = bulk /\ sent < Len(misses) /\ sent' = sent + 1
      /\ worker[w].at = "idle" /\ next' = next /\ misses' = misses
      /\ cancelled' = cancelled /\ firstErr' = firstErr /\ records' = records
      /\ worker' = [worker EXCEPT ![w] = [at |-> "read", key |-> k]]
  BY DEF Produce
<1>4. sent + 1 \in 1..Len(misses) /\ k \in Keys /\ sent' \in 0..Len(misses') /\ sent \in Nat
  BY <1>0, <1>3 DEF PoolTypes
<1>5. worker'[w] = [at |-> "read", key |-> k] /\ \A v \in Workers : v # w => worker'[v] = worker[v]
  BY <1>0, <1>3 DEF PoolTypes
<1>6. PoolTypes'
  <2>1. [at |-> "read", key |-> k] \in [at : {"read"}, key : Keys]
    BY <1>4
  <2> HIDE DEF k
  <2>2. worker' \in [Workers -> [at : {"read"}, key : Keys] \cup [at : {"none", "idle", "done"}]]
    BY <2>1, <1>0, <1>3 DEF PoolTypes
  <2> QED BY <2>2, <1>0, <1>3, <1>4 DEF PoolTypes
<1>7. ASSUME NEW i \in 1..sent' PROVE firstErr' \/ Reading(misses[i])' \/ Got(misses[i])'
  <2>1. CASE i = sent + 1
    BY <2>1, <1>3, <1>5 DEF Reading
  <2>2. CASE i # sent + 1
    <3>1. i \in 1..sent
      BY <2>2, <1>3, <1>4
    <3>2. firstErr \/ Reading(misses[i]) \/ Got(misses[i])
      BY <3>1, <1>0, <1>3 DEF PoolInv
    <3>3. CASE Reading(misses[i])
      <4>1. PICK v \in Workers : worker[v].at = "read" /\ worker[v].key = misses[i]
        BY <3>3 DEF Reading
      <4>2. v # w
        BY <4>1, <1>3
      <4> QED BY <4>1, <4>2, <1>3, <1>5 DEF Reading
    <3>4. CASE Got(misses[i])
      BY <3>4, <1>2, <1>3 DEF Got, Fresh
    <3> QED BY <3>2, <3>3, <3>4, <1>3
  <2> QED BY <2>1, <2>2
<1>8. PoolInv'
  BY <1>0, <1>3, <1>7 DEF PoolInv
<1>9. BulkInv'
  BY <1>0, <1>3 DEF BulkInv, LookedUp, Missed
<1> QED BY <1>2, <1>6, <1>8, <1>9 DEF IInv

\* The producer stops early only after an error.
LEMMA CloseJobsKeeps ==
  ASSUME IInv, CloseJobs PROVE IInv'
<1>0. PoolTypes /\ PoolInv /\ BulkInv
  BY DEF IInv
<1>1. UNCHANGED <<cache, last, call, ext>> /\ UNCHANGED records
  BY DEF CloseJobs
<1>2. /\ CallTypes' /\ FillInv' /\ Accounts' /\ CacheInv'
      /\ \A k : Got(k) => k \in DOMAIN records' /\
           (records'[k].record = store'[k] \/ records'[k].overlaps \/ k \in Unsettled')
  BY <1>1, BulkMoves
<1>3. /\ bulk = "produce" /\ bulk' = "wait" /\ (sent = Len(misses) \/ cancelled)
      /\ next' = next /\ misses' = misses /\ sent' = sent /\ worker' = worker
      /\ cancelled' = cancelled /\ firstErr' = firstErr /\ records' = records
  BY DEF CloseJobs
<1>4. PoolTypes' /\ BulkInv'
  BY <1>0, <1>3 DEF PoolTypes, BulkInv, LookedUp, Missed
<1>5. PoolInv'
  BY <1>0, <1>2, <1>3 DEF PoolInv, Reading, Got, Fresh
<1> QED BY <1>2, <1>4, <1>5 DEF IInv

\* Without an error no worker reads any more and nothing is left to read.
LEMMA PoolReturnsKeeps ==
  ASSUME IInv, PoolReturns PROVE IInv'
<1>0. PoolTypes /\ PoolInv /\ BulkInv
  BY DEF IInv
<1>1. UNCHANGED <<cache, last, call, ext>> /\ UNCHANGED records
  BY DEF PoolReturns
<1>2. /\ CallTypes' /\ FillInv' /\ Accounts' /\ CacheInv'
      /\ \A k : Got(k) => k \in DOMAIN records' /\
           (records'[k].record = store'[k] \/ records'[k].overlaps \/ k \in Unsettled')
  BY <1>1, BulkMoves
<1>3. /\ bulk = "wait" /\ bulk' = (IF firstErr THEN "done" ELSE "fill")
      /\ \A w \in Workers : worker[w].at # "read"
      /\ next' = 1 /\ misses' = misses /\ sent' = sent /\ worker' = worker
      /\ cancelled' = cancelled /\ firstErr' = firstErr /\ records' = records
  BY DEF PoolReturns
<1>4. PoolTypes' /\ BulkInv'
  BY <1>0, <1>3 DEF PoolTypes, BulkInv, LookedUp, Missed
<1>5. PoolInv'
  BY <1>0, <1>2, <1>3 DEF PoolInv, Reading, Got, Fresh
<1> QED BY <1>2, <1>4, <1>5 DEF IInv

\* At the end of the pool every miss has been read.
LEMMA AllRead ==
  ASSUME IInv, bulk = "fill", NEW i \in 1..Len(misses)
  PROVE  misses[i] \in Keys /\ Got(misses[i])
<1>1. sent = Len(misses) /\ ~firstErr /\ \A w \in Workers : worker[w].at # "read"
  BY DEF IInv, PoolInv
<1>2. misses[i] \in Keys
  BY DEF IInv, PoolTypes
<1> QED BY <1>1, <1>2 DEF IInv, PoolInv, Reading

\* A miss is cached as it was read.
LEMMA BulkFillKeeps ==
  ASSUME IInv, BulkFill PROVE IInv'
<1>0. Accounts /\ CacheInv /\ CallTypes /\ FillInv /\ PoolTypes /\ PoolInv /\ BulkInv
  BY DEF IInv
<1>1. /\ bulk = "fill" /\ bulk' = bulk /\ next <= Len(misses) /\ next' = next + 1
      /\ UNCHANGED <<last, call, ext>> /\ sent' = sent /\ misses' = misses
      /\ worker' = worker /\ cancelled' = cancelled /\ firstErr' = firstErr /\ records' = records
  BY DEF BulkFill
<1>2. CallTypes' /\ NothingSettles /\ FillInv' /\ Unsettled' = Unsettled /\ store' = store
  BY <1>0, <1>1, CallsStay
<1>3. next \in 1..Len(misses) /\ next' \in Nat \ {0}
  BY <1>0, <1>1 DEF PoolTypes
<1> DEFINE k == misses[next]
           rec == records[k].record
           ov == records[k].overlaps
<1>4. k \in Keys /\ k \in DOMAIN records /\ (rec = store[k] \/ ov \/ k \in Unsettled)
  BY <1>1, <1>3, AllRead DEF Got, Fresh
<1>5. rec \in Record /\ ov \in BOOLEAN
  <2>1. records[k] \in [record : Record, overlaps : BOOLEAN]
    BY <1>0, <1>4 DEF PoolTypes
  <2> QED BY <2>1
<1>6. CachePut(k, rec, ov)
  BY DEF BulkFill
<1> HIDE DEF k, rec, ov
<1>7. /\ Accounts'
      /\ \A i \in 1..Len(order') : \/ OneOf(order'[i], order)
                                   \/ order'[i] = [key |-> k, record |-> rec, overlaps |-> ov]
  BY <1>0, <1>4, <1>5, <1>6, PutKeeps
<1>8. CacheInv'
  <2>1. \A i \in 1..Len(order') : \/ OneOf(order'[i], order)
                                  \/ order'[i].record = store'[order'[i].key]
                                  \/ order'[i].overlaps \/ order'[i].key \in Unsettled'
    BY <1>2, <1>4, <1>7
  <2> QED BY <2>1, <1>0, <1>2, CacheFresh
<1>9. PoolTypes' /\ BulkInv'
  BY <1>0, <1>1, <1>3 DEF PoolTypes, BulkInv, LookedUp, Missed
<1>10. PoolInv'
  BY <1>0, <1>1, <1>2 DEF PoolInv, Reading, Got, Fresh
<1> QED BY <1>2, <1>7, <1>8, <1>9, <1>10 DEF IInv

\* Then every key has its record.
LEMMA FilledComplete ==
  ASSUME IInv, bulk = "fill", NEW i \in 1..Len(BulkKeys)
  PROVE  BulkKeys[i] \in DOMAIN records
<1>1. LookedUp(i)
  BY DEF IInv, BulkInv
<1>2. \A m \in 1..Len(misses) : misses[m] \in DOMAIN records
  BY AllRead DEF Got
<1> QED BY <1>1, <1>2 DEF LookedUp, Missed

\* The bulk get returns.
LEMMA BulkFilledKeeps ==
  ASSUME IInv, BulkFilled PROVE IInv'
<1>0. PoolTypes /\ PoolInv /\ BulkInv
  BY DEF IInv
<1>1. UNCHANGED <<cache, last, call, ext>> /\ UNCHANGED records
  BY DEF BulkFilled
<1>2. CallTypes' /\ FillInv' /\ Accounts' /\ CacheInv'
  BY <1>1, BulkMoves
<1>3. /\ bulk = "fill" /\ bulk' = "done" /\ firstErr' \in BOOLEAN
      /\ next' = next /\ misses' = misses /\ sent' = sent /\ worker' = worker
      /\ cancelled' = cancelled /\ records' = records
  BY DEF BulkFilled
<1>4. PoolTypes'
  BY <1>0, <1>3 DEF PoolTypes
<1>5. BulkInv'
  BY <1>3, FilledComplete DEF BulkInv
<1>6. PoolInv'
  BY <1>0, <1>3 DEF PoolInv
<1> QED BY <1>2, <1>4, <1>5, <1>6 DEF IInv

\* A worker finds a record, or fails for all.
LEMMA WorkerReadKeeps ==
  ASSUME IInv, NEW w \in Workers, WorkerRead(w) PROVE IInv'
<1>0. Accounts /\ CacheInv /\ CallTypes /\ FillInv /\ PoolTypes /\ PoolInv /\ BulkInv
  BY DEF IInv
<1>1. /\ UNCHANGED cache /\ UNCHANGED <<last, call, ext>> /\ worker[w].at = "read"
      /\ bulk' = bulk /\ next' = next /\ misses' = misses /\ sent' = sent
  BY DEF WorkerRead
<1>2. CallTypes' /\ NothingSettles /\ FillInv' /\ Unsettled' = Unsettled /\ store' = store
  BY <1>0, <1>1, CallsStay
<1>3. Accounts' /\ CacheInv'
  BY <1>0, <1>1, <1>2, CacheStays
<1>4. PICK at \in {"idle", "done"} : worker' = [worker EXCEPT ![w] = [at |-> at]]
  BY DEF WorkerRead
<1>5. worker'[w] = [at |-> at] /\ \A v \in Workers : v # w => worker'[v] = worker[v]
  BY <1>0, <1>4 DEF PoolTypes
<1>6. worker' \in [Workers -> [at : {"read"}, key : Keys] \cup [at : {"none", "idle", "done"}]]
  <2>1. [at |-> at] \in [at : {"none", "idle", "done"}]
    BY <1>4
  <2> QED BY <2>1, <1>0, <1>4 DEF PoolTypes
<1>7. bulk # "fill"
  BY <1>0, <1>1 DEF PoolInv
<1>8. CASE /\ records' = With(records, worker[w].key, FromStore(worker[w].key))
           /\ UNCHANGED <<cancelled, firstErr>>
  <2> DEFINE k == worker[w].key
  <2>1. k \in Keys
    <3>1. worker[w] \in [at : {"read"}, key : Keys] \/ worker[w] \in [at : {"none", "idle", "done"}]
      BY <1>0 DEF PoolTypes
    <3> QED BY <3>1, <1>1
  <2>2. store[k] \in Record
    BY <2>1, <1>0 DEF CallTypes
  <2>3. FromStore(k) \in [record : Record, overlaps : BOOLEAN] /\ FromStore(k).record = store[k]
    BY <2>2 DEF FromStore
  <2>4. /\ DOMAIN records' = DOMAIN records \cup {k} /\ DOMAIN records' \subseteq Keys
        /\ records'[k] = FromStore(k) /\ \A j \in DOMAIN records : j # k => records'[j] = records[j]
        /\ records' \in [DOMAIN records' -> [record : Record, overlaps : BOOLEAN]]
    BY <2>1, <2>3, <1>0, <1>8, WithTypes
  <2>5. PoolTypes'
    BY <2>4, <1>0, <1>1, <1>6, <1>8 DEF PoolTypes
  <2>6. BulkInv'
    BY <2>4, <1>0, <1>1, <1>8 DEF BulkInv, LookedUp, Missed
  <2>7. ASSUME bulk # "done", NEW i \in 1..sent
        PROVE  firstErr' \/ Reading(misses[i])' \/ Got(misses[i])'
    <3>1. firstErr \/ Reading(misses[i]) \/ Got(misses[i])
      BY <2>7, <1>0 DEF PoolInv
    <3>2. CASE misses[i] = k
      <4>1. records'[k].record = store'[k] /\ k \in DOMAIN records'
        BY <2>3, <2>4, <1>2
      <4> HIDE DEF k
      <4> QED BY <3>2, <4>1, <1>1 DEF Got, Fresh
    <3>3. CASE misses[i] # k /\ Reading(misses[i])
      <4>1. PICK v \in Workers : worker[v].at = "read" /\ worker[v].key = misses[i]
        BY <3>3 DEF Reading
      <4>2. v # w
        BY <3>3, <4>1
      <4> QED BY <4>1, <4>2, <1>1, <1>5 DEF Reading
    <3>4. CASE misses[i] # k /\ Got(misses[i])
      BY <3>4, <2>4, <1>1, <1>2 DEF Got, Fresh
    <3> QED BY <3>1, <3>2, <3>3, <3>4, <1>8
  <2>8. PoolInv'
    BY <2>7, <1>0, <1>1, <1>7, <1>8 DEF PoolInv
  <2> QED BY <2>5, <2>6, <2>8, <1>2, <1>3 DEF IInv
<1>9. CASE records' = records /\ cancelled' = TRUE /\ firstErr' = TRUE
  <2>1. PoolTypes'
    BY <1>0, <1>1, <1>6, <1>9 DEF PoolTypes
  <2>2. BulkInv'
    BY <1>0, <1>1, <1>9 DEF BulkInv, LookedUp, Missed
  <2>3. PoolInv'
    BY <1>0, <1>1, <1>7, <1>9 DEF PoolInv
  <2> QED BY <2>1, <2>2, <2>3, <1>2, <1>3 DEF IInv
<1> QED BY <1>8, <1>9 DEF WorkerRead

\* An idle worker ends.
LEMMA WorkerEndsKeeps ==
  ASSUME IInv, NEW w \in Workers, WorkerEnds(w) PROVE IInv'
<1>0. PoolTypes /\ PoolInv /\ BulkInv
  BY DEF IInv
<1>1. UNCHANGED <<cache, last, call, ext>> /\ UNCHANGED records
  BY DEF WorkerEnds
<1>2. /\ CallTypes' /\ FillInv' /\ Accounts' /\ CacheInv'
      /\ \A k : Got(k) => k \in DOMAIN records' /\
           (records'[k].record = store'[k] \/ records'[k].overlaps \/ k \in Unsettled')
  BY <1>1, BulkMoves
<1>3. /\ bulk = "wait" /\ bulk' = bulk /\ worker[w].at = "idle"
      /\ next' = next /\ misses' = misses /\ sent' = sent
      /\ worker' = [worker EXCEPT ![w] = [at |-> "done"]]
      /\ cancelled' = cancelled /\ firstErr' = firstErr /\ records' = records
  BY DEF WorkerEnds
<1>4. worker'[w] = [at |-> "done"] /\ \A v \in Workers : v # w => worker'[v] = worker[v]
  BY <1>0, <1>3 DEF PoolTypes
<1>5. PoolTypes'
  <2>1. [at |-> "done"] \in [at : {"none", "idle", "done"}]
    OBVIOUS
  <2>2. worker' \in [Workers -> [at : {"read"}, key : Keys] \cup [at : {"none", "idle", "done"}]]
    BY <2>1, <1>0, <1>3 DEF PoolTypes
  <2> QED BY <2>2, <1>0, <1>3 DEF PoolTypes
<1>6. BulkInv'
  BY <1>0, <1>3 DEF BulkInv, LookedUp, Missed
<1>7. \A k : Reading(k) => \E v \in Workers : worker'[v].at = "read" /\ worker'[v].key = k
  BY <1>3, <1>4 DEF Reading
<1>8. PoolInv'
  BY <1>0, <1>2, <1>3, <1>7 DEF PoolInv, Reading, Got, Fresh
<1> QED BY <1>2, <1>5, <1>6, <1>8 DEF IInv

-----------------------------------------------------------------------------
(* The theorems.                                                           *)

\* The initial states.
LEMMA InitHolds == Init => IInv
<1> SUFFICES ASSUME Init PROVE IInv
  OBVIOUS
<1> USE DEF Init
<1>0. Missing \in Record
  BY DEF Missing, Record
<1>1. CallTypes
  <2>1. [at |-> "new"] \in NoCall
    BY DEF NoCall
  <2> QED BY <1>0, <2>1 DEF CallTypes
<1>2. PoolTypes
  <2>1. worker \in [Workers -> [at : {"none", "idle", "done"}]]
    OBVIOUS
  <2>2. DOMAIN records = {} /\ records \in [{} -> [record : Record, overlaps : BOOLEAN]]
    OBVIOUS
  <2>3. misses \in Seq(Keys) /\ sent \in 0..Len(misses)
    OBVIOUS
  <2>4. DOMAIN records \subseteq Keys /\ records \in [DOMAIN records -> [record : Record, overlaps : BOOLEAN]]
    BY <2>2
  <2>5. worker \in [Workers -> [at : {"read"}, key : Keys] \cup [at : {"none", "idle", "done"}]]
    BY <2>1
  <2>6. /\ bulk \in {"new", "lookup", "produce", "wait", "fill", "done"}
        /\ next \in Nat \ {0}
    OBVIOUS
  <2>7. cancelled \in BOOLEAN
    OBVIOUS
  <2>8. firstErr \in BOOLEAN
    OBVIOUS
  <2> HIDE DEF Init
  <2> QED BY <2>3, <2>4, <2>5, <2>6, <2>7, <2>8 DEF PoolTypes
<1>3. Accounts
  <2>1. Sound(order)
    BY DEF Sound
  <2>2. 1..Len(order) = {}
    OBVIOUS
  <2>3. Bytes(order, {}) = {}
    BY DEF Bytes
  <2>4. Size(order) = 0
    BY <2>2, <2>3, FS_EmptySet DEF Size, Weight
  <2> QED BY <2>1, <2>4, KVAssumption DEF Accounts
<1>4. CacheInv /\ FillInv
  BY DEF CacheInv, FillInv
<1>5. PoolInv
  BY DEF PoolInv
<1>6. BulkInv
  BY DEF BulkInv
<1> QED BY <1>1, <1>2, <1>3, <1>4, <1>5, <1>6 DEF IInv

\* A step that changes nothing.
LEMMA StutterKeeps ==
  ASSUME IInv, UNCHANGED vars PROVE IInv'
<1>0. UNCHANGED <<cache, last, call, bulkVars, ext>>
  BY DEF vars
<1>1. CallTypes' /\ NothingSettles /\ FillInv'
  BY <1>0, CallsStay DEF IInv
<1>2. Accounts' /\ CacheInv'
  BY <1>0, <1>1, CacheStays DEF IInv
<1>3. PoolTypes' /\ PoolInv' /\ BulkInv'
  BY <1>0, <1>1, PoolStays DEF IInv
<1> QED BY <1>1, <1>2, <1>3 DEF IInv

\* Every step.
LEMMA StepHolds == IInv /\ [Next]_vars => IInv'
<1> SUFFICES ASSUME IInv, [Next]_vars PROVE IInv'
  OBVIOUS
<1>1. CASE \E c \in Calls, k \in Keys : Get(c, k) \/ Put(c, k) \/ Delete(c, k)
  BY <1>1, StartsKeep
<1>2. CASE \E c \in Calls : CallStep(c)
  BY <1>2, LookupKeeps, ReadKeeps, FillKeeps, WriteKeeps, InvalidateKeeps DEF CallStep
<1>3. CASE GetMany
  BY <1>3, GetManyKeeps
<1>4. CASE BulkStep
  BY <1>4, BulkLookupKeeps, StartWorkersKeeps, CloseJobsKeeps, PoolReturnsKeeps, BulkFillKeeps,
     BulkFilledKeeps, ProduceKeeps DEF BulkStep
<1>5. CASE \E w \in Workers : WorkerStep(w)
  BY <1>5, WorkerReadKeeps, WorkerEndsKeeps DEF WorkerStep
<1>6. CASE UNCHANGED vars
  BY <1>6, StutterKeeps
<1> QED BY <1>1, <1>2, <1>3, <1>4, <1>5, <1>6 DEF Next

\* The inductive invariant of the binding: its types and accounts, and that whatever
\* a goroutine carries from the store to the cache is fresh, marked or unsettled.
THEOREM Inductive == Spec => []IInv
BY InitHolds, StepHolds, PTL DEF Spec

\* Whatever sequence of get, put, delete, eviction and expiry lruCache has seen,
\* cache.size is the size of its entries, within the capacity, one entry per key.
THEOREM CacheIsAccounted == Spec => []CacheAccounted
<1>1. IInv => CacheAccounted
  <2> SUFFICES ASSUME Accounts PROVE CacheAccounted
    BY DEF IInv
  <2>1. DOMAIN order = 1..Len(order)
    BY DEF Accounts, Sound
  <2> QED BY <2>1 DEF Accounts, Sound, Size, CacheAccounted
<1> QED BY <1>1, Inductive, PTL

\* A cached record that is not what the store has was filled by a read that
\* overlapped a finished write, or its key has a write that is under way or failed.
THEOREM StaleHasAReason == Spec => []StaleOnlyByOverlap
<1>1. IInv => StaleOnlyByOverlap
  <2> SUFFICES ASSUME Accounts, CacheInv PROVE StaleOnlyByOverlap
    BY DEF IInv
  <2>1. DOMAIN order = 1..Len(order)
    BY DEF Accounts, Sound
  <2> QED BY <2>1 DEF CacheInv, Fresh, Unsettled, StaleOnlyByOverlap
<1> QED BY <1>1, Inductive, PTL

\* A bulk get that succeeds has an answer for each of its keys, though the producer
\* of getManyFromStore and its workers may end early.
THEOREM BulkIsComplete == Spec => []BulkComplete
<1>1. IInv => BulkComplete
  <2> SUFFICES ASSUME IInv, bulk \in {"fill", "done"}, ~firstErr, NEW i \in DOMAIN BulkKeys
               PROVE  BulkKeys[i] \in DOMAIN records
    BY DEF BulkComplete
  <2>1. i \in 1..Len(BulkKeys)
    BY KVAssumption
  <2>2. CASE bulk = "fill"
    BY <2>1, <2>2, FilledComplete
  <2>3. CASE bulk = "done"
    BY <2>1, <2>3 DEF IInv, BulkInv
  <2> QED BY <2>2, <2>3
<1> QED BY <1>1, Inductive, PTL
=============================================================================
