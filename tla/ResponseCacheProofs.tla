------------------------- MODULE ResponseCacheProofs ------------------------
(***************************************************************************)
(* Proofs about ResponseCache, for any keys, times to live and numbers of  *)
(* entries: the cache evicts by last use and serves nothing that has       *)
(* expired, with any number of threads; with one thread no client sees the *)
(* content of a key go back.                                               *)
(***************************************************************************)
EXTENDS ResponseCache, SequenceTheorems, TLAPS

Version == 0..MaxVersion

Context ==
    [phase : {"idle"}]
      \union [phase : {"arrived", "forwarded"}, key : Key]
      \union [phase : {"hit"}, key : Key, value : Version]
      \union [phase : {"answered"}, key : Key, value : Version,
              cacheable : BOOLEAN]

(* The state of the cache, its middleware and its surroundings is typed.   *)
TypeOK ==
    /\ store \in Seq(Entry)
    /\ upstream \in [Key -> Version]
    /\ ctx \in [Worker -> Context]
    /\ recency \in Seq(Key)
    /\ served \in [Key -> Version]

(* x was used before y, by the order r of last uses.                       *)
Before(r, x, y) == \E m, n \in DOMAIN r : m < n /\ r[m] = x /\ r[n] = y

Injective(r) == \A m, n \in DOMAIN r : r[m] = r[n] => m = n

Used(r, s) == \A i \in DOMAIN s : \E n \in DOMAIN r : r[n] = s[i].key

Ordered(r, s) ==
    \A i, j \in DOMAIN s : i < j => Before(r, s[i].key, s[j].key)

(* Each entry's age and what is left of its life make up the time to live. *)
Aged(s) == \A i \in DOMAIN s : s[i].left = TTL - s[i].age

IInv ==
    /\ TypeOK
    /\ Injective(recency) /\ Used(recency, store) /\ Ordered(recency, store)
    /\ Len(store) <= MaxEntries
    /\ Aged(store)

-----------------------------------------------------------------------------
(* Sequences.                                                              *)

(* t is s without the elements at the places in S: f says where each place *)
(* of t was in s.                                                          *)
Thins(f, t, s, S) ==
    /\ f \in [DOMAIN t -> DOMAIN s \ S]
    /\ \A n \in DOMAIN t : t[n] = s[f[n]]
    /\ \A m, n \in DOMAIN t : m < n <=> f[m] < f[n]
    /\ \A p \in DOMAIN s \ S : \E n \in DOMAIN t : f[n] = p

Thinned(t, s, S) == \E f : Thins(f, t, s, S)

LEMMA RemoveAtFacts ==
    ASSUME NEW X, NEW s \in Seq(X), NEW i \in DOMAIN s
    PROVE  /\ RemoveAt(s, i) \in Seq(X)
           /\ Len(RemoveAt(s, i)) = Len(s) - 1
           /\ \A n \in 1..(Len(s) - 1) :
                RemoveAt(s, i)[n] = IF n < i THEN s[n] ELSE s[n + 1]
<1> DEFINE a == SubSeq(s, 1, i - 1)
           b == SubSeq(s, i + 1, Len(s))
<1>1. i \in Nat /\ 1 <= i /\ i <= Len(s) /\ Len(s) \in Nat
  OBVIOUS
<1>2. a \in Seq(X) /\ Len(a) = i - 1 /\ \A n \in 1..(i - 1) : a[n] = s[n]
  BY <1>1
<1>3. b \in Seq(X) /\ Len(b) = Len(s) - i
      /\ \A n \in 1..(Len(s) - i) : b[n] = s[i + n]
  BY <1>1
<1>4. RemoveAt(s, i) = a \o b
  BY DEF RemoveAt
<1> HIDE DEF a, b
<1>5. /\ a \o b \in Seq(X) /\ Len(a \o b) = Len(a) + Len(b)
      /\ \A n \in 1..(Len(a) + Len(b)) :
           (a \o b)[n] = IF n <= Len(a) THEN a[n] ELSE b[n - Len(a)]
  BY <1>2, <1>3, ConcatProperties
<1>6. ASSUME NEW n \in 1..(Len(s) - 1)
      PROVE  (a \o b)[n] = IF n < i THEN s[n] ELSE s[n + 1]
  <2>1. CASE n < i
    <3>1. n \in 1..(i - 1) /\ n \in 1..(Len(a) + Len(b)) /\ n <= Len(a)
      BY <1>1, <1>2, <1>3, <2>1
    <3> QED  BY <1>2, <1>5, <2>1, <3>1
  <2>2. CASE n >= i
    <3>1. /\ n \in 1..(Len(a) + Len(b)) /\ ~ (n <= Len(a)) /\ ~ (n < i)
          /\ n - Len(a) \in 1..(Len(s) - i) /\ i + (n - Len(a)) = n + 1
      BY <1>1, <1>2, <1>3, <2>2
    <3>2. (a \o b)[n] = b[n - Len(a)]
      BY <1>5, <3>1
    <3>3. b[n - Len(a)] = s[i + (n - Len(a))]
      BY <1>3, <3>1
    <3> QED  BY <3>1, <3>2, <3>3
  <2>3. n < i \/ n >= i
    BY <1>1
  <2> QED  BY <2>1, <2>2, <2>3
<1>7. Len(a) + Len(b) = Len(s) - 1
  BY <1>1, <1>2, <1>3
<1> QED  BY <1>4, <1>5, <1>6, <1>7

(* The element that is dropped is the one in question, if there is one.    *)
LEMMA DroppedFacts ==
    ASSUME NEW X, NEW s \in Seq(X), NEW S \in SUBSET DOMAIN s,
           \A m, n \in S : m = n
    PROVE  /\ Dropped(s, S) \in Seq(X)
           /\ Len(Dropped(s, S)) <= Len(s)
           /\ S # {} => Len(Dropped(s, S)) = Len(s) - 1
           /\ Thinned(Dropped(s, S), s, S)
<1>1. CASE S = {}
  <2>1. Thins([n \in DOMAIN s |-> n], s, s, S)
    BY <1>1 DEF Thins
  <2> QED  BY <1>1, <2>1 DEF Dropped, Thinned
<1>2. CASE S # {}
  <2> DEFINE i == CHOOSE i \in S : TRUE
             t == RemoveAt(s, i)
             f == [n \in DOMAIN t |-> IF n < i THEN n ELSE n + 1]
  <2>1. S = {i} /\ i \in DOMAIN s
    BY <1>2
  <2>2. Dropped(s, S) = t
    BY <1>2 DEF Dropped
  <2> HIDE DEF i
  <2>3. /\ t \in Seq(X) /\ Len(t) = Len(s) - 1
        /\ \A n \in 1..(Len(s) - 1) : t[n] = IF n < i THEN s[n] ELSE s[n + 1]
    BY <2>1, RemoveAtFacts
  <2> HIDE DEF t
  <2>4. Len(s) \in Nat /\ DOMAIN s = 1..Len(s) /\ DOMAIN t = 1..(Len(s) - 1)
    BY <2>3
  <2>5. i \in Nat /\ 1 <= i /\ i <= Len(s)
    BY <2>1, <2>4
  <2>6. \A n \in DOMAIN t : f[n] = IF n < i THEN n ELSE n + 1
    OBVIOUS
  <2>7. f \in [DOMAIN t -> DOMAIN s \ S]
    BY <2>1, <2>4, <2>5
  <2> HIDE DEF f
  <2>8. ASSUME NEW n \in DOMAIN t  PROVE t[n] = s[f[n]]
    BY <2>3, <2>4, <2>6
  <2>9. ASSUME NEW m \in DOMAIN t, NEW n \in DOMAIN t
        PROVE  m < n <=> f[m] < f[n]
    BY <2>4, <2>5, <2>6
  <2>10. ASSUME NEW q \in DOMAIN s \ S
         PROVE  \E n \in DOMAIN t : f[n] = q
    <3>1. q # i
      BY <2>1
    <3>2. CASE q < i
      <4>1. q \in DOMAIN t /\ f[q] = q
        BY <2>4, <2>5, <2>6, <3>2
      <4> QED  BY <4>1
    <3>3. CASE q > i
      <4>1. q - 1 \in DOMAIN t /\ f[q - 1] = q
        BY <2>4, <2>5, <2>6, <3>3
      <4> QED  BY <4>1
    <3>4. q < i \/ q > i
      BY <2>4, <2>5, <3>1
    <3> QED  BY <3>2, <3>3, <3>4
  <2>11. Thins(f, t, s, S)
    BY <2>7, <2>8, <2>9, <2>10 DEF Thins
  <2>12. Len(t) <= Len(s)
    BY <2>3, <2>4
  <2> QED  BY <2>2, <2>3, <2>11, <2>12 DEF Thinned
<1> QED  BY <1>1, <1>2

LEMMA SuffixFacts ==
    ASSUME NEW X, NEW s \in Seq(X), NEW m \in 1..(Len(s) + 1)
    PROVE  LET t == SubSeq(s, m, Len(s)) IN
           t \in Seq(X) /\ Len(t) = Len(s) + 1 - m /\ Thinned(t, s, 1..(m - 1))
<1> DEFINE t == SubSeq(s, m, Len(s))
           f == [n \in DOMAIN t |-> n + m - 1]
<1>1. /\ m \in Nat /\ 1 <= m /\ m <= Len(s) + 1
      /\ Len(s) \in Nat /\ DOMAIN s = 1..Len(s)
  OBVIOUS
<1>2. /\ t \in Seq(X) /\ Len(t) = Len(s) + 1 - m
      /\ \A n \in 1..(Len(s) + 1 - m) : t[n] = s[n + m - 1]
  BY <1>1, SubSeqProperties
<1> HIDE DEF t
<1>3. DOMAIN t = 1..(Len(s) + 1 - m)
  BY <1>1, <1>2
<1>4. \A n \in DOMAIN t : f[n] = n + m - 1
  OBVIOUS
<1>5. f \in [DOMAIN t -> DOMAIN s \ 1..(m - 1)]
  BY <1>1, <1>3
<1> HIDE DEF f
<1>6. ASSUME NEW n \in DOMAIN t  PROVE t[n] = s[f[n]]
  BY <1>2, <1>3, <1>4
<1>7. \A n, q \in DOMAIN t : n < q <=> f[n] < f[q]
  BY <1>1, <1>3, <1>4
<1>8. ASSUME NEW q \in DOMAIN s \ 1..(m - 1)
      PROVE  \E n \in DOMAIN t : f[n] = q
  <2>1. q - (m - 1) \in DOMAIN t /\ f[q - (m - 1)] = q
    BY <1>1, <1>3, <1>4
  <2> QED  BY <2>1
<1>9. Thins(f, t, s, 1..(m - 1))
  BY <1>5, <1>6, <1>7, <1>8 DEF Thins
<1> QED  BY <1>2, <1>9 DEF t, Thinned

LEMMA AppendFacts ==
    ASSUME NEW X, NEW s \in Seq(X), NEW e \in X
    PROVE  LET t == Append(s, e) IN
           /\ t \in Seq(X) /\ Len(t) = Len(s) + 1
           /\ Len(t) \in DOMAIN t /\ t[Len(t)] = e
           /\ \A n \in DOMAIN s : n \in DOMAIN t /\ n < Len(t) /\ t[n] = s[n]
           /\ \A n \in DOMAIN t : n # Len(t) => n \in DOMAIN s /\ n < Len(t)
  OBVIOUS

-----------------------------------------------------------------------------
(* The order of last uses, and what stands in the store by it.             *)

(* A key that is used now was used after all others, which keep their      *)
(* order.                                                                  *)
LEMMA TouchedFacts ==
    ASSUME NEW k \in Key, recency \in Seq(Key), Injective(recency)
    PROVE  LET r == Touched(k) IN
           /\ r \in Seq(Key) /\ Injective(r)
           /\ \E n \in DOMAIN r : r[n] = k
           /\ \A n \in DOMAIN recency : \E m \in DOMAIN r : r[m] = recency[n]
           /\ \A n \in DOMAIN recency : recency[n] # k =>
                Before(r, recency[n], k)
           /\ \A x, y : x # k /\ y # k /\ Before(recency, x, y) =>
                Before(r, x, y)
<1> DEFINE S == {n \in DOMAIN recency : recency[n] = k}
           d == Dropped(recency, S)
           r == Append(d, k)
<1>1. d \in Seq(Key) /\ Thinned(d, recency, S)
  BY DroppedFacts DEF Injective
<1>2. r = Touched(k)
  BY DEF Touched
<1> HIDE DEF d, S
<1>3. PICK f : Thins(f, d, recency, S)
  BY <1>1 DEF Thinned
<1>4. /\ f \in [DOMAIN d -> DOMAIN recency \ S]
      /\ \A n \in DOMAIN d : d[n] = recency[f[n]]
      /\ \A m, n \in DOMAIN d : m < n <=> f[m] < f[n]
      /\ \A p \in DOMAIN recency \ S : \E n \in DOMAIN d : f[n] = p
  BY <1>3 DEF Thins
<1> DEFINE l == Len(r)
<1>5. /\ r \in Seq(Key) /\ l \in DOMAIN r /\ r[l] = k
      /\ \A n \in DOMAIN d : n \in DOMAIN r /\ n < l /\ r[n] = d[n]
      /\ \A n \in DOMAIN r : n # l => n \in DOMAIN d
  BY <1>1, AppendFacts
<1> HIDE DEF l, r
<1>6. \A n \in DOMAIN recency \ S :
        \E m \in DOMAIN d : r[m] = recency[n] /\ f[m] = n /\ m \in DOMAIN r
  BY <1>4, <1>5
<1>7. \A n \in DOMAIN d : r[n] # k
  BY <1>4, <1>5 DEF S
<1>8. Injective(r)
  <2> SUFFICES ASSUME NEW m \in DOMAIN r, NEW n \in DOMAIN r, r[m] = r[n]
               PROVE  m = n
    BY DEF Injective
  <2>1. CASE m = l \/ n = l
    BY <1>5, <1>7, <2>1
  <2>2. CASE m # l /\ n # l
    <3>1. m \in DOMAIN d /\ n \in DOMAIN d /\ d[m] = d[n]
      BY <1>5, <2>2
    <3>2. f[m] = f[n] /\ f[m] \in DOMAIN recency
      BY <1>4, <3>1 DEF Injective
    <3>3. ~ (f[m] < f[n]) /\ ~ (f[n] < f[m])
      BY <3>2
    <3>4. ~ (m < n) /\ ~ (n < m) /\ m \in Nat /\ n \in Nat
      BY <1>1, <1>4, <3>1, <3>3
    <3> QED  BY <3>4
  <2> QED  BY <2>1, <2>2
<1>9. ASSUME NEW n \in DOMAIN recency
      PROVE  \E m \in DOMAIN r : r[m] = recency[n]
  BY <1>5, <1>6 DEF S
<1>10. ASSUME NEW n \in DOMAIN recency, recency[n] # k
       PROVE  Before(r, recency[n], k)
  <2>1. n \in DOMAIN recency \ S
    BY <1>10 DEF S
  <2>2. PICK m \in DOMAIN d : r[m] = recency[n]
    BY <1>6, <2>1
  <2> QED  BY <1>5, <2>2 DEF Before
<1>11. ASSUME NEW x, NEW y, x # k, y # k, Before(recency, x, y)
       PROVE  Before(r, x, y)
  <2>1. PICK m \in DOMAIN recency, n \in DOMAIN recency :
          m < n /\ recency[m] = x /\ recency[n] = y
    BY <1>11 DEF Before
  <2>2. m \notin S /\ n \notin S
    BY <1>11, <2>1 DEF S
  <2>3. PICK i \in DOMAIN d : r[i] = x /\ f[i] = m /\ i \in DOMAIN r
    BY <1>6, <2>1, <2>2
  <2>4. PICK j \in DOMAIN d : r[j] = y /\ f[j] = n /\ j \in DOMAIN r
    BY <1>6, <2>1, <2>2
  <2>5. i < j
    BY <1>4, <2>1, <2>3, <2>4
  <2> QED  BY <2>3, <2>4, <2>5 DEF Before
<1> QED  BY <1>2, <1>5, <1>8, <1>9, <1>10, <1>11

LEMMA ThinnedKeeps ==
    ASSUME NEW s \in Seq(Entry), NEW t \in Seq(Entry), NEW S, Thinned(t, s, S),
           NEW r, Used(r, s), Ordered(r, s), Aged(s)
    PROVE  /\ Used(r, t) /\ Ordered(r, t) /\ Aged(t)
           /\ \A n \in DOMAIN t : \E p \in DOMAIN s \ S : t[n] = s[p]
<1>1. PICK f : Thins(f, t, s, S)
  BY DEF Thinned
<1>2. /\ f \in [DOMAIN t -> DOMAIN s \ S]
      /\ \A n \in DOMAIN t : t[n] = s[f[n]]
      /\ \A m, n \in DOMAIN t : m < n => f[m] < f[n]
  BY <1>1 DEF Thins
<1>3. Used(r, t)
  BY <1>2 DEF Used
<1>4. Ordered(r, t)
  BY <1>2 DEF Ordered
<1>5. Aged(t)
  BY <1>2 DEF Aged
<1>6. ASSUME NEW n \in DOMAIN t  PROVE \E p \in DOMAIN s \ S : t[n] = s[p]
  BY <1>2
<1> QED  BY <1>3, <1>4, <1>5, <1>6

(* No key is in the store twice, as the order of last uses would put it    *)
(* before itself.                                                          *)
LEMMA KeysDiffer ==
    ASSUME IInv, NEW i \in DOMAIN store, NEW j \in DOMAIN store,
           store[i].key = store[j].key
    PROVE  i = j
<1>1. \A x : ~ Before(recency, x, x)
  <2> SUFFICES ASSUME NEW x, Before(recency, x, x)  PROVE FALSE
    OBVIOUS
  <2>1. PICK m \in DOMAIN recency, n \in DOMAIN recency :
          m < n /\ recency[m] = x /\ recency[n] = x
    BY DEF Before
  <2>2. m = n /\ m \in Nat
    BY <2>1 DEF IInv, Injective, TypeOK
  <2> QED  BY <2>1, <2>2
<1>2. ~ (i < j) /\ ~ (j < i)
  BY <1>1 DEF IInv, Ordered
<1>3. i \in Nat /\ j \in Nat
  BY DEF IInv, TypeOK
<1> QED  BY <1>2, <1>3

LEMMA WithoutFacts ==
    ASSUME IInv, NEW k \in Key
    PROVE  LET t == Without(k) IN
           /\ t \in Seq(Entry) /\ Len(t) <= Len(store)
           /\ (\E i \in DOMAIN store : store[i].key = k) => Len(t) = Len(store) - 1
           /\ Used(recency, t) /\ Ordered(recency, t) /\ Aged(t)
           /\ \A n \in DOMAIN t :
                t[n].key # k /\ \E p \in DOMAIN store : t[n] = store[p]
<1> DEFINE S == {i \in DOMAIN store : store[i].key = k}
           t == Without(k)
<1>1. store \in Seq(Entry)
  BY DEF IInv, TypeOK
<1>2. \A m, n \in S : m = n
  BY KeysDiffer
<1>3. /\ t \in Seq(Entry) /\ Len(t) <= Len(store)
      /\ S # {} => Len(t) = Len(store) - 1
      /\ Thinned(t, store, S)
  BY <1>1, <1>2, DroppedFacts DEF Without
<1> HIDE DEF t
<1>4. /\ Used(recency, t) /\ Ordered(recency, t) /\ Aged(t)
      /\ \A n \in DOMAIN t : \E p \in DOMAIN store \ S : t[n] = store[p]
  <2> HIDE DEF S
  <2> QED  BY <1>1, <1>3, ThinnedKeeps DEF IInv
<1>5. \A p \in DOMAIN store \ S : store[p].key # k
  OBVIOUS
<1> HIDE DEF S
<1>6. (\E i \in DOMAIN store : store[i].key = k) => S # {}
  BY DEF S
<1> QED  BY <1>3, <1>4, <1>5, <1>6 DEF t

(* An entry that goes to the end when its key is used keeps the order.     *)
LEMMA AppendKeeps ==
    ASSUME IInv, NEW s \in Seq(Entry), NEW e \in Entry,
           Used(recency, s), Ordered(recency, s), Aged(s),
           \A n \in DOMAIN s : s[n].key # e.key,
           e.left = TTL - e.age
    PROVE  LET t == Append(s, e)  r == Touched(e.key) IN
           /\ t \in Seq(Entry) /\ Len(t) = Len(s) + 1
           /\ Used(r, t) /\ Ordered(r, t) /\ Aged(t)
           /\ \A n \in DOMAIN t : t[n] = e \/ \E m \in DOMAIN s : t[n] = s[m]
<1> DEFINE t == Append(s, e)
           r == Touched(e.key)
           l == Len(t)
<1>1. /\ t \in Seq(Entry) /\ l = Len(s) + 1
      /\ l \in DOMAIN t /\ t[l] = e
      /\ \A n \in DOMAIN s : n \in DOMAIN t /\ n < l /\ t[n] = s[n]
      /\ \A n \in DOMAIN t : n # l => n \in DOMAIN s /\ n < l
  BY AppendFacts
<1> HIDE DEF t, l
<1>2. e.key \in Key
  BY DEF Entry
<1>3. /\ \E n \in DOMAIN r : r[n] = e.key
      /\ \A n \in DOMAIN recency : \E m \in DOMAIN r : r[m] = recency[n]
      /\ \A n \in DOMAIN recency : recency[n] # e.key =>
           Before(r, recency[n], e.key)
      /\ \A x, y : x # e.key /\ y # e.key /\ Before(recency, x, y) =>
           Before(r, x, y)
  BY <1>2, TouchedFacts DEF IInv, TypeOK
<1> HIDE DEF r
<1>4. Used(r, t)
  <2> SUFFICES ASSUME NEW n \in DOMAIN t
               PROVE  \E m \in DOMAIN r : r[m] = t[n].key
    BY DEF Used
  <2>1. CASE n = l
    BY <1>1, <1>3, <2>1
  <2>2. CASE n # l
    <3>1. n \in DOMAIN s /\ t[n] = s[n]
      BY <1>1, <2>2
    <3>2. PICK m \in DOMAIN recency : recency[m] = s[n].key
      BY <3>1 DEF Used
    <3> QED  BY <1>3, <3>1, <3>2
  <2> QED  BY <2>1, <2>2
<1>5. Ordered(r, t)
  <2> SUFFICES ASSUME NEW i \in DOMAIN t, NEW j \in DOMAIN t, i < j
               PROVE  Before(r, t[i].key, t[j].key)
    BY DEF Ordered
  <2>1. i # l
    <3>1. j = l \/ j < l
      BY <1>1
    <3>2. i \in Nat /\ j \in Nat
      BY <1>1
    <3> QED  BY <3>1, <3>2
  <2>2. i \in DOMAIN s /\ t[i] = s[i] /\ s[i].key # e.key
    BY <1>1, <2>1
  <2>3. CASE j = l
    <3>1. PICK m \in DOMAIN recency : recency[m] = s[i].key
      BY <2>2 DEF Used
    <3> QED  BY <1>1, <1>3, <2>2, <2>3, <3>1
  <2>4. CASE j # l
    <3>1. j \in DOMAIN s /\ t[j] = s[j] /\ s[j].key # e.key
      BY <1>1, <2>4
    <3>2. Before(recency, s[i].key, s[j].key)
      BY <2>2, <3>1 DEF Ordered
    <3> QED  BY <1>3, <2>2, <3>1, <3>2
  <2> QED  BY <2>3, <2>4
<1>6. Aged(t)
  BY <1>1 DEF Aged
<1>7. \A n \in DOMAIN t : t[n] = e \/ \E m \in DOMAIN s : t[n] = s[m]
  BY <1>1
<1> QED  BY <1>1, <1>4, <1>5, <1>6, <1>7 DEF t, r, l

LEMMA StoredFacts ==
    ASSUME IInv, NEW e \in Entry, e.left = TTL - e.age
    PROVE  LET t == Stored(e)  r == Touched(e.key) IN
           /\ t \in Seq(Entry) /\ Len(t) <= MaxEntries
           /\ Used(r, t) /\ Ordered(r, t) /\ Aged(t)
           /\ \A n \in DOMAIN t :
                \/ t[n] = e
                \/ t[n].key # e.key /\ \E m \in DOMAIN store : t[n] = store[m]
<1> DEFINE o == Without(e.key)
           s == Append(o, e)
           r == Touched(e.key)
           m == Len(s) - MaxEntries + 1
<1>1. e.key \in Key
  BY DEF Entry
<1>2. /\ o \in Seq(Entry) /\ Len(o) <= Len(store)
      /\ Used(recency, o) /\ Ordered(recency, o) /\ Aged(o)
      /\ \A n \in DOMAIN o :
           o[n].key # e.key /\ \E p \in DOMAIN store : o[n] = store[p]
  BY <1>1, WithoutFacts
<1> HIDE DEF o
<1>3. /\ s \in Seq(Entry) /\ Len(s) = Len(o) + 1
      /\ Used(r, s) /\ Ordered(r, s) /\ Aged(s)
      /\ \A n \in DOMAIN s : s[n] = e \/ \E p \in DOMAIN o : s[n] = o[p]
  BY <1>2, AppendKeeps
<1>4. Stored(e) = IF Len(s) > MaxEntries THEN SubSeq(s, m, Len(s)) ELSE s
  BY DEF Stored, o
<1> HIDE DEF s, r
<1>5. ASSUME NEW n \in DOMAIN s, s[n] # e
      PROVE  s[n].key # e.key /\ \E p \in DOMAIN store : s[n] = store[p]
  <2>1. PICK q \in DOMAIN o : s[n] = o[q]
    BY <1>3, <1>5
  <2> QED  BY <1>2, <2>1
<1>6. MaxEntries \in Nat \ {0} /\ Len(s) \in Nat
  BY <1>3, CacheAssumption
<1>7. CASE Len(s) > MaxEntries
  <2> DEFINE t == SubSeq(s, m, Len(s))
  <2>1. m \in 1..(Len(s) + 1)
    BY <1>6, <1>7
  <2>2. t \in Seq(Entry) /\ Len(t) = Len(s) + 1 - m /\ Thinned(t, s, 1..(m - 1))
    BY <1>3, <2>1, SuffixFacts
  <2>3. Len(t) <= MaxEntries
    BY <1>6, <2>2
  <2> DEFINE S == 1..(m - 1)
  <2>4. Thinned(t, s, S)
    BY <2>2
  <2> HIDE DEF t, m, S
  <2>5. /\ Used(r, t) /\ Ordered(r, t) /\ Aged(t)
        /\ \A n \in DOMAIN t : \E p \in DOMAIN s \ S : t[n] = s[p]
    BY <1>3, <2>2, <2>4, ThinnedKeeps
  <2>6. Stored(e) = t
    BY <1>4, <1>7 DEF t
  <2> QED  BY <1>5, <2>2, <2>3, <2>5, <2>6 DEF r
<1>8. CASE ~ (Len(s) > MaxEntries)
  <2>1. Stored(e) = s /\ Len(s) <= MaxEntries
    BY <1>4, <1>6, <1>8
  <2> QED  BY <1>3, <1>5, <2>1 DEF r
<1> QED  BY <1>7, <1>8

-----------------------------------------------------------------------------
(* The inductive invariant.                                                *)

LEMMA InitIInv == Init => IInv
<1> SUFFICES ASSUME Init  PROVE IInv
  OBVIOUS
<1>1. 0 \in Version
  BY CacheAssumption DEF Version
<1>2. TypeOK
  BY <1>1 DEF Init, TypeOK, Context, NoContext
<1> QED
  BY <1>2, CacheAssumption DEF IInv, Init, Injective, Used, Ordered, Aged

(* What a thread knows of its request, by what it is doing.                *)
LEMMA ContextFacts ==
    ASSUME TypeOK, NEW w \in Worker
    PROVE  /\ ctx[w] \in Context
           /\ ctx[w].phase # "idle" => ctx[w].key \in Key
           /\ ctx[w].phase \in {"hit", "answered"} => ctx[w].value \in Version
  BY DEF TypeOK, Context

(* The cache and the order of last uses, as they are or with a key used.   *)
LEMMA SameCache ==
    ASSUME IInv, TypeOK', UNCHANGED <<store, recency>>
    PROVE  IInv'
  BY DEF IInv, Injective, Used, Ordered, Before, Aged

LEMMA StoreShrinks ==
    ASSUME IInv, TypeOK', UNCHANGED recency, NEW k \in Key,
           store' = Without(k)
    PROVE  IInv'
<1> DEFINE t == Without(k)
<1>1. /\ Len(t) <= Len(store)
      /\ Used(recency, t) /\ Ordered(recency, t) /\ Aged(t)
  BY WithoutFacts
<1>2. t \in Seq(Entry)
  BY WithoutFacts
<1> HIDE DEF t
<1>3. Len(t) \in Nat /\ Len(store) \in Nat /\ MaxEntries \in Nat
  BY <1>2, CacheAssumption DEF IInv, TypeOK
<1>4. Len(t) <= MaxEntries
  BY <1>1, <1>3 DEF IInv
<1>5. store' = t /\ recency' = recency
  BY DEF t
<1> QED
  BY <1>1, <1>4, <1>5 DEF IInv, Injective, Used, Ordered, Before, Aged

LEMMA KeyUsed ==
    ASSUME IInv, TypeOK', NEW k \in Key, recency' = Touched(k),
           NEW t, store' = t, Len(t) <= MaxEntries,
           Used(Touched(k), t), Ordered(Touched(k), t), Aged(t)
    PROVE  IInv'
<1>1. Injective(Touched(k))
  BY TouchedFacts DEF IInv, TypeOK
<1> QED  BY <1>1 DEF IInv, Injective, Used, Ordered, Before, Aged

(* An older entry has the key and the value it had.                        *)
LEMMA OlderFacts ==
    ASSUME NEW e \in Entry
    PROVE  /\ Older(e) \in Entry
           /\ Older(e).key = e.key /\ Older(e).value = e.value
           /\ e.left = TTL - e.age => Older(e).left = TTL - Older(e).age
<1>1. /\ e.key \in Key /\ e.value \in 0..MaxVersion
      /\ e.left \in 0..TTL /\ e.age \in 0..TTL
  BY DEF Entry
<1>2. Older(e) \in Entry
  BY <1>1, CacheAssumption DEF Older, Entry
<1>3. e.left = TTL - e.age => Older(e).left = TTL - Older(e).age
  BY <1>1, CacheAssumption DEF Older
<1> QED  BY <1>2, <1>3 DEF Older

LEMMA NextIInv == IInv /\ [Next]_vars => IInv'
<1> SUFFICES ASSUME IInv, [Next]_vars  PROVE IInv'
  OBVIOUS
<1>t. TypeOK
  BY DEF IInv
<1>1. CASE UNCHANGED vars
  BY <1>1, <1>t, SameCache DEF vars, TypeOK
<1>2. CASE Tick
  <2>1. \A e \in Entry : /\ Older(e) \in Entry /\ Older(e).key = e.key
                         /\ e.left = TTL - e.age =>
                              Older(e).left = TTL - Older(e).age
    BY OlderFacts
  <2>2. /\ store' \in Seq(Entry) /\ Len(store') = Len(store)
        /\ DOMAIN store' = DOMAIN store
        /\ \A i \in DOMAIN store : store'[i] = Older(store[i])
    BY <1>2, <1>t, <2>1 DEF Tick, TypeOK
  <2>3. UNCHANGED <<upstream, ctx, recency, served>>
    BY <1>2 DEF Tick
  <2>4. \A i \in DOMAIN store : store[i] \in Entry
    BY <1>t DEF TypeOK
  <2>5. TypeOK'
    BY <1>t, <2>2, <2>3 DEF TypeOK
  <2>6. Aged(store')
    BY <2>1, <2>2, <2>4 DEF IInv, Aged
  <2>7. Used(recency', store') /\ Ordered(recency', store')
    BY <2>1, <2>2, <2>3, <2>4 DEF IInv, Used, Ordered, Before
  <2>8. Injective(recency') /\ Len(store') <= MaxEntries
    BY <2>2, <2>3 DEF IInv, Injective
  <2> QED
    BY <2>5, <2>6, <2>7, <2>8 DEF IInv, Injective, Used, Ordered, Before, Aged
<1>3. CASE Clear
  <2>1. store' = <<>> /\ UNCHANGED <<upstream, ctx, recency, served>>
    BY <1>3 DEF Clear
  <2> QED
    BY <1>t, <2>1, CacheAssumption
    DEF IInv, TypeOK, Injective, Used, Ordered, Before, Aged
<1>4. CASE \E k \in Key : Invalidate(k)
  <2>1. PICK k \in Key : Invalidate(k)
    BY <1>4
  <2>2. store' = Without(k) /\ UNCHANGED <<upstream, ctx, recency, served>>
    BY <2>1 DEF Invalidate
  <2>3. Without(k) \in Seq(Entry)
    BY WithoutFacts
  <2>4. TypeOK'
    BY <1>t, <2>2, <2>3 DEF TypeOK
  <2> QED  BY <2>2, <2>4, StoreShrinks
<1>5. CASE \E k \in Key : Publish(k)
  <2>1. PICK k \in Key : Publish(k)
    BY <1>5
  <2>2. upstream' \in [Key -> Version]
    BY <1>t, <2>1, CacheAssumption DEF TypeOK, Publish, Version
  <2>3. TypeOK' /\ UNCHANGED <<store, recency>>
    BY <1>t, <2>1, <2>2 DEF TypeOK, Publish
  <2> QED  BY <2>3, SameCache
<1>6. ASSUME NEW w \in Worker, NEW k \in Key, Arrive(w, k)  PROVE IInv'
  <2>1. TypeOK' /\ UNCHANGED <<store, recency>>
    BY <1>6, <1>t DEF Arrive, TypeOK, Context
  <2> QED  BY <2>1, SameCache
<1>7. ASSUME NEW w \in Worker, PreUncacheable(w)  PROVE IInv'
  <2>1. ctx[w].key \in Key
    BY <1>7, <1>t, ContextFacts DEF PreUncacheable
  <2>2. TypeOK' /\ UNCHANGED <<store, recency>>
    BY <1>7, <1>t, <2>1 DEF PreUncacheable, Forward, TypeOK, Context
  <2> QED  BY <2>2, SameCache
<1>8. ASSUME NEW w \in Worker, PreHit(w)  PROVE IInv'
  <2> DEFINE k == ctx[w].key
  <2>1. k \in Key
    BY <1>8, <1>t, ContextFacts DEF PreHit
  <2>2. PICK i \in DOMAIN store :
          /\ store[i].key = k /\ store[i].left > 0
          /\ store' = Append(Without(store[i].key), KeptOnHit(store[i]))
          /\ ctx' = [ctx EXCEPT ![w] = [phase |-> "hit", key |-> k,
                                        value |-> store[i].value]]
    BY <1>8 DEF PreHit
  <2> DEFINE e == store[i]
             o == Without(k)
  <2>3. recency' = Touched(k) /\ UNCHANGED <<upstream, served>>
    BY <1>8 DEF PreHit
  <2>4. e \in Entry /\ e.key = k /\ e.left = TTL - e.age /\ e.value \in Version
    <3>1. e \in Entry
      BY <1>t DEF TypeOK
    <3>2. e.left = TTL - e.age
      BY DEF IInv, Aged
    <3>3. e.value \in Version
      BY <3>1 DEF Entry, Version
    <3> QED  BY <2>2, <3>1, <3>2, <3>3
  <2>5. /\ o \in Seq(Entry) /\ Len(o) = Len(store) - 1
        /\ Used(recency, o) /\ Ordered(recency, o) /\ Aged(o)
        /\ \A n \in DOMAIN o : o[n].key # k
    BY <2>1, <2>2, WithoutFacts
  <2>6. store' = Append(o, e)
    BY <2>2 DEF KeptOnHit
  <2> HIDE DEF o
  <2>7. LET t == Append(o, e)  r == Touched(e.key) IN
        /\ t \in Seq(Entry) /\ Len(t) = Len(o) + 1
        /\ Used(r, t) /\ Ordered(r, t) /\ Aged(t)
    BY <2>4, <2>5, AppendKeeps
  <2>8. Len(Append(o, e)) <= MaxEntries
    BY <2>5, <2>7, <1>t DEF IInv, TypeOK
  <2>9. Touched(k) \in Seq(Key)
    BY <2>1, TouchedFacts DEF IInv, TypeOK
  <2>10. ctx' \in [Worker -> Context]
    BY <1>t, <2>1, <2>2, <2>4 DEF TypeOK, Context
  <2>11. TypeOK'
    BY <1>t, <2>3, <2>6, <2>7, <2>9, <2>10 DEF TypeOK
  <2> QED  BY <2>1, <2>3, <2>4, <2>6, <2>7, <2>8, <2>11, KeyUsed
<1>9. ASSUME NEW w \in Worker, PreMiss(w)  PROVE IInv'
  <2>1. ctx[w].key \in Key
    BY <1>9, <1>t, ContextFacts DEF PreMiss
  <2>2. /\ store' = Without(ctx[w].key)
        /\ ctx' = [ctx EXCEPT ![w] = Forward(w)]
        /\ UNCHANGED <<upstream, recency, served>>
    BY <1>9 DEF PreMiss
  <2>3. Without(ctx[w].key) \in Seq(Entry)
    BY <2>1, WithoutFacts
  <2>4. TypeOK'
    BY <1>t, <2>1, <2>2, <2>3 DEF TypeOK, Forward, Context
  <2> QED  BY <2>1, <2>2, <2>4, StoreShrinks
<1>10. ASSUME NEW w \in Worker, NEW c \in BOOLEAN, Answer(w, c)  PROVE IInv'
  <2>1. ctx[w].key \in Key
    BY <1>10, <1>t, ContextFacts DEF Answer
  <2>2. TypeOK' /\ UNCHANGED <<store, recency>>
    BY <1>10, <1>t, <2>1 DEF Answer, TypeOK, Context
  <2> QED  BY <2>2, SameCache
<1>11. ASSUME NEW w \in Worker, PostHit(w) \/ PostNotStored(w)  PROVE IInv'
  <2>1. ctx[w].key \in Key /\ ctx[w].value \in Version
    BY <1>11, <1>t, ContextFacts DEF PostHit, PostNotStored
  <2>2. Done(w) /\ UNCHANGED <<store, recency>>
    BY <1>11 DEF PostHit, PostNotStored
  <2>3. TypeOK'
    BY <1>t, <2>1, <2>2 DEF Done, TypeOK, Context, NoContext
  <2> QED  BY <2>2, <2>3, SameCache
<1>12. ASSUME NEW w \in Worker, PostStored(w)  PROVE IInv'
  <2> DEFINE k == ctx[w].key
             e == [key |-> k, value |-> ctx[w].value, left |-> TTL, age |-> 0]
  <2>1. k \in Key /\ ctx[w].value \in Version
    BY <1>12, <1>t, ContextFacts DEF PostStored
  <2>2. Done(w) /\ store' = Stored(e) /\ recency' = Touched(k)
    BY <1>12 DEF PostStored
  <2>3. e \in Entry /\ e.left = TTL - e.age /\ e.key = k
    BY <2>1, CacheAssumption DEF Entry, Version
  <2> HIDE DEF e
  <2>4. LET t == Stored(e)  r == Touched(e.key) IN
        /\ t \in Seq(Entry) /\ Len(t) <= MaxEntries
        /\ Used(r, t) /\ Ordered(r, t) /\ Aged(t)
    BY <2>3, StoredFacts
  <2>5. Touched(k) \in Seq(Key)
    BY <2>1, TouchedFacts DEF IInv, TypeOK
  <2>6. ctx' \in [Worker -> Context] /\ served' \in [Key -> Version]
        /\ upstream' = upstream
    BY <1>t, <2>1, <2>2 DEF Done, TypeOK, Context, NoContext
  <2>7. TypeOK'
    BY <1>t, <2>2, <2>4, <2>5, <2>6 DEF TypeOK
  <2> QED  BY <2>1, <2>2, <2>3, <2>4, <2>7, KeyUsed
<1> QED
  BY <1>1, <1>2, <1>3, <1>4, <1>5, <1>6, <1>7, <1>8, <1>9, <1>10, <1>11, <1>12
  DEF Next

LEMMA InvariantHolds == Spec => []IInv
  BY InitIInv, NextIInv, PTL DEF Spec

(* The state of the cache and of its middleware is well typed.             *)
THEOREM TypeCorrect == Spec => []TypeOK
<1>1. IInv => TypeOK
  BY DEF IInv
<1> QED  BY <1>1, InvariantHolds, PTL

(* The cache never holds more than max_entries, and what put evicts was    *)
(* used, hit or put, before everything it keeps.                           *)
THEOREM EvictsByLastUse == Spec => []LeastRecentFirst
<1>1. ASSUME IInv  PROVE LeastRecentFirst
  <2>1. ASSUME NEW i \in DOMAIN store, NEW j \in DOMAIN store, i < j
        PROVE  LastUse(store[i].key) < LastUse(store[j].key)
    <3>1. PICK m \in DOMAIN recency, n \in DOMAIN recency :
            m < n /\ recency[m] = store[i].key /\ recency[n] = store[j].key
      BY <1>1, <2>1 DEF IInv, Ordered, Before
    <3>2. \A q \in DOMAIN recency : recency[q] = store[i].key => q = m
      BY <1>1, <3>1 DEF IInv, Injective
    <3>3. \A q \in DOMAIN recency : recency[q] = store[j].key => q = n
      BY <1>1, <3>1 DEF IInv, Injective
    <3>4. LastUse(store[i].key) = m
      BY <3>1, <3>2 DEF LastUse
    <3>5. LastUse(store[j].key) = n
      BY <3>1, <3>3 DEF LastUse
    <3> QED  BY <3>1, <3>4, <3>5
  <2> QED  BY <1>1, <2>1 DEF IInv, LeastRecentFirst
<1> QED  BY <1>1, InvariantHolds, PTL

-----------------------------------------------------------------------------
(* What a step of Next does to a worker that comes by a response.          *)
LEMMA OnlyPreHitHits ==
    ASSUME IInv, [Next]_vars, NEW w \in Worker,
           ctx[w].phase = "arrived", ctx'[w].phase = "hit"
    PROVE  PreHit(w)
<1>1. ctx' # ctx
  OBVIOUS
<1>2. PICK v \in Worker :
        \/ \E k \in Key : Arrive(v, k)
        \/ PreUncacheable(v) \/ PreHit(v) \/ PreMiss(v)
        \/ \E c \in BOOLEAN : Answer(v, c)
        \/ PostHit(v) \/ PostNotStored(v) \/ PostStored(v)
  BY <1>1 DEF Next, vars, Tick, Clear, Invalidate, Publish
<1>3. v = w
  <2>1. \E h : ctx' = [ctx EXCEPT ![v] = h]
    BY <1>2 DEF Arrive, PreUncacheable, PreHit, PreMiss, Answer, PostHit,
                PostNotStored, PostStored, Done
  <2> QED  BY <2>1 DEF IInv, TypeOK
<1>4. ctx'[w].phase = "forwarded" \/ PreHit(w)
  BY <1>2, <1>3 DEF IInv, TypeOK, Arrive, PreUncacheable, PreMiss, Forward,
                    Answer, PostHit, PostNotStored, PostStored
<1> QED  BY <1>4

(* No response is served from the cache once its time to live since it was *)
(* put is over.                                                            *)
THEOREM ServesNothingExpired == Spec => NoExpiredHit
<1>1. ASSUME IInv, [Next]_vars, NEW w \in Worker,
             ctx[w].phase = "arrived", ctx'[w].phase = "hit"
      PROVE  \E i \in DOMAIN store :
                 /\ store[i].key = ctx[w].key
                 /\ store[i].value = ctx'[w].value
                 /\ store[i].age < TTL
  <2>1. PreHit(w)
    BY <1>1, OnlyPreHitHits
  <2>2. PICK i \in DOMAIN store :
          /\ store[i].key = ctx[w].key /\ store[i].left > 0
          /\ ctx' = [ctx EXCEPT ![w] = [phase |-> "hit", key |-> ctx[w].key,
                                        value |-> store[i].value]]
    BY <2>1 DEF PreHit
  <2>3. ctx'[w].value = store[i].value
    BY <1>1, <2>2 DEF IInv, TypeOK
  <2>4. store[i] \in Entry /\ store[i].left = TTL - store[i].age
    BY <1>1 DEF IInv, TypeOK, Aged
  <2>5. store[i].age \in Nat /\ TTL \in Nat
    BY <2>4, CacheAssumption DEF Entry
  <2>6. store[i].age < TTL
    BY <2>2, <2>4, <2>5
  <2> QED  BY <2>2, <2>3, <2>6
<1>2. IInv /\ [Next]_vars =>
        [\A w \in Worker :
           (ctx[w].phase = "arrived" /\ ctx'[w].phase = "hit") =>
               \E i \in DOMAIN store :
                   /\ store[i].key = ctx[w].key
                   /\ store[i].value = ctx'[w].value
                   /\ store[i].age < TTL]_vars
  BY <1>1
<1> QED  BY <1>2, InvariantHolds, PTL DEF Spec, NoExpiredHit

-----------------------------------------------------------------------------
(* One thread: the cache holds what clients were last sent, and no entry   *)
(* for the key of a request that is with the upstream or back from it.     *)
Current ==
    /\ \A i \in DOMAIN store : /\ store[i].key \in Cacheable
                               /\ store[i].value = served[store[i].key]
    /\ \A k \in Key : served[k] <= upstream[k]
    /\ \A w \in Worker :
         /\ ctx[w].phase \in {"forwarded", "answered"} =>
              \A i \in DOMAIN store : store[i].key # ctx[w].key
         /\ ctx[w].phase = "hit" => ctx[w].value = served[ctx[w].key]
         /\ ctx[w].phase = "answered" =>
              /\ served[ctx[w].key] <= ctx[w].value
              /\ ctx[w].value <= upstream[ctx[w].key]

LEMMA InitCurrent == Init => Current
  BY CacheAssumption DEF Init, Current, NoContext

(* The entries are some of those there were.                               *)
Kept == \A n \in DOMAIN store' : \E p \in DOMAIN store : store'[n] = store[p]

LEMMA StepCurrent ==
    ASSUME NEW w0, Worker = {w0}, IInv, Current, Next
    PROVE  Current'
<1> DEFINE c == ctx[w0]
           k == ctx[w0].key
<1>1. /\ w0 \in Worker /\ ctx = [w \in Worker |-> c]
      /\ served \in [Key -> Version] /\ upstream \in [Key -> Version]
      /\ store \in Seq(Entry) /\ TypeOK
      /\ c.phase # "idle" => k \in Key
      /\ c.phase \in {"hit", "answered"} => c.value \in Version
  BY ContextFacts DEF IInv, TypeOK
<1>2. \A i \in DOMAIN store : store[i] \in Entry /\ store[i].key \in Key
  <2>1. \A i \in DOMAIN store : store[i] \in Entry
    BY <1>1
  <2> QED  BY <2>1 DEF Entry
<1>3. CASE Tick
  <2>1. /\ DOMAIN store' = DOMAIN store
        /\ \A i \in DOMAIN store : store'[i] = Older(store[i])
        /\ UNCHANGED <<upstream, ctx, recency, served>>
    BY <1>3 DEF Tick
  <2>2. \A i \in DOMAIN store : /\ store'[i].key = store[i].key
                                /\ store'[i].value = store[i].value
    BY <1>2, <2>1, OlderFacts
  <2> QED  BY <2>1, <2>2 DEF Current
<1>4. ASSUME Kept, UNCHANGED <<upstream, ctx, served>>
      PROVE  Current'
  BY <1>4 DEF Kept, Current
<1>5. CASE Clear
  <2>1. Kept /\ UNCHANGED <<upstream, ctx, served>>
    BY <1>5 DEF Clear, Kept
  <2> QED  BY <1>4, <2>1
<1>6. ASSUME NEW j \in Key, Invalidate(j)  PROVE Current'
  <2>1. store' = Without(j) /\ UNCHANGED <<upstream, ctx, served>>
    BY <1>6 DEF Invalidate
  <2>2. Kept
    BY <2>1, WithoutFacts DEF Kept
  <2> QED  BY <1>4, <2>1, <2>2
<1>7. ASSUME NEW j \in Key, Publish(j)  PROVE Current'
  <2>1. /\ \A i \in Key : /\ upstream[i] \in Nat /\ upstream'[i] \in Nat
                          /\ upstream[i] <= upstream'[i]
        /\ UNCHANGED <<store, ctx, recency, served>>
    BY <1>1, <1>7, CacheAssumption DEF Publish, Version
  <2>2. \A i \in Key : served[i] \in Nat
    BY <1>1, CacheAssumption DEF Version
  <2>3. \A i \in Key : served'[i] <= upstream'[i]
    BY <2>1, <2>2 DEF Current
  <2>4. ASSUME NEW w \in Worker, ctx[w].phase = "answered"
        PROVE  ctx[w].value <= upstream'[ctx[w].key]
    <3>1. ctx[w].value <= upstream[ctx[w].key]
      BY <2>4 DEF Current
    <3>2. ctx[w].value \in Nat /\ ctx[w].key \in Key
      BY <1>1, <2>4, CacheAssumption DEF Version
    <3> QED  BY <2>1, <3>1, <3>2
  <2> QED  BY <2>1, <2>3, <2>4 DEF Current
(* The request goes to a new phase, and what holds of its content follows. *)
<1>8. ASSUME NEW h, ctx' = [ctx EXCEPT ![w0] = h], Kept,
             UNCHANGED <<upstream, served>>,
             h.phase \in {"forwarded", "answered"} =>
               \A i \in DOMAIN store' : store'[i].key # h.key,
             h.phase = "hit" => h.value = served[h.key],
             h.phase = "answered" =>
               served[h.key] <= h.value /\ h.value <= upstream[h.key]
      PROVE  Current'
  <2>1. \A w \in Worker : ctx'[w] = h
    BY <1>1, <1>8
  <2> QED  BY <1>8, <2>1 DEF Current, Kept
<1>9. ASSUME UNCHANGED store  PROVE Kept
  BY <1>9 DEF Kept
<1>10. ASSUME NEW j \in Key, Arrive(w0, j)  PROVE Current'
  <2> DEFINE h == [phase |-> "arrived", key |-> j]
  <2>1. ctx' = [ctx EXCEPT ![w0] = h] /\ UNCHANGED <<store, upstream, served>>
    BY <1>10 DEF Arrive
  <2>2. h.phase = "arrived"
    OBVIOUS
  <2> HIDE DEF h
  <2> QED  BY <1>8, <1>9, <2>1, <2>2
<1>11. CASE PreUncacheable(w0)
  <2> DEFINE h == Forward(w0)
  <2>1. ctx' = [ctx EXCEPT ![w0] = h] /\ UNCHANGED <<store, upstream, served>>
    BY <1>11 DEF PreUncacheable
  <2>2. h.phase = "forwarded" /\ h.key = k
    BY DEF Forward
  <2>3. \A i \in DOMAIN store' : store'[i].key # k
    BY <1>11, <2>1 DEF PreUncacheable, Current
  <2> HIDE DEF h
  <2> QED  BY <1>8, <1>9, <2>1, <2>2, <2>3
<1>12. CASE PreMiss(w0)
  <2> DEFINE h == Forward(w0)
  <2>1. /\ ctx' = [ctx EXCEPT ![w0] = h] /\ UNCHANGED <<upstream, served>>
        /\ store' = Without(k) /\ k \in Key
    BY <1>1, <1>12 DEF PreMiss
  <2>2. h.phase = "forwarded" /\ h.key = k
    BY DEF Forward
  <2>3. Kept /\ \A i \in DOMAIN store' : store'[i].key # k
    BY <2>1, WithoutFacts DEF Kept
  <2> HIDE DEF h
  <2> QED  BY <1>8, <2>1, <2>2, <2>3
<1>13. CASE PreHit(w0)
  <2>1. PICK i \in DOMAIN store :
          /\ store[i].key = k /\ store[i].left > 0
          /\ store' = Append(Without(store[i].key), KeptOnHit(store[i]))
          /\ ctx' = [ctx EXCEPT ![w0] = [phase |-> "hit", key |-> k,
                                         value |-> store[i].value]]
    BY <1>13 DEF PreHit
  <2> DEFINE h == [phase |-> "hit", key |-> k, value |-> store[i].value]
  <2>2. /\ ctx' = [ctx EXCEPT ![w0] = h] /\ UNCHANGED <<upstream, served>>
        /\ store' = Append(Without(k), store[i]) /\ k \in Key
    BY <1>2, <1>13, <2>1 DEF PreHit, KeptOnHit
  <2>3. h.phase = "hit" /\ h.key = k /\ h.value = served[k]
    BY <2>1 DEF Current
  <2>4. Without(k) \in Seq(Entry)
        /\ \A n \in DOMAIN Without(k) :
             \E p \in DOMAIN store : Without(k)[n] = store[p]
    BY <2>2, WithoutFacts
  <2>5. Kept
    <3> DEFINE o == Without(k)
    <3>1. o \in Seq(Entry) /\ store[i] \in Entry /\ store' = Append(o, store[i])
      BY <1>2, <2>2, <2>4
    <3>2. \A n \in DOMAIN o : \E p \in DOMAIN store : o[n] = store[p]
      BY <2>4
    <3> HIDE DEF o
    <3>3. \A n \in DOMAIN store' :
            store'[n] = store[i] \/ \E m \in DOMAIN o : store'[n] = o[m]
      BY <3>1
    <3> QED  BY <3>2, <3>3 DEF Kept
  <2> HIDE DEF h
  <2> QED  BY <1>8, <2>2, <2>3, <2>5
<1>14. ASSUME NEW b \in BOOLEAN, Answer(w0, b)  PROVE Current'
  <2> DEFINE h == [phase |-> "answered", key |-> k,
                   value |-> upstream[k], cacheable |-> b]
  <2>1. /\ ctx' = [ctx EXCEPT ![w0] = h] /\ UNCHANGED <<store, upstream, served>>
        /\ c.phase = "forwarded" /\ k \in Key
    BY <1>1, <1>14 DEF Answer
  <2>2. /\ h.phase = "answered" /\ h.key = k /\ h.value = upstream[k]
        /\ upstream[k] <= upstream[k] /\ served[k] <= upstream[k]
    BY <1>1, <2>1, CacheAssumption DEF Current, Version
  <2>3. \A i \in DOMAIN store' : store'[i].key # k
    BY <1>1, <2>1 DEF Current
  <2> HIDE DEF h
  <2> QED  BY <1>8, <1>9, <2>1, <2>2, <2>3
<1>15. ASSUME Done(w0), k \in Key
       PROVE  /\ \A w \in Worker : ctx'[w].phase = "idle"
              /\ \A j \in Key : served'[j] = IF j = k THEN c.value ELSE served[j]
              /\ UNCHANGED upstream
  BY <1>1, <1>15 DEF Done, NoContext
<1>16. CASE PostHit(w0)
  <2>1. /\ Done(w0) /\ UNCHANGED store /\ c.phase = "hit" /\ k \in Key
        /\ c.value = served[k]
    BY <1>1, <1>16 DEF PostHit, Current
  <2>2. \A j \in Key : served'[j] = served[j]
    BY <1>15, <2>1
  <2> QED  BY <1>2, <1>15, <2>1, <2>2 DEF Current
<1>17. CASE PostNotStored(w0)
  <2>1. /\ Done(w0) /\ UNCHANGED store /\ c.phase = "answered" /\ k \in Key
        /\ c.value <= upstream[k]
        /\ \A i \in DOMAIN store : store[i].key # k
    BY <1>1, <1>17 DEF PostNotStored, Current
  <2> QED  BY <1>2, <1>15, <2>1 DEF Current
<1>18. CASE PostStored(w0)
  <2> DEFINE e == [key |-> k, value |-> c.value, left |-> TTL, age |-> 0]
  <2>1. /\ Done(w0) /\ c.phase = "answered" /\ k \in Key /\ k \in Cacheable
        /\ c.value <= upstream[k] /\ c.value \in Version
        /\ store' = Stored(e)
    BY <1>1, <1>18 DEF PostStored, Current
  <2>2. e \in Entry /\ e.left = TTL - e.age /\ e.key = k /\ e.value = c.value
    BY <2>1, CacheAssumption DEF Entry, Version
  <2> HIDE DEF e
  <2>3. \A n \in DOMAIN Stored(e) :
          \/ Stored(e)[n] = e
          \/ Stored(e)[n].key # k /\ \E m \in DOMAIN store : Stored(e)[n] = store[m]
    BY <2>2, StoredFacts
  <2>4. \A n \in DOMAIN store' :
          /\ store'[n].key \in Cacheable
          /\ store'[n].value = served'[store'[n].key]
    <3> SUFFICES ASSUME NEW n \in DOMAIN store'
                 PROVE  /\ store'[n].key \in Cacheable
                        /\ store'[n].value = served'[store'[n].key]
      OBVIOUS
    <3>1. CASE store'[n] = e
      BY <1>15, <2>1, <2>2, <3>1
    <3>2. CASE store'[n].key # k /\ \E m \in DOMAIN store : store'[n] = store[m]
      BY <1>2, <1>15, <2>1, <3>2 DEF Current
    <3> QED  BY <2>1, <2>3, <3>1, <3>2
  <2> QED  BY <1>15, <2>1, <2>4 DEF Current
<1> QED
  BY <1>1, <1>3, <1>5, <1>6, <1>7, <1>10, <1>11, <1>12, <1>13, <1>14,
     <1>16, <1>17, <1>18 DEF Next

LEMMA StepNotOlder ==
    ASSUME NEW w0, Worker = {w0}, IInv, Current, Next
    PROVE  \A k \in Key : served'[k] >= served[k]
<1> DEFINE c == ctx[w0]
<1>1. /\ served \in [Key -> Nat]
      /\ c.phase # "idle" => c.key \in Key
  BY ContextFacts, CacheAssumption DEF IInv, TypeOK, Version
<1>2. CASE UNCHANGED served
  BY <1>1, <1>2
<1>3. CASE PostHit(w0) \/ PostNotStored(w0) \/ PostStored(w0)
  <2>1. /\ c.phase \in {"hit", "answered"}
        /\ served' = [served EXCEPT ![c.key] = c.value]
    BY <1>3 DEF PostHit, PostNotStored, PostStored, Done
  <2>2. /\ c.key \in Key /\ c.value \in Nat
        /\ c.value = served[c.key] \/ served[c.key] <= c.value
    BY <2>1, ContextFacts, CacheAssumption DEF IInv, Version, Current
  <2> QED  BY <1>1, <2>1, <2>2
<1> QED
  BY <1>2, <1>3 DEF Next, Tick, Clear, Invalidate, Publish, Arrive,
                    PreUncacheable, PreHit, PreMiss, Answer

(* With one thread, clients never see a key's content go back to an older  *)
(* version.                                                                *)
THEOREM NeverServedOlder ==
    ASSUME NEW CONSTANT w0, Worker = {w0}
    PROVE  Spec => NeverBackInTime
<1>1. IInv /\ Current /\ [Next]_vars => Current'
  <2>1. CASE Next
    BY <2>1, StepCurrent
  <2>2. CASE UNCHANGED vars
    BY <2>2 DEF vars, Current
  <2> QED  BY <2>1, <2>2
<1>2. IInv /\ Current /\ [Next]_vars =>
        [\A k \in Key : served'[k] >= served[k]]_vars
  BY StepNotOlder
<1> QED
  BY <1>1, <1>2, InitCurrent, InvariantHolds, PTL DEF Spec, NeverBackInTime
=============================================================================
