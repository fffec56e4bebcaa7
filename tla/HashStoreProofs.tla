--------------------------- MODULE HashStoreProofs ---------------------------
(* Theorems about the hash store, for any number of threads, any keys, any   *)
(* hash function, every Hop and all sizes, with and without failures.  First *)
(* the table alone: its bitmaps and its buckets always agree, lookups are    *)
(* exact and it implements KeySet.  Then the programs of examples/hash.      *)
EXTENDS HashStore, FiniteSetTheorems, TLAPS

(* The steps without arithmetic or sequence constructors, which are most   *)
(* of them, are for Zenon; the others name the SMT solver.                 *)
USE Zenon

USE HopAssumption, SizesAssumption, KeysAssumption, HashAssumption

(* The shape of a table with n buckets. *)
Table(b, h, n) ==
  /\ n \in Nat \ {0}
  /\ b \in [0 .. n - 1 -> Keys \cup {NoKey}]
  /\ h \in [0 .. n - 1 -> SUBSET Offsets]

Hashes == [Keys -> 0 .. MaxHash]

InTable(k, b, n) == \E i \in 0 .. n - 1 : b[i] = k

(* The home bucket of a key is a bucket of the table (h & (sz - 1)). *)
LEMMA HomeBucket ==
  ASSUME NEW f \in Hashes, NEW k \in Keys, NEW n \in Nat \ {0}
  PROVE  HomeIn(f, k, n) \in 0 .. n - 1
  BY SMT DEF HomeIn, Hashes

(* An empty table has the shape of a table ... *)
LEMMA EmptyTable ==
  ASSUME NEW n \in Nat \ {0}
  PROVE  Table(Empty(n).bucket, Empty(n).hop, n)
  BY DEF Empty, Table

(* ... and is sound. *)
LEMMA EmptySound ==
  ASSUME NEW f, NEW n \in Nat \ {0}
  PROVE  /\ Sound(f, Empty(n).bucket, Empty(n).hop, n)
         /\ \A k \in Keys : ~InTable(k, Empty(n).bucket, n)
  BY SMT DEF Empty, Sound, Maps, Near, Once, InTable, Offsets

(* The fields of an empty table. *)
LEMMA EmptyFields ==
  ASSUME NEW n
  PROVE  /\ Empty(n).size = n
         /\ Empty(n).bucket = [b \in 0 .. n - 1 |-> NoKey]
         /\ Empty(n).hop = [b \in 0 .. n - 1 |-> {}]
  BY DEF Empty

(* hopscotch_lookup looks at the buckets that the home's bitmap names, and  *)
(* that is enough to find every key of the table.                           *)
LEMMA LookupLemma ==
  ASSUME NEW f \in Hashes, NEW b, NEW h, NEW n, Table(b, h, n), Sound(f, b, h, n),
         NEW k \in Keys
  PROVE  (\E o \in h[HomeIn(f, k, n)] : b[HomeIn(f, k, n) + o] = k) <=> InTable(k, b, n)
<1> DEFINE hm == HomeIn(f, k, n)
<1>0. n \in Nat \ {0} /\ hm \in 0 .. n - 1
  BY HomeBucket DEF Table
<1>1. ASSUME NEW o \in h[hm], b[hm + o] = k PROVE InTable(k, b, n)
  <2>1. o \in Offsets
    BY <1>0 DEF Table
  <2>2. hm + o < n
    BY <1>0, <1>1, <2>1 DEF Sound, Maps
  <2> QED BY ONLY SMT, <1>0, <1>1, <2>1, <2>2, HopAssumption DEF InTable, Offsets
<1>2. ASSUME NEW i \in 0 .. n - 1, b[i] = k PROVE \E o \in h[hm] : b[hm + o] = k
  <2>1. HomeIn(f, k, n) \in i - Hop + 1 .. i
    BY <1>0, <1>2 DEF Sound, Near
  <2>2. i - hm \in Offsets /\ hm + (i - hm) = i
    BY SMT, <1>0, <2>1 DEF Offsets
  <2>3. i - hm \in h[hm]
    BY SMT, <1>0, <1>2, <2>2 DEF Sound, Maps
  <2> QED BY <1>2, <2>2, <2>3
<1> HIDE DEF hm
<1> QED BY <1>1, <1>2 DEF InTable, hm

(* The buckets and the bitmaps after the three ways the code changes them. *)
PlacedKey(b, e, k) == [b EXCEPT ![e] = k]
PlacedBit(h, i, o) == [h EXCEPT ![i] = @ \cup {o}]
MovedKey(b, i, j, o) == [b EXCEPT ![i + j] = b[i + o], ![i + o] = NoKey]
MovedBit(h, i, j, o) == [h EXCEPT ![i] = (@ \ {o}) \cup {j}]
RemovedBit(h, i, o) == [h EXCEPT ![i] = @ \ {o}]

(* Storing a new key in an empty bucket within reach of its home, and        *)
(* setting the bit for it, keeps the table sound and adds exactly that key.  *)
LEMMA PlaceLemma ==
  ASSUME NEW f \in Hashes, NEW b, NEW h, NEW n, Table(b, h, n), Sound(f, b, h, n),
         NEW k \in Keys, ~InTable(k, b, n),
         NEW e \in 0 .. n - 1, b[e] = NoKey,
         HomeIn(f, k, n) <= e, e - HomeIn(f, k, n) < Hop,
         NEW c, c = PlacedKey(b, e, k),
         NEW g, g = PlacedBit(h, HomeIn(f, k, n), e - HomeIn(f, k, n))
  PROVE  /\ Table(c, g, n)
         /\ Sound(f, c, g, n)
         /\ \A x \in Keys : InTable(x, c, n) <=> InTable(x, b, n) \/ x = k
<1> DEFINE hm == HomeIn(f, k, n)
<1>0. n \in Nat \ {0} /\ hm \in 0 .. n - 1 /\ e - hm \in Offsets
  BY SMT, HomeBucket DEF Table, Offsets
<1>1. Table(c, g, n)
  BY <1>0 DEF Table, PlacedKey, PlacedBit
<1>2. \A i \in 0 .. n - 1 : c[i] = IF i = e THEN k ELSE b[i]
  BY <1>0 DEF Table, PlacedKey, PlacedBit
<1>3. \A i \in 0 .. n - 1 : g[i] = IF i = hm THEN h[i] \cup {e - hm} ELSE h[i]
  BY <1>0 DEF Table, PlacedKey, PlacedBit
<1>4. Maps(f, c, g, n)
  <2> SUFFICES ASSUME NEW i \in 0 .. n - 1, NEW o \in Offsets
               PROVE  o \in g[i] <=>
                        (i + o < n /\ c[i + o] # NoKey /\ HomeIn(f, c[i + o], n) = i)
    BY DEF Maps
  <2>0. i + o \in Nat /\ (i + o < n => i + o \in 0 .. n - 1)
    BY SMT, <1>0 DEF Offsets
  <2>1. o \in h[i] <=> (i + o < n /\ b[i + o] # NoKey /\ HomeIn(f, b[i + o], n) = i)
    BY DEF Sound, Maps
  <2>2. CASE i + o = e
    <3>1. o \notin h[i]
      BY <2>1, <2>2
    <3>2. i = hm <=> o = e - hm
      BY ONLY SMT, <2>2, <1>0, HopAssumption DEF Offsets
    <3>2a. o \in g[i] <=> i = hm
      BY <1>3, <3>1, <3>2
    <3>3. c[i + o] = k /\ i + o < n
      BY SMT, <1>2, <2>2, <1>0
    <3> QED BY <3>2a, <3>3
  <2>3. CASE i + o # e
    <3>0. i = hm => o # e - hm
      BY ONLY SMT, <2>3, <1>0, HopAssumption DEF Offsets
    <3>1. o \in g[i] <=> o \in h[i]
      BY <1>3, <3>0
    <3>2. i + o < n => c[i + o] = b[i + o]
      BY <1>2, <2>0, <2>3
    <3> QED BY <3>1, <3>2, <2>1
  <2> QED BY <2>2, <2>3
<1>5. Near(f, c, n)
  <2> SUFFICES ASSUME NEW i \in 0 .. n - 1, c[i] # NoKey
               PROVE  HomeIn(f, c[i], n) \in i - Hop + 1 .. i
    BY DEF Near
  <2>1. CASE i = e
    BY SMT, <1>2, <2>1, <1>0
  <2>2. CASE i # e
    BY <1>2, <2>2 DEF Sound, Near
  <2> QED BY <2>1, <2>2
<1>6. Once(c, n)
  BY ZenonT(30), <1>2 DEF Once, Sound, InTable
<1>7. \A x \in Keys : InTable(x, c, n) <=> InTable(x, b, n) \/ x = k
  BY <1>2 DEF InTable
<1> QED BY <1>1, <1>4, <1>5, <1>6, <1>7 DEF Sound

(* Moving the key at offset o of home i to the empty bucket at offset j of   *)
(* the same home keeps the table sound, and its keys the same.               *)
LEMMA MoveLemma ==
  ASSUME NEW f \in Hashes, NEW b, NEW h, NEW n, Table(b, h, n), Sound(f, b, h, n),
         NEW i \in 0 .. n - 1, NEW j \in Offsets, NEW o \in h[i],
         o < j, i + j < n, b[i + j] = NoKey,
         NEW c, c = MovedKey(b, i, j, o),
         NEW g, g = MovedBit(h, i, j, o)
  PROVE  /\ Table(c, g, n)
         /\ Sound(f, c, g, n)
         /\ i + o \in 0 .. n - 1 /\ c[i + o] = NoKey
         /\ \A x \in Keys : InTable(x, c, n) <=> InTable(x, b, n)
<1>0. n \in Nat \ {0} /\ o \in Offsets
  BY DEF Table
<1>a. i + o \in 0 .. n - 1 /\ i + j \in 0 .. n - 1 /\ i + o # i + j
  BY SMT, <1>0 DEF Offsets
<1>b. b[i + o] \in Keys /\ HomeIn(f, b[i + o], n) = i
  BY <1>0, <1>a DEF Sound, Maps, Table
<1>1. Table(c, g, n)
  BY <1>0, <1>a DEF Table, MovedKey, MovedBit
<1>2. \A p \in 0 .. n - 1 :
        c[p] = IF p = i + o THEN NoKey ELSE IF p = i + j THEN b[i + o] ELSE b[p]
  BY <1>0, <1>a DEF Table, MovedKey, MovedBit
<1>3. \A p \in 0 .. n - 1 : g[p] = IF p = i THEN (h[p] \ {o}) \cup {j} ELSE h[p]
  BY <1>0 DEF Table, MovedKey, MovedBit
<1>4. Maps(f, c, g, n)
  <2> SUFFICES ASSUME NEW p \in 0 .. n - 1, NEW q \in Offsets
               PROVE  q \in g[p] <=>
                        (p + q < n /\ c[p + q] # NoKey /\ HomeIn(f, c[p + q], n) = p)
    BY DEF Maps
  <2>0. p + q \in Nat /\ (p + q < n => p + q \in 0 .. n - 1)
    BY SMT, <1>0 DEF Offsets
  <2>1. q \in h[p] <=> (p + q < n /\ b[p + q] # NoKey /\ HomeIn(f, b[p + q], n) = p)
    BY DEF Sound, Maps
  <2>2. CASE p + q = i + o
    <3>1. c[p + q] = NoKey
      BY <1>2, <1>a, <2>2
    <3>2. q \in h[p] => p = i
      BY <2>1, <2>2, <1>b
    <3>2a. p = i => q = o /\ q # j
      BY ONLY SMT, <2>2, <1>0, q \in Offsets, o < j, i \in 0 .. n - 1, HopAssumption DEF Offsets
    <3>3. q \notin g[p]
      BY <1>3, <3>2, <3>2a
    <3> QED BY <3>1, <3>3
  <2>3. CASE p + q = i + j
    <3>1. c[p + q] = b[i + o] /\ p + q < n
      BY <1>2, <1>a, <2>3
    <3>2. q \notin h[p]
      BY <2>1, <2>3
    <3>2a. p = i <=> q = j
      BY ONLY SMT, <2>3, <1>0, q \in Offsets, j \in Offsets, i \in 0 .. n - 1,
              p \in 0 .. n - 1, HopAssumption DEF Offsets
    <3>3. q \in g[p] <=> p = i
      BY <1>3, <3>2, <3>2a
    <3> QED BY <3>1, <3>3, <1>b
  <2>4. CASE p + q # i + o /\ p + q # i + j
    <3>1. q \in g[p] <=> q \in h[p]
      BY <1>3, <2>4, <1>0 DEF Offsets
    <3>2. p + q < n => c[p + q] = b[p + q]
      BY <1>2, <2>0, <2>4
    <3> QED BY <3>1, <3>2, <2>1
  <2> QED BY <2>2, <2>3, <2>4
<1>5. Near(f, c, n)
  <2> SUFFICES ASSUME NEW p \in 0 .. n - 1, c[p] # NoKey
               PROVE  HomeIn(f, c[p], n) \in p - Hop + 1 .. p
    BY DEF Near
  <2>1. CASE p = i + j
    <3>1. c[p] = b[i + o]
      BY <1>2, <2>1, <1>a
    <3>2. i \in p - Hop + 1 .. p
      BY ONLY SMT, <2>1, <1>0, j \in Offsets, i \in 0 .. n - 1, HopAssumption DEF Offsets
    <3> QED BY <3>1, <3>2, <1>b
  <2>2. CASE p # i + j
    BY <1>2, <2>2 DEF Sound, Near
  <2> QED BY <2>1, <2>2
<1>6. Once(c, n)
  BY SMT, <1>2, <1>a DEF Once, Sound
<1>7. \A x \in Keys : InTable(x, c, n) <=> InTable(x, b, n)
  BY <1>2, <1>a DEF InTable
<1> QED BY <1>1, <1>2, <1>a, <1>4, <1>5, <1>6, <1>7 DEF Sound

(* Clearing a key's bucket and its bit keeps the table sound and takes away  *)
(* exactly that key.                                                         *)
LEMMA RemoveLemma ==
  ASSUME NEW f \in Hashes, NEW b, NEW h, NEW n, Table(b, h, n), Sound(f, b, h, n),
         NEW k \in Keys, NEW o \in h[HomeIn(f, k, n)], b[HomeIn(f, k, n) + o] = k,
         NEW c, c = PlacedKey(b, HomeIn(f, k, n) + o, NoKey),
         NEW g, g = RemovedBit(h, HomeIn(f, k, n), o)
  PROVE  /\ Table(c, g, n)
         /\ Sound(f, c, g, n)
         /\ \A x \in Keys : InTable(x, c, n) <=> InTable(x, b, n) /\ x # k
<1> DEFINE hm == HomeIn(f, k, n)
<1>0. n \in Nat \ {0} /\ hm \in 0 .. n - 1 /\ o \in Offsets
  BY HomeBucket DEF Table
<1>a. hm + o \in 0 .. n - 1
  BY SMT, <1>0 DEF Offsets, Sound, Maps
<1>1. Table(c, g, n)
  BY <1>0, <1>a DEF Table, PlacedKey, RemovedBit
<1>2. \A p \in 0 .. n - 1 : c[p] = IF p = hm + o THEN NoKey ELSE b[p]
  BY <1>0, <1>a DEF Table, PlacedKey, RemovedBit
<1>3. \A p \in 0 .. n - 1 : g[p] = IF p = hm THEN h[p] \ {o} ELSE h[p]
  BY <1>0 DEF Table, PlacedKey, RemovedBit
<1>4. Maps(f, c, g, n)
  <2> SUFFICES ASSUME NEW p \in 0 .. n - 1, NEW q \in Offsets
               PROVE  q \in g[p] <=>
                        (p + q < n /\ c[p + q] # NoKey /\ HomeIn(f, c[p + q], n) = p)
    BY DEF Maps
  <2>0. p + q \in Nat /\ (p + q < n => p + q \in 0 .. n - 1)
    BY SMT, <1>0 DEF Offsets
  <2>1. q \in h[p] <=> (p + q < n /\ b[p + q] # NoKey /\ HomeIn(f, b[p + q], n) = p)
    BY DEF Sound, Maps
  <2>2. CASE p + q = hm + o
    <3>1. c[p + q] = NoKey
      BY <1>2, <1>a, <2>2
    <3>2. q \in h[p] => p = hm
      BY <2>1, <2>2
    <3>2a. p = hm => q = o
      BY ONLY SMT, <2>2, <1>0, q \in Offsets, HopAssumption DEF Offsets
    <3>3. q \notin g[p]
      BY <1>3, <3>2, <3>2a
    <3> QED BY <3>1, <3>3
  <2>3. CASE p + q # hm + o
    <3>1. q \in g[p] <=> q \in h[p]
      BY <1>3, <2>3, <1>0 DEF Offsets
    <3>2. p + q < n => c[p + q] = b[p + q]
      BY <1>2, <2>0, <2>3
    <3> QED BY <3>1, <3>2, <2>1
  <2> QED BY <2>2, <2>3
<1>5. Near(f, c, n)
  BY <1>2 DEF Sound, Near
<1>6. Once(c, n)
  BY <1>2 DEF Once, Sound
<1>7. \A x \in Keys : InTable(x, c, n) <=> InTable(x, b, n) /\ x # k
  BY <1>2, <1>a DEF InTable, Sound, Once
<1> QED BY <1>1, <1>4, <1>5, <1>6, <1>7 DEF Sound

------------------------------------------------------------------------------
(* The insertion in progress has an empty bucket for a key that is not in the *)
(* table.                                                                     *)
Inserting ==
  /\ cur \in Keys /\ at \in Buckets
  /\ bucket[at] = NoKey /\ Home(cur) <= at
  /\ ~InTable(cur, bucket, size)

(* The new table holds the keys of the first m buckets of the old one. *)
Copied(m) ==
  \A k \in Keys :
    InTable(k, bucket, size) <=> \E i \in 0 .. m - 1 : old.bucket[i] = k

Control ==
  /\ pc = "idle" => ~resizing
  /\ pc \in {"resize", "inserted"} => resizing

(* hopscotch_resize can go back to the old table at any time, and forward    *)
(* without losing a key.                                                     *)
Copying ==
  resizing =>
    /\ Sound(hash, old.bucket, old.hop, old.size)
    /\ pc = "resize" => Copied(next)
    /\ pc = "hop" => Copied(next) /\ next < old.size /\ old.bucket[next] = cur
    /\ pc = "inserted" => next < old.size /\ (res = "ok" => Copied(next + 1))

(* The inductive invariant: BitmapsExact alone does not say that an insertion *)
(* still has an empty bucket and a new key, or that the old table is intact.  *)
IInv ==
  /\ TypeOK
  /\ BitmapsExact
  /\ Control
  /\ pc = "hop" => Inserting
  /\ Copying

(* The types give the table, and the saved one, their shape. *)
LEMMA Shapes ==
  ASSUME TypeOK
  PROVE  /\ hash \in Hashes
         /\ Table(bucket, hop, size)
         /\ Table(old.bucket, old.hop, old.size)
  BY DEF TypeOK, Table, Hashes, Buckets

(* How hopscotch_insert begins: it returns because the key is there or no    *)
(* bucket is empty, or it has found an empty bucket for a key that is not.   *)
EnterOutcome(k) ==
  /\ UNCHANGED table
  /\ \/ /\ pc' = "hop" /\ cur' = k /\ at' \in Buckets
        /\ bucket[at'] = NoKey /\ Home(k) <= at' /\ ~InTable(k, bucket, size)
        /\ UNCHANGED <<res, ret>>
     \/ /\ cur' = NoKey /\ at' = 0
        /\ \E r \in {"exists", "full"} :
             /\ r = "exists" <=> InTable(k, bucket, size)
             /\ Return(r)

(* hopscotch_insert up to its empty bucket has one of these outcomes. *)
LEMMA EnterLemma ==
  ASSUME TypeOK, BitmapsExact, NEW k \in Keys, Enter(k)
  PROVE  EnterOutcome(k)
<1>1. Lookup(k) <=> InTable(k, bucket, size)
  BY Shapes, LookupLemma DEF Lookup, BitmapsExact, Home
<1>2. Home(k) \in Buckets /\ size \in Nat
  BY Shapes, HomeBucket DEF Home, Buckets, Table
<1>3. CASE Lookup(k)
  <2>1. UNCHANGED table /\ Return("exists")
    BY <1>3 DEF Enter
  <2> QED BY <2>1, <1>1, <1>3 DEF EnterOutcome, Return
<1>4. CASE ~Lookup(k) /\ Return("full") /\ UNCHANGED table
  BY <1>4, <1>1 DEF EnterOutcome, Return
<1>5. ASSUME ~Lookup(k), NEW e \in Home(k) .. size - 1, FirstEmpty(k, e), at' = e,
             pc' = "hop", cur' = k, UNCHANGED <<res, ret>>, UNCHANGED table
      PROVE  EnterOutcome(k)
  <2>1. at' \in Buckets /\ bucket[at'] = NoKey /\ Home(k) <= at'
    BY SMT, <1>5, <1>2 DEF Buckets, FirstEmpty
  <2> QED BY <2>1, <1>5, <1>1 DEF EnterOutcome
<1> QED BY <1>3, <1>4, <1>5 DEF Enter

(* The table is empty at first. *)
THEOREM InitInv == Init => IInv
<1> SUFFICES ASSUME Init PROVE IInv
  OBVIOUS
<1>1. size \in Nat \ {0}
  BY DEF Init
<1>2. TypeOK
  <2>1. Table(bucket, hop, size) /\ Table(old.bucket, old.hop, size) /\ old.size = size
    BY <1>1, EmptyTable, EmptyFields DEF Init
  <2>2. next \in 0 .. old.size
    BY SMT, <1>1, <2>1 DEF Init
  <2>3. bucket \in [Buckets -> Keys \cup {NoKey}] /\ hop \in [Buckets -> SUBSET Offsets]
    BY <2>1 DEF Table, Buckets
  <2>4. /\ old.bucket \in [0 .. old.size - 1 -> Keys \cup {NoKey}]
        /\ old.hop \in [0 .. old.size - 1 -> SUBSET Offsets]
    BY <2>1 DEF Table
  <2> QED BY <2>1, <2>2, <2>3, <2>4 DEF Init, TypeOK, Codes
<1>3. BitmapsExact
  BY <1>1, EmptySound DEF Init, BitmapsExact
<1> QED BY <1>2, <1>3 DEF Init, IInv, Control, Copying

(* What the types and the invariant say of the table. *)
LEMMA TableFacts ==
  ASSUME IInv
  PROVE  /\ hash \in Hashes /\ Table(bucket, hop, size) /\ Sound(hash, bucket, hop, size)
         /\ Table(old.bucket, old.hop, old.size)
         /\ size \in Nat \ {0} /\ old.size \in Nat \ {0} /\ next \in Nat
         /\ pc = "hop" => Inserting
  BY SMT, Shapes DEF IInv, BitmapsExact, Table, TypeOK

(* A move of hopscotch_insert keeps the table sound and its keys the same,   *)
(* and leaves an empty bucket nearer to the home, never before it.           *)
LEMMA DisplaceLemma ==
  ASSUME IInv, Displace
  PROVE  /\ Table(bucket', hop', size) /\ Sound(hash, bucket', hop', size)
         /\ at' \in 0 .. size - 1 /\ bucket'[at'] = NoKey /\ Home(cur) <= at'
         /\ \A x \in Keys : InTable(x, bucket', size) <=> InTable(x, bucket, size)
<1>a. hash \in Hashes /\ Table(bucket, hop, size) /\ Sound(hash, bucket, hop, size)
      /\ size \in Nat \ {0} /\ (pc = "hop" => Inserting)
  BY TableFacts
<1>0. pc = "hop" /\ TooFar /\ Inserting /\ UNCHANGED <<hash, size, pc, cur, resizing, old, next, res, ret>>
  BY <1>a DEF Displace
<1>1. PICK j \in 1 .. Hop - 1 : Candidate(j) /\ Move(j)
  BY DEF Displace
<1>2. PICK o \in Offsets :
        /\ Lowest(o, hop[at - j])
        /\ bucket' = [bucket EXCEPT ![at] = bucket[at - j + o], ![at - j + o] = NoKey]
        /\ hop' = [hop EXCEPT ![at - j] = (@ \ {o}) \cup {j}]
        /\ at' = at - j + o
  BY <1>1 DEF Move
<1> DEFINE i == at - j
<1>3. Home(cur) \in 0 .. size - 1 /\ at \in 0 .. size - 1 /\ cur \in Keys
  BY <1>0, <1>a, HomeBucket DEF Inserting, Home, Buckets
<1>4. /\ i \in 0 .. size - 1 /\ j \in Offsets /\ at = i + j
      /\ Home(cur) <= i + o
  BY ONLY SMTT(30), <1>0, <1>3, <1>a, <1>1, <1>2, HopAssumption DEF TooFar, Offsets
<1>5. o \in hop[i] /\ o < j
  <2>1. PICK p \in hop[i] : p < j
    BY <1>1 DEF Candidate
  <2>2. p \in Offsets
    BY <1>4, <1>a DEF Table
  <2>3. o \in hop[i] /\ o <= p
    BY <1>2 DEF Lowest
  <2> QED BY SMT, <2>1, <2>2, <2>3 DEF Offsets
<1>6. /\ Table(bucket', hop', size) /\ Sound(hash, bucket', hop', size)
      /\ at' \in 0 .. size - 1 /\ bucket'[at'] = NoKey
      /\ \A x \in Keys : InTable(x, bucket', size) <=> InTable(x, bucket, size)
  <2>1. /\ i + j < size /\ bucket[i + j] = NoKey
        /\ bucket' = MovedKey(bucket, i, j, o)
        /\ hop' = MovedBit(hop, i, j, o) /\ at' = i + o
    <3>1. i + j < size /\ bucket[i + j] = NoKey
      <4>1. i + j < size
        BY ONLY SMT, <1>3, <1>4, <1>a
      <4>2. bucket[at] = NoKey
        BY <1>0 DEF Inserting
      <4> HIDE DEF i
      <4> QED BY <4>1, <4>2, <1>4
    <3> QED BY <3>1, <1>2, <1>4 DEF MovedKey, MovedBit
  <2>2. /\ hash \in Hashes /\ Table(bucket, hop, size) /\ Sound(hash, bucket, hop, size)
        /\ i \in 0 .. size - 1 /\ j \in Offsets /\ o \in hop[i] /\ o < j
    BY <1>4, <1>5, <1>a
  <2> HIDE DEF i
  <2>3. /\ Table(bucket', hop', size) /\ Sound(hash, bucket', hop', size)
        /\ i + o \in 0 .. size - 1 /\ bucket'[i + o] = NoKey
        /\ \A x \in Keys : InTable(x, bucket', size) <=> InTable(x, bucket, size)
    BY ONLY <2>1, <2>2, MoveLemma, SMTT(30)
  <2> QED BY <2>1, <2>3
<1> HIDE DEF i
<1>7. at' = i + o
  BY <1>2, <1>4 DEF i
<1> QED BY <1>4, <1>6, <1>7

(* The last step of hopscotch_insert adds exactly its key. *)
LEMMA PlaceStep ==
  ASSUME IInv, Place
  PROVE  /\ Table(bucket', hop', size) /\ Sound(hash, bucket', hop', size)
         /\ \A x \in Keys : InTable(x, bucket', size) <=> InTable(x, bucket, size) \/ x = cur
<1>a. hash \in Hashes /\ Table(bucket, hop, size) /\ Sound(hash, bucket, hop, size)
      /\ size \in Nat \ {0} /\ (pc = "hop" => Inserting)
  BY TableFacts
<1>b. /\ pc = "hop" /\ ~TooFar /\ Inserting
      /\ bucket' = [bucket EXCEPT ![at] = cur]
      /\ hop' = [hop EXCEPT ![Home(cur)] = @ \cup {at - Home(cur)}]
  BY <1>a DEF Place
<1>2. Home(cur) \in 0 .. size - 1 /\ at \in 0 .. size - 1 /\ cur \in Keys
  BY <1>b, <1>a, HomeBucket DEF Inserting, Home, Buckets
<1>3. /\ Table(bucket', hop', size) /\ Sound(hash, bucket', hop', size)
      /\ \A x \in Keys : InTable(x, bucket', size) <=> InTable(x, bucket, size) \/ x = cur
  <2>1. Home(cur) <= at /\ at - Home(cur) < Hop
    BY SMT, <1>b, <1>2 DEF Inserting, TooFar
  <2>2. /\ hash \in Hashes /\ Table(bucket, hop, size) /\ Sound(hash, bucket, hop, size)
        /\ cur \in Keys /\ ~InTable(cur, bucket, size)
        /\ at \in 0 .. size - 1 /\ bucket[at] = NoKey
        /\ HomeIn(hash, cur, size) <= at /\ at - HomeIn(hash, cur, size) < Hop
    BY <2>1, <1>b, <1>2, <1>a DEF Inserting, Home
  <2>3. /\ bucket' = PlacedKey(bucket, at, cur)
        /\ hop' = PlacedBit(hop, HomeIn(hash, cur, size), at - HomeIn(hash, cur, size))
    BY <1>b DEF Home, PlacedKey, PlacedBit
  <2> QED BY ONLY <2>2, <2>3, PlaceLemma, SMTT(30)
<1> QED BY <1>3

(* hopscotch_remove takes away exactly its key, and says whether it did. *)
LEMMA RemoveStep ==
  ASSUME IInv, NEW k \in Keys, Remove(k)
  PROVE  /\ Table(bucket', hop', size) /\ Sound(hash, bucket', hop', size)
         /\ ret' \in {"data", "null"}
         /\ ret' = "data" <=> InTable(k, bucket, size)
         /\ \A x \in Keys : InTable(x, bucket', size) <=> InTable(x, bucket, size) /\ x # k
<1>a. hash \in Hashes /\ Table(bucket, hop, size) /\ Sound(hash, bucket, hop, size)
  BY TableFacts
<1>b. Lookup(k) <=> InTable(k, bucket, size)
  BY ZenonT(30), <1>a, LookupLemma DEF Lookup, Home
<1>1. CASE ~Lookup(k) /\ UNCHANGED <<bucket, hop>> /\ ret' = "null"
  BY <1>1, <1>a, <1>b
<1>2. ASSUME NEW o \in hop[Home(k)], bucket[Home(k) + o] = k, ret' = "data",
             bucket' = [bucket EXCEPT ![Home(k) + o] = NoKey],
             hop' = [hop EXCEPT ![Home(k)] = @ \ {o}]
      PROVE  /\ Table(bucket', hop', size) /\ Sound(hash, bucket', hop', size)
             /\ InTable(k, bucket, size)
             /\ \A x \in Keys : InTable(x, bucket', size) <=> InTable(x, bucket, size) /\ x # k
  <2>1. /\ hash \in Hashes /\ Table(bucket, hop, size) /\ Sound(hash, bucket, hop, size)
        /\ o \in hop[HomeIn(hash, k, size)] /\ bucket[HomeIn(hash, k, size) + o] = k
        /\ bucket' = PlacedKey(bucket, HomeIn(hash, k, size) + o, NoKey)
        /\ hop' = RemovedBit(hop, HomeIn(hash, k, size), o)
    BY <1>2, <1>a DEF Home, PlacedKey, RemovedBit
  <2>2. InTable(k, bucket, size)
    BY <1>2, <1>b DEF Lookup
  <2> QED BY ONLY <2>1, <2>2, k \in Keys, RemoveLemma, SMTT(30)
<1> QED BY <1>1, <1>2 DEF Remove

(* Every step of an insertion, a removal and a resize preserves it. *)
LEMMA StepInv == IInv /\ [Next]_vars => IInv'
<1> SUFFICES ASSUME IInv, [Next]_vars PROVE IInv'
  OBVIOUS
<1>0. /\ TypeOK /\ BitmapsExact /\ Control /\ Copying /\ (pc = "hop" => Inserting)
      /\ hash \in Hashes /\ Table(bucket, hop, size) /\ Table(old.bucket, old.hop, old.size)
      /\ Sound(hash, bucket, hop, size) /\ size \in Nat \ {0} /\ old.size \in Nat \ {0}
      /\ next \in Nat
  BY SMT, Shapes DEF IInv, BitmapsExact, Table, TypeOK
<1>1. ASSUME NEW k \in Keys, Insert(k) PROVE IInv'
  <2>1. EnterOutcome(k) /\ pc = "idle" /\ UNCHANGED <<hash, resizing, old, next>> /\ ~resizing
    BY <1>0, <1>1, EnterLemma DEF Insert, Control
  <2>2. UNCHANGED <<size, bucket, hop>> /\ BitmapsExact'
    BY ZenonT(30), <1>0, <2>1 DEF EnterOutcome, table, BitmapsExact
  <2>3. TypeOK'
    BY SMTT(30), <1>0, <2>1, <2>2 DEF TypeOK, EnterOutcome, Return, Buckets, Codes
  <2>4. Control' /\ Copying'
    BY <2>1 DEF Control, Copying, EnterOutcome, Return
  <2>5. pc' = "hop" => Inserting'
    BY <2>1, <2>2 DEF EnterOutcome, Return, Inserting, InTable, Home, Buckets
  <2> QED BY <2>2, <2>3, <2>4, <2>5 DEF IInv
<1>2. CASE Displace
  <2>0. /\ pc = "hop" /\ Inserting
        /\ UNCHANGED <<hash, size, pc, cur, resizing, old, next, res, ret>>
    BY <1>0, <1>2 DEF Displace
  <2>6. /\ Table(bucket', hop', size) /\ Sound(hash, bucket', hop', size)
        /\ at' \in 0 .. size - 1 /\ bucket'[at'] = NoKey /\ Home(cur) <= at'
        /\ \A x \in Keys : InTable(x, bucket', size) <=> InTable(x, bucket, size)
    BY <1>2, DisplaceLemma
  <2>7. TypeOK'
    BY SMT, <2>0, <2>6, <1>0 DEF TypeOK, Table, Buckets
  <2>8. BitmapsExact' /\ Control'
    BY <2>0, <2>6, <1>0 DEF BitmapsExact, Control
  <2>9. Inserting'
    BY <2>0, <2>6 DEF Inserting, Buckets, Home
  <2>10. Copying'
    <3>1. Copied(next) => Copied(next)'
      BY <2>0, <2>6 DEF Copied
    <3> QED BY <3>1, <2>0, <1>0 DEF Copying
  <2> QED BY <2>0, <2>7, <2>8, <2>9, <2>10 DEF IInv
<1>3. CASE NoRoom
  <2>0. /\ pc = "hop" /\ Return("no_room")
        /\ UNCHANGED <<hash, size, bucket, hop, resizing, old, next>>
    BY <1>3 DEF NoRoom, table
  <2>1. TypeOK'
    BY <2>0, <1>0 DEF TypeOK, Return, Buckets, Codes
  <2>2. BitmapsExact' /\ Control' /\ ~(pc' = "hop")
    BY <2>0, <1>0 DEF BitmapsExact, Return, Control
  <2>3. Copying'
    BY <2>0, <1>0 DEF Copying, Return
  <2> QED BY <2>1, <2>2, <2>3 DEF IInv
<1>4. CASE Place
  <2> DEFINE r == IF Crowded(hop'[Home(cur)]) THEN "crowded" ELSE "ok"
  <2>0. /\ pc = "hop" /\ ~TooFar /\ Inserting /\ Return(r)
        /\ bucket' = [bucket EXCEPT ![at] = cur]
        /\ hop' = [hop EXCEPT ![Home(cur)] = @ \cup {at - Home(cur)}]
        /\ UNCHANGED <<hash, size, resizing, old, next>>
    BY <1>0, <1>4 DEF Place
  <2>1. r \in {"crowded", "ok"}
    OBVIOUS
  <2> HIDE DEF r
  <2>3. /\ Table(bucket', hop', size) /\ Sound(hash, bucket', hop', size)
        /\ \A x \in Keys : InTable(x, bucket', size) <=> InTable(x, bucket, size) \/ x = cur
    BY <1>4, PlaceStep
  <2>4. TypeOK'
    BY <2>0, <2>1, <2>3, <1>0 DEF TypeOK, Table, Return, Buckets, Codes
  <2>5. BitmapsExact' /\ Control' /\ ~(pc' = "hop")
    BY <2>0, <2>3, <1>0 DEF BitmapsExact, Return, Control
  <2>6. Copying'
    <3>1. CASE resizing
      <4>1. Copied(next) /\ next < old.size /\ old.bucket[next] = cur
        BY <3>1, <2>0, <1>0 DEF Copying
      <4>2. Copied(next + 1)'
        <5>1. \A p : p \in 0 .. (next + 1) - 1 <=> p \in 0 .. next - 1 \/ p = next
          BY SMT, <1>0
        <5> QED BY <5>1, <4>1, <2>0, <2>3 DEF Copied
      <4> QED BY <4>1, <4>2, <3>1, <2>0, <1>0 DEF Copying, Return
    <3>2. CASE ~resizing
      BY <3>2, <2>0 DEF Copying
    <3> QED BY <3>1, <3>2
  <2> QED BY <2>4, <2>5, <2>6 DEF IInv
<1>5. ASSUME NEW k \in Keys, Remove(k) PROVE IInv'
  <2>0. pc = "idle" /\ ~resizing /\ UNCHANGED <<hash, size, pc, cur, at, resizing, old, next, res>>
    BY <1>0, <1>5 DEF Remove, Control
  <2>1. Table(bucket', hop', size) /\ Sound(hash, bucket', hop', size)
        /\ ret' \in {"data", "null"}
    BY <1>5, RemoveStep
  <2>2. TypeOK'
    BY <2>0, <2>1, <1>0 DEF TypeOK, Table, Buckets
  <2> QED BY <2>0, <2>1, <2>2, <1>0 DEF IInv, BitmapsExact, Control, Copying
<1>6. ASSUME NEW n \in Sizes, Resize(n) PROVE IInv'
  <2>0. pc = "idle" /\ ~resizing /\ UNCHANGED <<hash, cur, at, res>>
    BY <1>0, <1>6 DEF Resize, Control
  <2>1. CASE ret' = "failed" /\ UNCHANGED <<table, old, resizing, pc, next>>
    <3>1. TypeOK'
      BY <2>0, <2>1, <1>0 DEF TypeOK, table, Buckets
    <3> QED BY <3>1, <2>0, <2>1, <1>0 DEF IInv, BitmapsExact, Control, Copying, table
  <2>2. CASE /\ old' = [size |-> size, bucket |-> bucket, hop |-> hop]
             /\ size' = n /\ bucket' = Empty(n).bucket /\ hop' = Empty(n).hop
             /\ resizing' = TRUE /\ pc' = "resize" /\ next' = 0
             /\ UNCHANGED ret
    <3>0. n \in Nat \ {0}
      OBVIOUS
    <3>1. /\ Table(bucket', hop', n) /\ Sound(hash, bucket', hop', n)
          /\ \A k \in Keys : ~InTable(k, bucket', n)
      BY <2>2, <3>0, EmptySound, EmptyTable
    <3>2. old'.size = size /\ old'.bucket = bucket /\ old'.hop = hop
      BY ZenonT(30), <2>2
    <3>3. TypeOK'
      BY SMTT(30), <2>0, <2>2, <3>1, <3>2, <1>0 DEF TypeOK, Table, Buckets
    <3>4. Copied(next)'
      BY SMT, <2>2, <3>1 DEF Copied
    <3>5. Copying'
      BY <2>0, <2>2, <3>2, <3>4, <1>0 DEF Copying
    <3> QED BY <2>0, <2>2, <3>1, <3>3, <3>5 DEF IInv, BitmapsExact, Control
  <2> QED BY <1>6, <2>1, <2>2 DEF Resize
<1>7. CASE Reinsert
  <2>0. /\ pc = "resize" /\ resizing /\ next < old.size /\ Copied(next)
        /\ UNCHANGED <<hash, resizing, old>>
    BY <1>0, <1>7 DEF Reinsert, Control, Copying
  <2>1. CASE /\ old.bucket[next] = NoKey /\ next' = next + 1
             /\ UNCHANGED <<table, pc, cur, at, res, ret>>
    <3>1. TypeOK'
      BY SMTT(30), <2>0, <2>1, <1>0 DEF TypeOK, table, Buckets
    <3>2. Copied(next)'
      <4>1. \A p : p \in 0 .. (next + 1) - 1 <=> p \in 0 .. next - 1 \/ p = next
        BY SMT, <1>0
      <4> QED BY <4>1, <2>0, <2>1 DEF Copied, table
    <3> QED BY ZenonT(30), <3>1, <3>2, <2>0, <2>1, <1>0 DEF IInv, BitmapsExact, Control, Copying, table
  <2>2. CASE old.bucket[next] # NoKey /\ Enter(old.bucket[next]) /\ UNCHANGED next
    <3> DEFINE k == old.bucket[next]
    <3>1. k \in Keys
      BY SMTT(30), <2>0, <2>2, <1>0 DEF Table
    <3>2. EnterOutcome(k)
      BY <3>1, <2>2, <1>0, EnterLemma
    <3>3. UNCHANGED <<size, bucket, hop>> /\ BitmapsExact'
      BY <1>0, <2>0, <3>2 DEF EnterOutcome, table, BitmapsExact
    <3> HIDE DEF k
    <3>4. TypeOK'
      BY SMTT(30), <1>0, <2>0, <2>2, <3>1, <3>2, <3>3 DEF TypeOK, EnterOutcome, Return, Buckets, Codes
    <3>5. Control'
      BY <2>0, <3>2 DEF Control, EnterOutcome, Return
    <3>6. pc' = "hop" => Inserting'
      BY <3>1, <3>2, <3>3, <2>0 DEF EnterOutcome, Return, Inserting, InTable, Home, Buckets
    <3>7. Copying'
      <4>1. Copied(next)'
        BY <2>0, <2>2, <3>3 DEF Copied
      <4>2. pc' = "hop" => cur' = old.bucket[next]
        BY <3>2 DEF EnterOutcome, Return, k
      <4>3. pc' = "inserted" => res' # "ok"
        BY <3>2, <2>0 DEF EnterOutcome, Return
      <4> QED BY <4>1, <4>2, <4>3, <2>0, <2>2, <1>0 DEF Copying
    <3> QED BY ZenonT(30), <3>3, <3>4, <3>5, <3>6, <3>7 DEF IInv
  <2> QED BY <1>7, <2>1, <2>2 DEF Reinsert
<1>8. CASE Inserted
  <2>0. /\ pc = "inserted" /\ resizing /\ res' = "none" /\ UNCHANGED <<hash, cur, at>>
        /\ next < old.size /\ (res = "ok" => Copied(next + 1))
    BY <1>0, <1>8 DEF Inserted, Control, Copying
  <2>1. CASE /\ res = "ok" /\ pc' = "resize" /\ next' = next + 1
             /\ UNCHANGED <<table, resizing, old, ret>>
    <3>1. TypeOK'
      BY SMTT(30), <2>0, <2>1, <1>0 DEF TypeOK, table, Buckets, Codes
    <3>2. Copied(next)'
      BY <2>0, <2>1 DEF Copied, table
    <3> QED BY ZenonT(30), <3>1, <3>2, <2>0, <2>1, <1>0 DEF IInv, BitmapsExact, Control, Copying, table
  <2>2. CASE res # "ok" /\ Rollback /\ Resized("failed")
    <3>1. TypeOK'
      <4>1. old'.size = old.size /\ Table(old'.bucket, old'.hop, old'.size) /\ next' \in 0 .. old'.size
        <5>1. old' = Empty(old.size) /\ next' = 0 /\ old.size \in Nat \ {0}
          BY <2>2, <1>0 DEF Resized
        <5>2. old'.size = old.size
          BY <5>1, EmptyFields
        <5>3. Table(old'.bucket, old'.hop, old.size)
          BY <5>1, EmptyTable
        <5> QED BY SMT, <5>1, <5>2, <5>3
      <4>2. Table(bucket', hop', size') /\ size' \in Sizes
        BY <2>2, <1>0 DEF Rollback, TypeOK
      <4>3. bucket' \in [Buckets' -> Keys \cup {NoKey}] /\ hop' \in [Buckets' -> SUBSET Offsets]
        BY <4>2 DEF Table, Buckets
      <4>4. /\ old'.bucket \in [0 .. old'.size - 1 -> Keys \cup {NoKey}]
            /\ old'.hop \in [0 .. old'.size - 1 -> SUBSET Offsets]
        BY <4>1 DEF Table
      <4> QED BY <4>1, <4>2, <4>3, <4>4, <2>0, <2>2, <1>0 DEF TypeOK, Resized, Codes
    <3>2. BitmapsExact'
      BY <2>0, <2>2, <1>0 DEF BitmapsExact, Rollback, Copying
    <3> QED BY <3>1, <3>2, <2>2 DEF IInv, Control, Copying, Resized
  <2> QED BY <1>8, <2>1, <2>2 DEF Inserted
<1>9. CASE ReinsertedAll
  <2>0. Resized("ok") /\ UNCHANGED <<hash, size, bucket, hop, cur, at, res>>
    BY <1>9 DEF ReinsertedAll, table
  <2>1. TypeOK'
    <3>1. old'.size = old.size /\ Table(old'.bucket, old'.hop, old'.size) /\ next' \in 0 .. old'.size
      <4>1. old' = Empty(old.size) /\ next' = 0 /\ old.size \in Nat \ {0}
        BY <2>0, <1>0 DEF Resized
      <4>2. old'.size = old.size
        BY <4>1, EmptyFields
      <4>3. Table(old'.bucket, old'.hop, old.size)
        BY <4>1, EmptyTable
      <4> QED BY SMT, <4>1, <4>2, <4>3
    <3>2. /\ old'.bucket \in [0 .. old'.size - 1 -> Keys \cup {NoKey}]
          /\ old'.hop \in [0 .. old'.size - 1 -> SUBSET Offsets]
      BY <3>1 DEF Table
    <3> QED BY <3>1, <3>2, <2>0, <1>0 DEF TypeOK, Resized, Buckets, Codes
  <2> QED BY <2>0, <2>1, <1>0 DEF IInv, BitmapsExact, Control, Copying, Resized
<1>10. CASE UNCHANGED vars
  <2>0. UNCHANGED <<hash, size, bucket, hop, pc, cur, at, resizing, old, next, res, ret>>
    BY <1>10 DEF vars, table
  <2>1. TypeOK' /\ BitmapsExact' /\ Control'
    BY <2>0, <1>0 DEF TypeOK, BitmapsExact, Control, Buckets
  <2>2. (pc' = "hop" => Inserting') /\ Copying'
    BY <2>0, <1>0 DEF Inserting, Copying, Copied, Home, Buckets
  <2> QED BY <2>1, <2>2 DEF IInv
<1> QED
  BY <1>1, <1>2, <1>3, <1>4, <1>5, <1>6, <1>7, <1>8, <1>9, <1>10
     DEF Next, InsertSteps, OtherSteps

(* The bitmaps and the buckets of the table agree at every moment of every   *)
(* sequence of insertions, removals and resizes.                             *)
THEOREM BitmapsTheorem == Spec => []BitmapsExact
<1>1. IInv => BitmapsExact
  BY DEF IInv
<1> QED BY InitInv, StepInv, <1>1, PTL DEF Spec

(* hopscotch_lookup finds exactly the keys that are in the table. *)
THEOREM LookupTheorem == Spec => []LookupExact
<1>1. IInv => LookupExact
  <2> SUFFICES ASSUME IInv, NEW k \in Keys PROVE Lookup(k) <=> k \in KeysIn(bucket)
    BY DEF LookupExact
  <2>1. Lookup(k) <=> InTable(k, bucket, size)
    BY Shapes, LookupLemma DEF Lookup, IInv, BitmapsExact, Home
  <2>2. DOMAIN bucket = 0 .. size - 1
    BY DEF IInv, TypeOK, Buckets
  <2> QED BY <2>1, <2>2 DEF KeysIn, InTable
<1> QED BY InitInv, StepInv, <1>1, PTL DEF Spec

(* Two tables with the same keys in their buckets have the same set of keys. *)
LEMMA KeysLemma ==
  ASSUME NEW b, NEW h, NEW n, Table(b, h, n)
  PROVE  \A k : k \in KeysIn(b) <=> k \in Keys /\ InTable(k, b, n)
  BY DEF Table, KeysIn, InTable

(* To its user the table is a set of keys: each call changes the set as its  *)
(* return value says, and the moves and a resize, successful or not, do not  *)
(* change it.                                                                *)
THEOREM SetTheorem == Spec => KeySetSpec
<1> DEFINE stored == IF resizing THEN KeysIn(old.bucket) ELSE KeysIn(bucket)
<1>1. Init => KS!Init
  <2> SUFFICES ASSUME Init PROVE KeysIn(bucket) = {} /\ ~resizing /\ ret = "none"
    BY DEF KS!Init
  <2>1. bucket = [b \in 0 .. size - 1 |-> NoKey]
    BY EmptyFields DEF Init
  <2> QED BY <2>1 DEF Init, KeysIn
<1>2. IInv /\ [Next]_vars => [KS!Next]_KS!vars
  <2> DEFINE Goal == KS!Next \/ (stored' = stored /\ ret' = ret)
  <2> SUFFICES ASSUME IInv, [Next]_vars PROVE Goal
    BY DEF KS!vars
  <2>0. /\ Table(bucket, hop, size) /\ Table(old.bucket, old.hop, old.size)
        /\ Control /\ Copying /\ (pc = "hop" => Inserting)
        /\ TypeOK /\ BitmapsExact /\ next \in Nat /\ old.size \in Nat
    BY TableFacts DEF IInv
  <2>1. \A k : k \in KeysIn(bucket) <=> k \in Keys /\ InTable(k, bucket, size)
    BY <2>0, KeysLemma
  <2>2. ASSUME NEW k \in Keys, Insert(k) PROVE Goal
    <3>1. EnterOutcome(k) /\ pc = "idle" /\ UNCHANGED <<hash, resizing, old, next>> /\ ~resizing
      BY <2>0, <2>2, EnterLemma DEF Insert, Control
    <3>2. stored' = stored /\ (InTable(k, bucket, size) <=> k \in stored)
      BY <3>1, <2>1 DEF EnterOutcome, table
    <3>3. CASE ret' = ret
      BY <3>2, <3>3
    <3>4. ASSUME NEW r \in {"exists", "full"}, r = "exists" <=> InTable(k, bucket, size), ret' = r
          PROVE  Goal
      <4>1. \/ k \in stored /\ ret' = "exists" /\ stored' = stored
            \/ k \notin stored /\ ret' \in {"full", "no_room"} /\ stored' = stored
        BY <3>2, <3>4
      <4> QED BY <4>1 DEF KS!Next, KS!Insert
    <3> QED BY <3>1, <3>3, <3>4 DEF EnterOutcome, Return
  <2>3. CASE Displace
    <3>0. UNCHANGED <<size, resizing, old, ret>>
      BY <2>3 DEF Displace
    <3>1. /\ Table(bucket', hop', size)
          /\ \A x \in Keys : InTable(x, bucket', size) <=> InTable(x, bucket, size)
      BY <2>3, DisplaceLemma
    <3>2. \A k : k \in KeysIn(bucket') <=> k \in Keys /\ InTable(k, bucket', size)
      BY <3>1, KeysLemma
    <3>3. KeysIn(bucket') = KeysIn(bucket)
      BY <3>1, <3>2, <2>1
    <3> QED BY <3>0, <3>3
  <2>4. CASE NoRoom
    <3>0. pc = "hop" /\ Inserting /\ UNCHANGED <<bucket, old, resizing>> /\ Return("no_room")
      BY <2>0, <2>4 DEF NoRoom, table
    <3>1. stored' = stored /\ cur \in Keys
      BY <3>0 DEF Inserting
    <3>2. CASE resizing
      BY <3>0, <3>1, <3>2 DEF Return
    <3>3. CASE ~resizing
      <4>1. cur \notin stored /\ ret' \in {"full", "no_room"}
        BY <3>0, <3>3, <2>1 DEF Return, Inserting
      <4> QED BY <4>1, <3>1 DEF KS!Next, KS!Insert
    <3> QED BY <3>2, <3>3
  <2>5. CASE Place
    <3>0. /\ pc = "hop" /\ Inserting /\ UNCHANGED <<size, old, resizing>>
          /\ \E r \in {"ok", "crowded"} : Return(r)
      BY <2>0, <2>5 DEF Place
    <3>1. /\ Table(bucket', hop', size) /\ cur \in Keys
          /\ \A x \in Keys : InTable(x, bucket', size) <=> InTable(x, bucket, size) \/ x = cur
      BY <2>5, <3>0, PlaceStep DEF Inserting
    <3>2. CASE resizing
      BY <3>0, <3>2 DEF Return
    <3>3. CASE ~resizing
      <4>1. \A k : k \in KeysIn(bucket') <=> k \in Keys /\ InTable(k, bucket', size)
        BY <3>1, KeysLemma
      <4>2. KeysIn(bucket') = KeysIn(bucket) \cup {cur} /\ cur \notin KeysIn(bucket)
        BY <4>1, <3>0, <3>1, <2>1 DEF Inserting
      <4>3. /\ cur \notin stored /\ ret' \in {"ok", "crowded"}
            /\ stored' = stored \cup {cur}
        BY <4>2, <3>0, <3>3 DEF Return
      <4> QED BY <4>3, <3>1 DEF KS!Next, KS!Insert
    <3> QED BY <3>2, <3>3
  <2>6. ASSUME NEW k \in Keys, Remove(k) PROVE Goal
    <3>0. ~resizing /\ UNCHANGED <<size, resizing>>
      BY <2>0, <2>6 DEF Remove, Control
    <3>1. /\ Table(bucket', hop', size) /\ ret' \in {"data", "null"}
          /\ ret' = "data" <=> InTable(k, bucket, size)
          /\ \A x \in Keys : InTable(x, bucket', size) <=> InTable(x, bucket, size) /\ x # k
      BY <2>6, RemoveStep
    <3>2. \A x : x \in KeysIn(bucket') <=> x \in Keys /\ InTable(x, bucket', size)
      BY <3>1, KeysLemma
    <3>3. KeysIn(bucket') = KeysIn(bucket) \ {k} /\ (ret' = "data" <=> k \in KeysIn(bucket))
      BY <3>1, <3>2, <2>1
    <3>4. \/ k \in stored /\ ret' = "data" /\ stored' = stored \ {k}
          \/ k \notin stored /\ ret' = "null" /\ stored' = stored
      BY <3>0, <3>1, <3>3
    <3> QED BY <3>4 DEF KS!Next, KS!Remove
  <2>7. ASSUME NEW n \in Sizes, Resize(n) PROVE Goal
    <3>0. ~resizing
      BY <2>0, <2>7 DEF Resize, Control
    <3>1. CASE ret' = "failed" /\ UNCHANGED <<table, old, resizing, pc, next>>
      <4>1. stored' = stored /\ ret' \in {"ok", "failed"}
        BY <3>1 DEF table
      <4> QED BY <4>1 DEF KS!Next, KS!Resize
    <3>2. CASE /\ old' = [size |-> size, bucket |-> bucket, hop |-> hop]
               /\ resizing' = TRUE /\ UNCHANGED ret
      BY <3>0, <3>2
    <3> QED BY <2>7, <3>1, <3>2 DEF Resize
  <2>8. CASE Reinsert
    <3>0. resizing /\ UNCHANGED <<resizing, old>>
      BY <2>0, <2>8 DEF Reinsert, Control
    <3>1. CASE old.bucket[next] = NoKey /\ UNCHANGED <<table, pc, cur, at, res, ret>>
      BY <3>0, <3>1
    <3>2. CASE old.bucket[next] # NoKey /\ Enter(old.bucket[next]) /\ next < old.size
      <4>1. old.bucket[next] \in Keys
        <5>1. next \in 0 .. old.size - 1
          BY SMT, <2>0, <3>2 DEF TypeOK, Table
        <5> QED BY <2>0, <3>2, <5>1 DEF Table
      <4>2. EnterOutcome(old.bucket[next])
        BY <4>1, <3>2, <2>0, EnterLemma
      <4>3. ret' = ret
        BY <4>2, <3>0 DEF EnterOutcome, Return
      <4> QED BY <4>3, <3>0
    <3> QED BY <2>8, <3>1, <3>2 DEF Reinsert
  <2>9. CASE Inserted
    <3>0. resizing
      BY <2>0, <2>9 DEF Inserted, Control
    <3>1. CASE UNCHANGED <<table, resizing, old, ret>>
      BY <3>1 DEF table
    <3>2. CASE Rollback /\ Resized("failed")
      <4>1. stored' = stored /\ ret' \in {"ok", "failed"}
        BY <3>0, <3>2 DEF Rollback, Resized
      <4> QED BY <4>1 DEF KS!Next, KS!Resize
    <3> QED BY <2>9, <3>1, <3>2 DEF Inserted
  <2>10. CASE ReinsertedAll
    <3>0. /\ resizing /\ Copied(old.size) /\ ~resizing' /\ ret' = "ok"
          /\ UNCHANGED bucket
      BY <2>0, <2>10 DEF ReinsertedAll, Control, Copying, Resized, table
    <3>1. \A k : k \in KeysIn(old.bucket) <=> k \in Keys /\ InTable(k, old.bucket, old.size)
      BY <2>0, KeysLemma
    <3>2. KeysIn(bucket) = KeysIn(old.bucket)
      BY <3>0, <3>1, <2>1 DEF Copied, InTable
    <3>3. stored' = stored /\ ret' \in {"ok", "failed"}
      BY <3>0, <3>2
    <3> QED BY <3>3 DEF KS!Next, KS!Resize
  <2>11. CASE UNCHANGED vars
    BY <2>11 DEF vars, table
  <2> QED
    BY <2>2, <2>3, <2>4, <2>5, <2>6, <2>7, <2>8, <2>9, <2>10, <2>11
       DEF Next, InsertSteps, OtherSteps
<1>3. Spec => KS!Init /\ [][KS!Next]_KS!vars
  BY InitInv, StepInv, <1>1, <1>2, PTL DEF Spec
<1> QED BY <1>3 DEF KeySetSpec, KS!Spec

-----------------------------------------------------------------------------
Filling == phase \in {"library", "populate"}

(* While the table is filled no reader runs; from the dump on neither the    *)
(* table nor the dump changes, and the dump says what is in the table.       *)
PhaseInv ==
  IF Filling
  THEN /\ \A t \in Threads : rpc[t] = "off" /\ out[t] = NoLookup
       /\ sq = <<>> /\ cq = <<>>
  ELSE image = [b \in Buckets |-> DumpBucket(b)]

(* A thread that has posted a read still counts it.                          *)
Reading(t) == rpc[t] \in {"wait", "notify", "poll", "examine"}
LeftInv == \A t \in Threads : Reading(t) => left[t] > 0

(* The threads that have left rpma_cq_wait for a completion, and those that  *)
(* have posted a read and not collected a completion for it.                 *)
Awake == {t \in Threads : rpc[t] \in {"notify", "poll"}}
Owed == {t \in Threads : rpc[t] \notin {"off", "next", "examine"}}

(* There are no more reads and completions than threads that owe one a poll. *)
OwedInv == Len(sq) + Len(cq) <= Cardinality(Owed)

StoreIInv ==
  /\ IInv /\ StoreTypeOK /\ PhaseInv /\ LeftInv
  /\ StoredIsFound /\ WakeupMeansCompletion /\ OwedInv

------------------------------------------------------------------------------
Places == {"off", "next", "wait", "notify", "poll", "examine", "end", "undefined"}

(* Is a thread at p one of them?                                             *)
AwakeAt(p) == IF p \in {"notify", "poll"} THEN 1 ELSE 0
OwedAt(p) == IF p \notin {"off", "next", "examine"} THEN 1 ELSE 0

(* The threads can be counted.                                               *)
LEMMA Counted ==
  /\ IsFiniteSet(Awake) /\ Cardinality(Awake) \in Nat
  /\ IsFiniteSet(Owed) /\ Cardinality(Owed) \in Nat
<1>1. Awake \in SUBSET Threads /\ Owed \in SUBSET Threads
  BY DEF Awake, Owed
<1> QED BY <1>1, ThreadsAssumption, FS_Subset, FS_CardinalityType

(* What is counted when a thread goes on.                                    *)
LEMMA ThreadMoves ==
  ASSUME StoreTypeOK, NEW t \in Threads, NEW p \in Places, rpc' = [rpc EXCEPT ![t] = p]
  PROVE  /\ rpc' \in [Threads -> Places] /\ rpc'[t] = p
         /\ \A u \in Threads : u # t => rpc'[u] = rpc[u]
         /\ Cardinality(Awake') = Cardinality(Awake) + AwakeAt(p)
                                    - AwakeAt(rpc[t])
         /\ Cardinality(Owed') = Cardinality(Owed) + OwedAt(p)
                                    - OwedAt(rpc[t])
<1>1. rpc' \in [Threads -> Places] /\ rpc'[t] = p /\ \A u \in Threads : u # t => rpc'[u] = rpc[u]
  BY DEF StoreTypeOK, Places
<1>2. Cardinality(Awake') = Cardinality(Awake) + AwakeAt(p)
                              - AwakeAt(rpc[t])
  <2>1. CASE p \in {"notify", "poll"}
    <3>1. Awake' = Awake \cup {t}
      BY <1>1, <2>1 DEF Awake
    <3>2. t \in Awake <=> rpc[t] \in {"notify", "poll"}
      BY DEF Awake
    <3>3. Cardinality(Awake \cup {t}) = IF t \in Awake THEN Cardinality(Awake) ELSE Cardinality(Awake) + 1
      BY Counted, FS_AddElement
    <3> QED BY SMT, <2>1, <3>1, <3>2, <3>3, Counted DEF AwakeAt, OwedAt
  <2>2. CASE p \notin {"notify", "poll"}
    <3>1. Awake' = Awake \ {t}
      BY <1>1, <2>2 DEF Awake
    <3>2. t \in Awake <=> rpc[t] \in {"notify", "poll"}
      BY DEF Awake
    <3>3. Cardinality(Awake \ {t}) = IF t \in Awake THEN Cardinality(Awake) - 1 ELSE Cardinality(Awake)
      BY Counted, FS_RemoveElement
    <3> QED BY SMT, <2>2, <3>1, <3>2, <3>3, Counted DEF AwakeAt, OwedAt
  <2> QED BY <2>1, <2>2
<1>3. Cardinality(Owed') = Cardinality(Owed) + OwedAt(p)
                              - OwedAt(rpc[t])
  <2>1. CASE p \notin {"off", "next", "examine"}
    <3>1. Owed' = Owed \cup {t}
      BY <1>1, <2>1 DEF Owed
    <3>2. t \in Owed <=> rpc[t] \notin {"off", "next", "examine"}
      BY DEF Owed
    <3>3. Cardinality(Owed \cup {t}) = IF t \in Owed THEN Cardinality(Owed) ELSE Cardinality(Owed) + 1
      BY Counted, FS_AddElement
    <3> QED BY SMT, <2>1, <3>1, <3>2, <3>3, Counted DEF AwakeAt, OwedAt
  <2>2. CASE p \in {"off", "next", "examine"}
    <3>1. Owed' = Owed \ {t}
      BY <1>1, <2>2 DEF Owed
    <3>2. t \in Owed <=> rpc[t] \notin {"off", "next", "examine"}
      BY DEF Owed
    <3>3. Cardinality(Owed \ {t}) = IF t \in Owed THEN Cardinality(Owed) - 1 ELSE Cardinality(Owed)
      BY Counted, FS_RemoveElement
    <3> QED BY SMT, <2>2, <3>1, <3>2, <3>3, Counted DEF AwakeAt, OwedAt
  <2> QED BY <2>1, <2>2
<1> QED BY <1>1, <1>2, <1>3

(* The tables before the first step.                                         *)
LEMMA StoreInitInv == StoreInit => StoreIInv
<1> SUFFICES ASSUME StoreInit PROVE StoreIInv
  OBVIOUS
<1>1. IInv
  BY InitInv DEF StoreInit
<1>2. sq = <<>> /\ cq = <<>> /\ Len(sq) = 0 /\ Len(cq) = 0 /\ events = 0
  BY DEF StoreInit
<1>3. rpc = [t \in Threads |-> "off"] /\ out = [t \in Threads |-> NoLookup]
      /\ key = [t \in Threads |-> NoKey] /\ buf = [t \in Threads |-> NoKey] /\ left = [t \in Threads |-> 0]
  BY DEF StoreInit
<1>4. NoLookup \in [of : Keys \cup {NoKey}, got : SUBSET (Keys \cup {NoKey}), own : BOOLEAN]
      /\ NoLookup.of = NoKey
  BY DEF NoLookup
<1>5. StoreTypeOK
  <2>1. /\ rpc \in [Threads -> {"off", "next", "wait", "notify", "poll", "examine", "end", "undefined"}]
        /\ key \in [Threads -> Keys \cup {NoKey}] /\ buf \in [Threads -> Keys \cup {NoKey}]
        /\ left \in [Threads -> Nat]
    BY <1>3
  <2>2. out \in [Threads -> [of : Keys \cup {NoKey}, got : SUBSET (Keys \cup {NoKey}), own : BOOLEAN]]
    BY <1>3, <1>4
  <2>3. sq \in Seq([th : Threads, key : Keys]) /\ cq \in Seq(BOOLEAN)
    BY SMT, <1>2
  <2>4. phase \in {"library", "populate"} /\ armed \in BOOLEAN /\ events \in Nat /\ freed = {}
    BY DEF StoreInit
  <2>5. TypeOK
    BY <1>1 DEF IInv
  <2> QED BY <2>1, <2>2, <2>3, <2>4, <2>5 DEF StoreTypeOK
<1>6. PhaseInv
  BY <1>2, <1>3 DEF PhaseInv, Filling, StoreInit
<1>7. LeftInv
  BY <1>3 DEF LeftInv, Reading
<1>8. StoredIsFound
  BY <1>3, <1>4 DEF StoredIsFound, KeysIn
<1>9. Awake = {}
  BY <1>3 DEF Awake
<1>10. WakeupMeansCompletion
  <2>1. Cardinality({}) = 0
    BY FS_EmptySet
  <2>2. Len(cq) >= events + 0
    BY SMT, <1>2
  <2> QED BY <1>9, <2>1, <2>2 DEF WakeupMeansCompletion, Awake
<1>11. OwedInv
  BY SMT, <1>2, Counted DEF OwedInv
<1> QED BY <1>1, <1>5, <1>6, <1>7, <1>8, <1>10, <1>11 DEF StoreIInv

------------------------------------------------------------------------------
(* Whatever the programs do, the table is only changed by hopscotch.h.       *)
LEMMA TableSteps == [StoreNext]_storeVars => [Next]_vars
<1> SUFFICES ASSUME [StoreNext]_storeVars PROVE [Next]_vars
  OBVIOUS
<1>1. CASE TableStep
  BY <1>1 DEF TableStep, Next
<1>2. CASE UNCHANGED storeVars
  BY <1>2 DEF storeVars
<1>3. CASE \E reader \in {"readhash", "single", "multi"} : Dump(reader)
  BY <1>3 DEF Dump
<1>4. CASE \E k \in Keys : ReadHash(k)
  BY <1>4 DEF ReadHash
<1>5. CASE Complete
  BY <1>5 DEF Complete
<1>6. CASE \E t \in Threads : Post(t) \/ Wait(t) \/ Notify(t) \/ Poll(t) \/ Examine(t)
  BY <1>6 DEF Post, Wait, Notify, Poll, Examine
<1> QED BY <1>1, <1>2, <1>3, <1>4, <1>5, <1>6 DEF StoreNext

(* A step of writehash, or of another user of hopscotch.h.                   *)
LEMMA TableStepKeeps ==
  ASSUME StoreIInv, TableStep
  PROVE  StoreIInv'
<1>1. IInv'
  BY TableSteps, StepInv DEF StoreIInv, StoreNext
<1>2. UNCHANGED <<phase, image, clientVars>> /\ Filling
  BY DEF TableStep, Filling
<1>3. UNCHANGED <<rpc, key, buf, out, left, sq, cq, armed, events, freed>>
  BY <1>2 DEF clientVars
<1>4. StoreTypeOK'
  BY <1>1, <1>2, <1>3 DEF StoreIInv, StoreTypeOK, IInv
<1>5. PhaseInv' /\ LeftInv'
  BY <1>2, <1>3 DEF StoreIInv, PhaseInv, Filling, LeftInv, Reading
<1>6. StoredIsFound'
  <2>1. \A t \in Threads : out'[t].of = NoKey
    BY SMT, <1>2, <1>3 DEF StoreIInv, PhaseInv, NoLookup
  <2> QED BY <2>1 DEF StoredIsFound, KeysIn
<1>7. Awake' = Awake /\ Owed' = Owed
  BY <1>3 DEF Awake, Owed
<1>8. WakeupMeansCompletion' /\ OwedInv'
  BY <1>3, <1>7 DEF StoreIInv, WakeupMeansCompletion, OwedInv, Awake
<1> QED BY <1>1, <1>4, <1>5, <1>6, <1>8 DEF StoreIInv

(* The dump.                                                                 *)
LEMMA DumpKeeps ==
  ASSUME StoreIInv, NEW reader \in {"readhash", "single", "multi"}, Dump(reader)
  PROVE  StoreIInv'
<1>1. IInv'
  BY TableSteps, StepInv DEF StoreIInv, StoreNext
<1>2. /\ Filling /\ UNCHANGED vars /\ UNCHANGED <<key, buf, out, sq, cq, armed, events, freed>>
      /\ phase' = reader /\ image' = [b \in Buckets |-> DumpBucket(b)]
      /\ rpc' = [t \in Threads |-> IF t = Main \/ reader = "multi" THEN "next" ELSE "off"]
      /\ left' = [t \in Threads |-> IF reader = "multi" THEN Lookups ELSE SoloLookups]
  BY DEF Dump, Filling
<1>3. UNCHANGED <<hash, size, bucket, hop>>
  BY <1>2 DEF vars, table
<1>4. StoreTypeOK'
  <2>1. rpc' \in [Threads -> {"off", "next", "wait", "notify", "poll", "examine", "end", "undefined"}]
    BY <1>2
  <2>2. left' \in [Threads -> Nat]
    BY <1>2, LookupsAssumption
  <2> QED BY <1>1, <1>2, <2>1, <2>2 DEF StoreIInv, StoreTypeOK, IInv
<1>5. PhaseInv'
  <2>1. ~Filling'
    BY <1>2 DEF Filling
  <2>2. image' = [b \in Buckets' |-> DumpBucket(b)']
    BY <1>2, <1>3 DEF Buckets, DumpBucket
  <2> QED BY <2>1, <2>2 DEF PhaseInv
<1>6. \A t \in Threads : rpc'[t] \in {"off", "next"}
  BY <1>2
<1>7. LeftInv'
  BY <1>6 DEF LeftInv, Reading
<1>8. StoredIsFound'
  <2>1. \A t \in Threads : out'[t].of = NoKey
    BY SMT, <1>2 DEF StoreIInv, PhaseInv, NoLookup
  <2> QED BY <2>1 DEF StoredIsFound, KeysIn
<1>9. Awake' = {} /\ Owed' = {} /\ Awake = {}
  BY <1>2, <1>6 DEF Awake, Owed, StoreIInv, PhaseInv
<1>10. WakeupMeansCompletion'
  BY <1>2, <1>9 DEF WakeupMeansCompletion, Awake, StoreIInv
<1>11. OwedInv'
  <2>1. Len(sq) = 0 /\ Len(cq) = 0
    BY SMT, <1>2 DEF StoreIInv, PhaseInv
  <2> QED BY SMTT(30), <1>2, <1>9, <2>1, FS_EmptySet DEF OwedInv
<1> QED BY <1>1, <1>4, <1>5, <1>7, <1>8, <1>10, <1>11 DEF StoreIInv

------------------------------------------------------------------------------
(* A step of a reader or of the network leaves the table and the dump alone. *)
LEMMA ReaderStep ==
  ASSUME StoreIInv, ~Filling, UNCHANGED <<vars, phase, image>>
  PROVE  /\ IInv' /\ TypeOK' /\ PhaseInv'
         /\ UNCHANGED out => StoredIsFound'
         /\ UNCHANGED <<hash, size, bucket, hop>>
<1>1. IInv' /\ TypeOK'
  BY StepInv DEF StoreIInv, IInv
<1>2. UNCHANGED <<hash, size, bucket, hop>>
  BY DEF vars, table
<1>3. PhaseInv'
  <2>1. image' = [b \in Buckets' |-> DumpBucket(b)']
    BY <1>2 DEF StoreIInv, PhaseInv, Buckets, DumpBucket
  <2> QED BY <2>1 DEF PhaseInv, Filling
<1>4. UNCHANGED out => StoredIsFound'
  BY ZenonT(30), <1>2 DEF StoreIInv, StoredIsFound, Home, HomeIn, KeysIn
<1> QED BY <1>1, <1>2, <1>3, <1>4

Lookedup == [of : Keys \cup {NoKey}, got : SUBSET (Keys \cup {NoKey}), own : BOOLEAN]

(* What StoredIsFound says of one lookup.                                    *)
Found(r) ==
  (r.of \in KeysIn(bucket) /\ r.own /\ image[Home(r.of)].valid /\ Legible(image[Home(r.of)].hop))
     => r.of \in r.got

(* A lookup of which that is true keeps StoredIsFound.                       *)
LEMMA OutKeeps ==
  ASSUME StoreIInv, ~Filling, UNCHANGED <<vars, phase, image>>,
         NEW t \in Threads, NEW r \in Lookedup, Found(r), out' = [out EXCEPT ![t] = r]
  PROVE  out' \in [Threads -> Lookedup] /\ StoredIsFound'
<1>1. UNCHANGED <<hash, size, bucket, hop, image>>
  BY ReaderStep
<1>2. out \in [Threads -> Lookedup]
  BY DEF StoreIInv, StoreTypeOK, Lookedup
<1>3. out' \in [Threads -> Lookedup] /\ out'[t] = r /\ \A u \in Threads : u # t => out'[u] = out[u]
  BY <1>2
<1>4. \A u \in Threads : Found(out'[u])
  BY <1>3 DEF StoreIInv, StoredIsFound, Found
<1>5. ASSUME NEW k PROVE Home(k)' = Home(k)
  BY <1>1 DEF Home, HomeIn
<1>6. KeysIn(bucket)' = KeysIn(bucket)
  BY <1>1 DEF KeysIn
<1>7. ASSUME NEW x, Found(x) PROVE Found(x)'
  BY <1>1, <1>5, <1>6, <1>7 DEF Found
<1>8. \A u \in Threads : Found(out[u])'
  <2> SUFFICES ASSUME NEW u \in Threads PROVE Found(out[u])'
    OBVIOUS
  <2>1. PICK x : x = out'[u]
    OBVIOUS
  <2>2. Found(x)'
    BY <1>4, <1>7, <2>1
  <2> QED BY <2>1, <2>2
<1>9. StoredIsFound'
  BY <1>8 DEF StoredIsFound, Found
<1> QED BY <1>3, <1>9

(* The lookup in the segment of key s.  When s is the key that is looked for *)
(* and the dump has kept its home's bitmap, the bitmap names the bucket the  *)
(* key is in; and a bitmap of 1 can only mean the home itself.               *)
LEMMA ExaminedIs ==
  ASSUME StoreIInv, ~Filling, NEW t \in Threads, NEW k \in Keys \cup {NoKey}, NEW s \in Keys,
         Examined(t, k, s)
  PROVE  \E r \in Lookedup : Found(r) /\ out' = [out EXCEPT ![t] = r]
<1> DEFINE b == Home(s)
<1>1. /\ hash \in Hashes /\ Table(bucket, hop, size) /\ Sound(hash, bucket, hop, size)
      /\ size \in Nat \ {0}
  BY TableFacts DEF StoreIInv
<1>2. b \in Buckets
  BY <1>1, HomeBucket DEF Home, Buckets
<1>3. image = [c \in Buckets |-> DumpBucket(c)]
  BY DEF StoreIInv, PhaseInv
<1>4. \A c \in Buckets : image[c].key = bucket[c] /\ bucket[c] \in Keys \cup {NoKey}
  BY <1>1, <1>3 DEF DumpBucket, Table, Buckets
<1>5. CASE ~image[b].valid /\ out' = [out EXCEPT ![t] = [of |-> k, got |-> {}, own |-> s = k]]
  <2> DEFINE r == [of |-> k, got |-> {}, own |-> s = k]
  <2>1. r \in Lookedup /\ r.of = k /\ (r.own <=> s = k)
    BY DEF Lookedup
  <2>2. Found(r)
    BY <1>5, <2>1 DEF Found
  <2> QED BY <1>5, <2>1, <2>2
<1>6. ASSUME image[b].valid, NEW h \in Parsed(image[b].hop),
             out' = [out EXCEPT ![t] = [of |-> k, got |-> Taken(b, h, k), own |-> s = k]]
      PROVE  \E r \in Lookedup : Found(r) /\ out' = [out EXCEPT ![t] = r]
  <2> DEFINE r == [of |-> k, got |-> Taken(b, h, k), own |-> s = k]
  <2>1. image[b].hop = hop[b] /\ hop[b] \subseteq Offsets
    BY <1>1, <1>2, <1>3, <1>6 DEF DumpBucket, Table, Buckets
  <2>2. h \subseteq Offsets
    BY <1>6, <2>1 DEF Parsed
  <2>3. \A o \in h : b + o < size => b + o \in Buckets
    BY SMT, <1>1, <1>2, <2>2 DEF Buckets, Offsets
  <2>4. Taken(b, h, k) \subseteq Keys \cup {NoKey}
    BY <1>2, <1>4, <2>3 DEF Taken
  <2>5. r \in Lookedup /\ r.of = k /\ (r.own <=> s = k) /\ r.got = Taken(b, h, k)
    BY <2>4 DEF Lookedup
  <2>6. Found(r)
    <3> SUFFICES ASSUME k \in KeysIn(bucket), s = k, Legible(image[b].hop)
                 PROVE  k \in Taken(b, h, k)
      BY <2>5 DEF Found
    <3>1. h = hop[b]
      BY <2>1, <1>6 DEF Parsed
    <3>2. InTable(k, bucket, size)
      BY <1>1 DEF KeysIn, InTable, Table
    <3>3. PICK o \in hop[b] : bucket[b + o] = k
      BY SMT, <1>1, <3>2, LookupLemma DEF Home
    <3>4. o \in Offsets /\ b + o < size
      BY <1>1, <1>2, <2>1, <3>3 DEF Sound, Maps, Buckets
    <3>5. b + o \in Buckets
      BY <2>3, <3>1, <3>4
    <3>6. image[b + o].key = k
      BY <1>4, <3>3, <3>5
    <3>7. CASE h = {0}
      <4>1. o = 0 /\ b + o = b
        BY SMT, <3>1, <3>7, <1>2 DEF Buckets
      <4> QED BY <3>6, <3>7, <4>1 DEF Taken
    <3>8. CASE h # {0}
      BY <3>1, <3>4, <3>6, <3>8 DEF Taken, Matches
    <3> QED BY <3>7, <3>8
  <2> QED BY <1>6, <2>5, <2>6
<1> QED BY <1>5, <1>6 DEF Examined

(* One round of readhash.                                                    *)
LEMMA ReadHashKeeps ==
  ASSUME StoreIInv, NEW k \in Keys, ReadHash(k)
  PROVE  StoreIInv'
<1>1. /\ ~Filling /\ UNCHANGED <<vars, phase, image, rpc, key, buf, sq, cq, armed, events, freed>>
      /\ rpc[Main] = "next" /\ left[Main] > 0 /\ left' = [left EXCEPT ![Main] = @ - 1]
      /\ Examined(Main, k, k) /\ Main \in Threads
  BY ThreadsAssumption DEF ReadHash, Filling
<1>2. PICK r \in Lookedup : Found(r) /\ out' = [out EXCEPT ![Main] = r]
  BY <1>1, ExaminedIs
<1>3. out' \in [Threads -> Lookedup] /\ StoredIsFound'
  BY <1>1, <1>2, OutKeeps
<1>4. IInv' /\ TypeOK' /\ PhaseInv'
  BY <1>1, ReaderStep
<1>5. left' \in [Threads -> Nat] /\ \A u \in Threads : u # Main => left'[u] = left[u]
  BY SMT, <1>1 DEF StoreIInv, StoreTypeOK
<1>6. StoreTypeOK'
  BY <1>1, <1>3, <1>4, <1>5 DEF StoreIInv, StoreTypeOK, Lookedup
<1>7. LeftInv'
  BY <1>1, <1>5 DEF StoreIInv, LeftInv, Reading
<1>8. WakeupMeansCompletion' /\ OwedInv'
  BY <1>1 DEF StoreIInv, WakeupMeansCompletion, OwedInv, Owed
<1> QED BY <1>3, <1>4, <1>6, <1>7, <1>8 DEF StoreIInv

------------------------------------------------------------------------------
(* A queue is a function on an interval.                                     *)
LEMMA SeqLength == ASSUME NEW S, NEW s \in Seq(S) PROVE Len(s) \in Nat /\ DOMAIN s = 1 .. Len(s)
  BY SMT

(* Posting a read, and a completion, make a queue longer by one.             *)
LEMMA SeqAppend ==
  ASSUME NEW S, NEW s \in Seq(S), NEW e \in S
  PROVE  Append(s, e) \in Seq(S) /\ Len(Append(s, e)) = Len(s) + 1
  BY SMT

(* Taking the first entry makes it shorter by one.                           *)
LEMMA SeqTail ==
  ASSUME NEW S, NEW s \in Seq(S), s # <<>>
  PROVE  Head(s) \in S /\ Tail(s) \in Seq(S) /\ Len(Tail(s)) = Len(s) - 1
  BY SMT

(* The queues have lengths.                                                  *)
LEMMA Lengths ==
  ASSUME StoreIInv
  PROVE  Len(sq) \in Nat /\ Len(cq) \in Nat /\ events \in Nat
<1>1. sq \in Seq([th : Threads, key : Keys]) /\ cq \in Seq(BOOLEAN) /\ events \in Nat
  BY DEF StoreIInv, StoreTypeOK
<1> QED BY <1>1, SeqLength

(* A thread that runs goes on, and leaves its lookups alone.  The counts are *)
(* what OwedInv and WakeupMeansCompletion ask for.                           *)
LEMMA ThreadKeeps ==
  ASSUME StoreIInv, NEW t \in Threads, NEW p \in Places, rpc[t] \notin {"off"},
         rpc' = [rpc EXCEPT ![t] = p], UNCHANGED <<vars, phase, image, buf, out, left>>,
         key' \in [Threads -> Keys \cup {NoKey}],
         sq' \in Seq([th : Threads, key : Keys]), cq' \in Seq(BOOLEAN),
         armed' \in BOOLEAN, events' \in Nat, freed' \subseteq Threads,
         p \in {"wait", "notify", "poll", "examine"} => left[t] > 0,
         Len(cq') - events' - AwakeAt(p)
           >= Len(cq) - events - AwakeAt(rpc[t]),
         Len(sq') + Len(cq') - OwedAt(p)
           <= Len(sq) + Len(cq) - OwedAt(rpc[t])
  PROVE  StoreIInv'
<1>1. ~Filling
  BY DEF StoreIInv, PhaseInv
<1>2. IInv' /\ TypeOK' /\ PhaseInv' /\ StoredIsFound'
  BY <1>1, ReaderStep
<1>3. StoreTypeOK
  BY DEF StoreIInv
<1>4. /\ rpc' \in [Threads -> Places] /\ rpc'[t] = p
      /\ \A u \in Threads : u # t => rpc'[u] = rpc[u]
  BY <1>3, ThreadMoves
<1>5. StoreTypeOK'
  BY <1>2, <1>3, <1>4 DEF StoreTypeOK, Places
<1>6. LeftInv'
  BY ZenonT(30), <1>4 DEF StoreIInv, LeftInv, Reading
<1>7. /\ Len(sq) \in Int /\ Len(cq) \in Int /\ events \in Int
      /\ Len(sq') \in Int /\ Len(cq') \in Int /\ events' \in Int
      /\ Cardinality(Awake) \in Int /\ Cardinality(Owed) \in Int
  BY SMT, Lengths, Counted, SeqLength
<1>8. WakeupMeansCompletion'
  <2>1. Cardinality(Awake') = Cardinality(Awake) + AwakeAt(p)
                                - AwakeAt(rpc[t])
    BY <1>3, ThreadMoves
  <2>2. Len(cq) >= events + Cardinality(Awake)
    BY DEF StoreIInv, WakeupMeansCompletion, Awake
  <2>3. Len(cq') >= events' + Cardinality(Awake')
    BY SMTT(30), <1>7, <2>1, <2>2 DEF AwakeAt, OwedAt
  <2> QED BY <2>3 DEF WakeupMeansCompletion, Awake
<1>9. OwedInv'
  <2>1. Cardinality(Owed') = Cardinality(Owed) + OwedAt(p)
                                - OwedAt(rpc[t])
    BY <1>3, ThreadMoves
  <2>2. Len(sq) + Len(cq) <= Cardinality(Owed)
    BY DEF StoreIInv, OwedInv
  <2>3. Len(sq') + Len(cq') <= Cardinality(Owed')
    BY SMTT(30), <1>7, <2>1, <2>2 DEF AwakeAt, OwedAt
  <2> QED BY <2>3 DEF OwedInv
<1> QED BY <1>2, <1>5, <1>6, <1>8, <1>9 DEF StoreIInv

(* What a thread leaves alone keeps its type.                                *)
LEMMA ClientTypes ==
  ASSUME StoreIInv
  PROVE  /\ key \in [Threads -> Keys \cup {NoKey}]
         /\ sq \in Seq([th : Threads, key : Keys]) /\ cq \in Seq(BOOLEAN)
         /\ armed \in BOOLEAN /\ events \in Nat /\ freed \subseteq Threads
         /\ \A t \in Threads : rpc[t] \in {"wait", "notify", "poll", "examine"} => left[t] > 0
  BY DEF StoreIInv, StoreTypeOK, LeftInv, Reading

(* rpma_read().                                                              *)
LEMMA PostKeeps ==
  ASSUME StoreIInv, NEW t \in Threads, Post(t)
  PROVE  StoreIInv'
<1>1. /\ rpc[t] = "next" /\ left[t] > 0
      /\ UNCHANGED <<vars, phase, image, buf, out, left, cq, armed, events>>
  BY DEF Post
<1>2. Len(sq) \in Nat /\ Len(cq) \in Nat /\ events \in Nat
  BY Lengths
<1>3. CASE rpc' = [rpc EXCEPT ![t] = "undefined"] /\ UNCHANGED <<key, sq, freed>>
  <2>1. /\ Len(cq') - events' - AwakeAt("undefined") >= Len(cq) - events - AwakeAt(rpc[t])
        /\ Len(sq') + Len(cq') - OwedAt("undefined") <= Len(sq) + Len(cq) - OwedAt(rpc[t])
    BY SMT, <1>1, <1>2, <1>3 DEF AwakeAt, OwedAt
  <2>2. "undefined" \in Places
    BY DEF Places
  <2> QED BY ZenonT(30), <1>1, <1>3, <2>1, <2>2, ThreadKeeps, ClientTypes
<1>4. ASSUME NEW k \in Keys, key' = [key EXCEPT ![t] = k], sq' = Append(sq, [th |-> t, key |-> k]),
             rpc' = [rpc EXCEPT ![t] = "wait"], UNCHANGED freed
      PROVE  StoreIInv'
  <2>1. key' \in [Threads -> Keys \cup {NoKey}]
    BY <1>4, ClientTypes
  <2>2. sq' \in Seq([th : Threads, key : Keys]) /\ Len(sq') = Len(sq) + 1
    BY SMTT(30), <1>4, ClientTypes, SeqAppend
  <2>3. /\ Len(cq') - events' - AwakeAt("wait") >= Len(cq) - events - AwakeAt(rpc[t])
        /\ Len(sq') + Len(cq') - OwedAt("wait") <= Len(sq) + Len(cq) - OwedAt(rpc[t])
    BY SMT, <1>1, <1>2, <2>2 DEF AwakeAt, OwedAt
  <2>4. "wait" \in Places
    BY DEF Places
  <2> QED BY ZenonT(30), <1>1, <1>4, <2>1, <2>2, <2>3, <2>4, ThreadKeeps, ClientTypes
<1>5. CASE Fail(t) /\ UNCHANGED <<key, sq>>
  <2>1. PICK p \in {"end", "undefined"} : rpc' = [rpc EXCEPT ![t] = p]
    BY <1>5 DEF Fail, DeleteSrc
  <2>2. freed' \subseteq Threads
    BY <1>5, ClientTypes DEF Fail, DeleteSrc
  <2>3. /\ Len(cq') - events' - AwakeAt(p) >= Len(cq) - events - AwakeAt(rpc[t])
        /\ Len(sq') + Len(cq') - OwedAt(p) <= Len(sq) + Len(cq) - OwedAt(rpc[t])
    BY SMTT(30), <1>1, <1>2, <1>5, <2>1 DEF AwakeAt, OwedAt
  <2>4. p \in Places /\ p \notin {"wait", "notify", "poll", "examine"}
    BY <2>1 DEF Places
  <2> QED BY ZenonT(30), <1>1, <1>5, <2>1, <2>2, <2>3, <2>4, ThreadKeeps, ClientTypes
<1> QED BY <1>3, <1>4, <1>5 DEF Post

(* Where a thread can be after it has failed.                                *)
LEMMA DeleteSrcIs ==
  ASSUME StoreIInv, NEW t \in Threads, NEW then \in Places, DeleteSrc(t, then)
  PROVE  /\ \E p \in {then, "undefined"} : rpc' = [rpc EXCEPT ![t] = p]
         /\ freed' \subseteq Threads
  BY ClientTypes DEF DeleteSrc

(* rpma_cq_wait(): an event becomes a thread that is awake.                  *)
LEMMA WaitKeeps ==
  ASSUME StoreIInv, NEW t \in Threads, Wait(t)
  PROVE  StoreIInv'
<1>1. /\ rpc[t] = "wait" /\ left[t] > 0
      /\ UNCHANGED <<vars, phase, image, key, buf, out, left, sq, cq, armed>>
  BY ClientTypes DEF Wait
<1>2. Len(sq) \in Nat /\ Len(cq) \in Nat /\ events \in Nat
  BY Lengths
<1>3. CASE events > 0 /\ events' = events - 1 /\ rpc' = [rpc EXCEPT ![t] = "notify"] /\ UNCHANGED freed
  <2>1. /\ Len(cq') - events' - AwakeAt("notify") >= Len(cq) - events - AwakeAt(rpc[t])
        /\ Len(sq') + Len(cq') - OwedAt("notify") <= Len(sq) + Len(cq) - OwedAt(rpc[t])
        /\ events' \in Nat
    BY SMT, <1>1, <1>2, <1>3 DEF AwakeAt, OwedAt
  <2>2. "notify" \in Places
    BY DEF Places
  <2> QED BY ZenonT(30), <1>1, <1>3, <2>1, <2>2, ThreadKeeps, ClientTypes
<1>4. CASE Fail(t) /\ UNCHANGED events
  <2>1. "end" \in Places
    BY DEF Places
  <2>2. PICK p \in {"end", "undefined"} : rpc' = [rpc EXCEPT ![t] = p]
    BY <1>4, <2>1, DeleteSrcIs DEF Fail
  <2>3. freed' \subseteq Threads
    BY <1>4, <2>1, DeleteSrcIs DEF Fail
  <2>4. /\ Len(cq') - events' - AwakeAt(p) >= Len(cq) - events - AwakeAt(rpc[t])
        /\ Len(sq') + Len(cq') - OwedAt(p) <= Len(sq) + Len(cq) - OwedAt(rpc[t])
    BY SMTT(30), <1>1, <1>2, <1>4, <2>2 DEF AwakeAt, OwedAt
  <2>5. p \in Places /\ p \notin {"wait", "notify", "poll", "examine"}
    BY <2>2 DEF Places
  <2> QED BY ZenonT(30), <1>1, <1>4, <2>2, <2>3, <2>4, <2>5, ThreadKeeps, ClientTypes
<1> QED BY <1>3, <1>4 DEF Wait

(* The CQ is armed again, or ibv_req_notify_cq fails: a thread that is awake  *)
(* goes on or gives up.                                                      *)
LEMMA NotifyKeeps ==
  ASSUME StoreIInv, NEW t \in Threads, Notify(t)
  PROVE  StoreIInv'
<1>1. /\ rpc[t] = "notify" /\ left[t] > 0
      /\ UNCHANGED <<vars, phase, image, key, buf, out, left, sq, cq, events>>
  BY ClientTypes DEF Notify
<1>2. Len(sq) \in Nat /\ Len(cq) \in Nat /\ events \in Nat /\ "end" \in Places
  BY Lengths DEF Places
<1>3. ASSUME NEW p \in {"end", "undefined", "poll"}, rpc' = [rpc EXCEPT ![t] = p],
             armed' \in BOOLEAN, freed' \subseteq Threads
      PROVE  StoreIInv'
  <2>1. /\ Len(cq') - events' - AwakeAt(p) >= Len(cq) - events - AwakeAt(rpc[t])
        /\ Len(sq') + Len(cq') - OwedAt(p) <= Len(sq) + Len(cq) - OwedAt(rpc[t])
    BY SMTT(30), <1>1, <1>2, <1>3 DEF AwakeAt, OwedAt
  <2>2. p \in Places
    BY DEF Places
  <2> QED BY ZenonT(30), <1>1, <1>3, <2>1, <2>2, ThreadKeeps, ClientTypes
<1>4. CASE armed' = TRUE /\ rpc' = [rpc EXCEPT ![t] = "poll"] /\ UNCHANGED freed
  BY <1>3, <1>4, ClientTypes
<1>5. CASE Fail(t) /\ UNCHANGED armed
  BY <1>2, <1>3, <1>5, DeleteSrcIs, ClientTypes DEF Fail
<1> QED BY <1>4, <1>5 DEF Notify

(* rpma_cq_get_wc(): a thread that is awake takes one completion.            *)
LEMMA PollKeeps ==
  ASSUME StoreIInv, NEW t \in Threads, Poll(t)
  PROVE  StoreIInv'
<1>1. /\ rpc[t] = "poll" /\ left[t] > 0
      /\ UNCHANGED <<vars, phase, image, key, buf, out, left, sq, armed, events>>
  BY ClientTypes DEF Poll
<1>2. Len(sq) \in Nat /\ Len(cq) \in Nat /\ events \in Nat /\ "end" \in Places /\ "examine" \in Places
  BY Lengths DEF Places
<1>3. ASSUME NEW p \in {"end", "undefined", "examine"}, rpc' = [rpc EXCEPT ![t] = p],
             cq # <<>>, cq' = Tail(cq), freed' \subseteq Threads
      PROVE  StoreIInv'
  <2>1. cq' \in Seq(BOOLEAN) /\ Len(cq') = Len(cq) - 1
    BY <1>3, ClientTypes, SeqTail
  <2>2. /\ Len(cq') - events' - AwakeAt(p) >= Len(cq) - events - AwakeAt(rpc[t])
        /\ Len(sq') + Len(cq') - OwedAt(p) <= Len(sq) + Len(cq) - OwedAt(rpc[t])
    BY SMTT(30), <1>1, <1>2, <1>3, <2>1 DEF AwakeAt, OwedAt
  <2>3. p \in Places
    BY DEF Places
  <2> QED BY ZenonT(30), <1>1, <1>3, <2>1, <2>2, <2>3, ThreadKeeps, ClientTypes
<1>4. ASSUME NEW p \in {"end", "undefined"}, rpc' = [rpc EXCEPT ![t] = p],
             cq' = cq, freed' \subseteq Threads
      PROVE  StoreIInv'
  <2>1. /\ Len(cq') - events' - AwakeAt(p) >= Len(cq) - events - AwakeAt(rpc[t])
        /\ Len(sq') + Len(cq') - OwedAt(p) <= Len(sq) + Len(cq) - OwedAt(rpc[t])
    BY SMT, <1>1, <1>2, <1>4 DEF AwakeAt, OwedAt
  <2>2. p \in Places
    BY DEF Places
  <2> QED BY ZenonT(30), <1>1, <1>4, <2>1, <2>2, ThreadKeeps, ClientTypes
<1>5. CASE cq = <<>> /\ Fail(t) /\ UNCHANGED cq
  BY <1>2, <1>4, <1>5, DeleteSrcIs DEF Fail
<1>6. CASE cq # <<>> /\ cq' = Tail(cq) /\ rpc' = [rpc EXCEPT ![t] = "examine"] /\ UNCHANGED freed
  BY <1>3, <1>6, ClientTypes
<1>7. CASE cq # <<>> /\ cq' = Tail(cq) /\ DeleteSrc(t, "examine")
  BY <1>2, <1>3, <1>7, DeleteSrcIs
<1>8. CASE cq # <<>> /\ cq' = Tail(cq) /\ Fail(t)
  BY <1>2, <1>3, <1>8, DeleteSrcIs DEF Fail
<1> QED BY <1>5, <1>6, <1>7, <1>8 DEF Poll

(* A read becomes a completion, and at most one event.                       *)
LEMMA CompleteKeeps ==
  ASSUME StoreIInv, Complete
  PROVE  StoreIInv'
<1>1. PICK ok \in BOOLEAN : cq' = Append(cq, ok)
                            /\ buf' = IF ok THEN [buf EXCEPT ![Head(sq).th] = Head(sq).key] ELSE buf
  BY DEF Complete
<1>2. /\ sq # <<>> /\ sq' = Tail(sq) /\ armed' = FALSE
      /\ events' = events + (IF armed THEN 1 ELSE 0)
      /\ UNCHANGED <<vars, phase, image, rpc, key, out, left, freed>>
  BY DEF Complete
<1>3. ~Filling
  BY <1>2 DEF StoreIInv, PhaseInv
<1>4. IInv' /\ TypeOK' /\ PhaseInv' /\ StoredIsFound'
  BY <1>2, <1>3, ReaderStep
<1>5. Head(sq) \in [th : Threads, key : Keys] /\ sq' \in Seq([th : Threads, key : Keys])
      /\ Len(sq') = Len(sq) - 1
  BY ZenonT(30), <1>2, ClientTypes, SeqTail
<1>6. cq' \in Seq(BOOLEAN) /\ Len(cq') = Len(cq) + 1
  BY SMT, <1>1, ClientTypes, SeqAppend
<1>7. buf' \in [Threads -> Keys \cup {NoKey}]
  BY <1>1, <1>5 DEF StoreIInv, StoreTypeOK
<1>8. Len(sq) \in Nat /\ Len(cq) \in Nat /\ events \in Nat
  BY Lengths
<1>9. events' \in Nat /\ events' <= events + 1
  BY SMT, <1>2, <1>8
<1>10. StoreTypeOK'
  BY <1>2, <1>4, <1>5, <1>6, <1>7, <1>9 DEF StoreIInv, StoreTypeOK
<1>11. LeftInv'
  BY <1>2 DEF StoreIInv, LeftInv, Reading
<1>12. Awake' = Awake /\ Owed' = Owed
  BY <1>2 DEF Awake, Owed
<1>13. Cardinality(Awake) \in Int /\ Cardinality(Owed) \in Int
  BY SMT, Counted
<1>14. Len(cq') >= events' + Cardinality(Awake')
  <2>1. Len(cq) >= events + Cardinality(Awake)
    BY DEF StoreIInv, WakeupMeansCompletion, Awake
  <2> QED BY SMTT(30), <1>6, <1>8, <1>9, <1>12, <1>13, <2>1
<1>15. Len(sq') + Len(cq') <= Cardinality(Owed')
  BY SMTT(30), <1>5, <1>6, <1>8, <1>12, <1>13 DEF StoreIInv, OwedInv
<1>16. WakeupMeansCompletion' /\ OwedInv'
  BY <1>14, <1>15 DEF WakeupMeansCompletion, OwedInv, Awake
<1> QED BY <1>4, <1>10, <1>11, <1>16 DEF StoreIInv

(* The lookup in the thread's buffer.                                        *)
LEMMA ExamineKeeps ==
  ASSUME StoreIInv, NEW t \in Threads, Examine(t)
  PROVE  StoreIInv'
<1>1. /\ rpc[t] = "examine" /\ left' = [left EXCEPT ![t] = @ - 1]
      /\ UNCHANGED <<vars, phase, image, key, buf, sq, cq, armed, events, freed>>
  BY DEF Examine
<1>2. PICK p \in {"end", "next"} : rpc' = [rpc EXCEPT ![t] = p]
  BY DEF Examine
<1>3. ~Filling /\ StoreTypeOK /\ p \in Places
  BY <1>1 DEF StoreIInv, PhaseInv, Places
<1>4. IInv' /\ TypeOK' /\ PhaseInv'
  BY ZenonT(30), <1>1, <1>3, ReaderStep
<1>5. left' \in [Threads -> Nat] /\ \A u \in Threads : u # t => left'[u] = left[u]
  BY SMT, <1>1 DEF StoreIInv, StoreTypeOK, LeftInv, Reading
<1>6. \E r \in Lookedup : Found(r) /\ out' = [out EXCEPT ![t] = r]
  <2>1. key[t] \in Keys \cup {NoKey} /\ buf[t] \in Keys \cup {NoKey}
    BY DEF StoreIInv, StoreTypeOK
  <2>2. CASE buf[t] = NoKey
    <3> DEFINE r == [of |-> key[t], got |-> {}, own |-> FALSE]
    <3>1. r \in Lookedup /\ ~r.own
      BY <2>1 DEF Lookedup
    <3>2. out' = [out EXCEPT ![t] = r]
      BY <2>2 DEF Examine
    <3> QED BY <3>1, <3>2 DEF Found
  <2>3. CASE buf[t] # NoKey
    BY <1>3, <2>1, <2>3, ExaminedIs DEF Examine
  <2> QED BY <2>2, <2>3
<1>7. out' \in [Threads -> Lookedup] /\ StoredIsFound'
  BY <1>1, <1>3, <1>6, OutKeeps
<1>8. /\ rpc' \in [Threads -> Places] /\ rpc'[t] = p
      /\ \A u \in Threads : u # t => rpc'[u] = rpc[u]
      /\ Cardinality(Awake') = Cardinality(Awake) + AwakeAt(p) - AwakeAt(rpc[t])
      /\ Cardinality(Owed') = Cardinality(Owed) + OwedAt(p) - OwedAt(rpc[t])
  BY <1>2, <1>3, ThreadMoves
<1>9. StoreTypeOK'
  BY <1>1, <1>4, <1>5, <1>7, <1>8 DEF StoreIInv, StoreTypeOK, Places, Lookedup
<1>10. LeftInv'
  BY <1>5, <1>8 DEF StoreIInv, LeftInv, Reading
<1>11. Len(sq) \in Int /\ Len(cq) \in Int /\ events \in Int
       /\ Cardinality(Awake) \in Int /\ Cardinality(Owed) \in Int
  BY SMT, Lengths, Counted
<1>12. Len(cq') >= events' + Cardinality(Awake')
  BY <1>1, <1>8, <1>11 DEF StoreIInv, WakeupMeansCompletion, Awake, AwakeAt
<1>13. Len(sq') + Len(cq') <= Cardinality(Owed')
  BY SMTT(30), <1>1, <1>8, <1>11 DEF StoreIInv, OwedInv, OwedAt
<1>14. WakeupMeansCompletion' /\ OwedInv'
  BY <1>12, <1>13 DEF WakeupMeansCompletion, OwedInv, Awake
<1> QED BY <1>4, <1>7, <1>9, <1>10, <1>14 DEF StoreIInv

(* Every step keeps StoreIInv.                                               *)
LEMMA StoreStepInv == StoreIInv /\ [StoreNext]_storeVars => StoreIInv'
<1> SUFFICES ASSUME StoreIInv, [StoreNext]_storeVars PROVE StoreIInv'
  OBVIOUS
<1>1. CASE UNCHANGED storeVars
  <2>1. UNCHANGED <<vars, phase, image, rpc, key, buf, out, left, sq, cq, armed, events, freed>>
    BY <1>1 DEF storeVars, clientVars
  <2>2. IInv' /\ TypeOK'
    BY <2>1, StepInv DEF StoreIInv, IInv
  <2>3. UNCHANGED <<hash, size, bucket, hop>>
    BY <2>1 DEF vars, table
  <2>4. StoreTypeOK'
    BY <2>1, <2>2 DEF StoreIInv, StoreTypeOK
  <2>5. PhaseInv'
    BY <2>1, <2>3 DEF StoreIInv, PhaseInv, Filling, Buckets, DumpBucket
  <2>6. LeftInv' /\ WakeupMeansCompletion' /\ OwedInv'
    BY <2>1 DEF StoreIInv, LeftInv, Reading, WakeupMeansCompletion, OwedInv, Owed
  <2>7. StoredIsFound'
    BY <2>1, <2>3 DEF StoreIInv, StoredIsFound, Home, HomeIn, KeysIn
  <2> QED BY <2>2, <2>4, <2>5, <2>6, <2>7 DEF StoreIInv
<1>2. CASE \E t \in Threads : Post(t) \/ Wait(t) \/ Notify(t) \/ Poll(t) \/ Examine(t)
  BY <1>2, PostKeeps, WaitKeeps, NotifyKeeps, PollKeeps, ExamineKeeps
<1> QED BY <1>1, <1>2, TableStepKeeps, DumpKeeps, ReadHashKeeps, CompleteKeeps DEF StoreNext

------------------------------------------------------------------------------
(* The programs of examples/hash keep StoreIInv.                             *)
THEOREM StoreInvariance == StoreSpec => []StoreIInv
  BY StoreInitInv, StoreStepInv, PTL DEF StoreSpec

(* The table that they fill and dump is the one of hopscotch.h: all that is  *)
(* proved of that one holds here.                                            *)
THEOREM StoreImplementsTable == StoreSpec => Spec
<1>1. StoreInit => Init
  BY DEF StoreInit
<1> QED BY <1>1, TableSteps, PTL DEF StoreSpec, Spec

(* A reader that looks into a key's own segment of the dump finds a key that *)
(* was in the table, wherever the insertions of others have moved it.        *)
THEOREM FoundTheorem == StoreSpec => []StoredIsFound
<1>1. StoreIInv => StoredIsFound
  BY DEF StoreIInv
<1> QED BY <1>1, StoreInvariance, PTL

(* Whoever comes out of rpma_cq_wait finds a completion, with any number of  *)
(* threads at the same CQ.                                                   *)
THEOREM WakeupTheorem == StoreSpec => []WakeupMeansCompletion
<1>1. StoreIInv => WakeupMeansCompletion
  BY DEF StoreIInv
<1> QED BY <1>1, StoreInvariance, PTL

(* A thread's buffer is behind its reads by less than the number of threads. *)
THEOREM LagTheorem == StoreSpec => []ReadsLagByOthers
<1>1. StoreIInv => ReadsLagByOthers
  <2> SUFFICES ASSUME StoreIInv, NEW t \in Threads, rpc[t] = "examine"
               PROVE  Pending(t) < Cardinality({u \in Threads : rpc[u] # "off"})
    BY DEF ReadsLagByOthers
  <2> DEFINE Mine == {i \in DOMAIN sq : sq[i].th = t}
             Started == {u \in Threads : rpc[u] # "off"}
  <2>1. Len(sq) \in Nat /\ Len(cq) \in Nat /\ DOMAIN sq = 1 .. Len(sq)
    BY Lengths, ClientTypes, SeqLength
  <2>2. IsFiniteSet(1 .. Len(sq)) /\ Cardinality(1 .. Len(sq)) = Len(sq)
    <3>1. \A n \in Nat : IsFiniteSet(1 .. n) /\ Cardinality(1 .. n) = n
      <4> TAKE n \in Nat
      <4>1. IsFiniteSet(1 .. n) /\ Cardinality(1 .. n) = IF 1 > n THEN 0 ELSE n - 1 + 1
        BY SMT, FS_Interval
      <4> QED BY SMT, <4>1
    <3> QED BY <2>1, <3>1
  <2>3. Mine \in SUBSET (1 .. Len(sq))
    BY <2>1
  <2>4. Cardinality(Mine) <= Len(sq) /\ Cardinality(Mine) \in Nat
    <3> HIDE DEF Mine
    <3>1. IsFiniteSet(Mine) /\ Cardinality(Mine) <= Cardinality(1 .. Len(sq))
      BY <2>2, <2>3, FS_Subset
    <3> QED BY <2>2, <3>1, FS_CardinalityType
  <2>5. Started \in SUBSET Threads /\ t \in Started /\ Owed \in SUBSET (Started \ {t})
    BY DEF Owed
  <2>6. IsFiniteSet(Started) /\ Cardinality(Started) \in Nat
    BY <2>5, ThreadsAssumption, FS_Subset, FS_CardinalityType
  <2>7. IsFiniteSet(Started \ {t}) /\ Cardinality(Started \ {t}) = Cardinality(Started) - 1
    BY <2>5, <2>6, FS_RemoveElement
  <2>8. Cardinality(Owed) <= Cardinality(Started) - 1 /\ Cardinality(Owed) \in Nat
    <3> HIDE DEF Started
    <3>1. Cardinality(Owed) <= Cardinality(Started \ {t})
      BY <2>5, <2>7, FS_Subset
    <3> QED BY <2>7, <3>1, Counted
  <2>9. Len(sq) + Len(cq) <= Cardinality(Owed)
    BY DEF StoreIInv, OwedInv
  <2>10. Cardinality(Mine) < Cardinality(Started)
    <3> HIDE DEF Mine, Started
    <3> QED BY SMTT(30), <2>1, <2>4, <2>6, <2>8, <2>9
  <2> QED BY <2>10 DEF Pending
<1> QED BY <1>1, StoreInvariance, PTL

(* In the programs, too, a lookup finds exactly what is in the table, and to *)
(* its user the table is a set of keys.                                      *)
THEOREM StoreTableTheorem == StoreSpec => []LookupExact /\ KeySetSpec
  BY StoreImplementsTable, LookupTheorem, SetTheorem, PTL
==============================================================================
