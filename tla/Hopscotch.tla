------------------------------ MODULE Hopscotch ------------------------------
(* The hash table of examples/hash/hopscotch.h.  A key lives at most Hop - 1 *)
(* buckets after its home bucket, and the hopinfo bitmap of the home bucket  *)
(* says where the keys of that home are.  An insertion takes the first empty *)
(* bucket after the home and, while it is too far away, moves another key    *)
(* into it; each move is a step here.  A bitmap is the set of its bits.  A   *)
(* key's data always moves together with the key and is left out.            *)
EXTENDS Integers

CONSTANTS
  Keys,         \* the keys
  NoKey,        \* NULL in a bucket's key
  Sizes,        \* the sizes the table may have (powers of two in the code)
  Hop,          \* HOP_NUMBER
  WarnBit,      \* log2 of the hopinfo above which an insertion returns -4: 5
  MaxHash       \* the hash values are 0 .. MaxHash

ASSUME HopAssumption == Hop \in Nat /\ Hop > 0
ASSUME SizesAssumption == Sizes \subseteq Nat \ {0}
ASSUME KeysAssumption == NoKey \notin Keys
ASSUME HashAssumption == MaxHash \in Nat

VARIABLES
  hash,         \* what _jenkins_hash computes for each key
  size,         \* 1 << ht->exponent
  bucket,       \* the key of each of ht->buckets, or NoKey
  hop,          \* the hopinfo of each of them
  pc,           \* "idle", "hop": looking for a near enough bucket,
                \*   "resize": between two insertions of hopscotch_resize,
                \*   "inserted": hopscotch_resize has an insertion's result
  cur,          \* the key of the insertion
  at,           \* i of hopscotch_insert: an empty bucket
  resizing,     \* whether hopscotch_resize runs
  old,          \* obuckets and oexp of hopscotch_resize
  next,         \* i of hopscotch_resize
  res,          \* ret of hopscotch_resize
  ret           \* what the last call of the user returned

table == <<size, bucket, hop>>
vars == <<hash, table, pc, cur, at, resizing, old, next, res, ret>>

Buckets == 0 .. size - 1
Offsets == 0 .. Hop - 1
HomeIn(f, k, n) == f[k] % n
Home(k) == HomeIn(hash, k, size)

Empty(n) == [size |-> n, bucket |-> [b \in 0 .. n - 1 |-> NoKey],
             hop |-> [b \in 0 .. n - 1 |-> {}]]

Init ==
  /\ hash \in [Keys -> 0 .. MaxHash]
  /\ size \in Sizes
  /\ bucket = Empty(size).bucket /\ hop = Empty(size).hop
  /\ pc = "idle" /\ cur = NoKey /\ at = 0
  /\ resizing = FALSE /\ old = Empty(size) /\ next = 0
  /\ res = "none" /\ ret = "none"

------------------------------------------------------------------------------
(* hopscotch_lookup: only the buckets that the home's bitmap names. *)
Lookup(k) == \E o \in hop[Home(k)] : bucket[Home(k) + o] = k

(* The return of hopscotch_insert: to the user, or to hopscotch_resize. *)
Return(r) ==
  /\ cur' = NoKey /\ at' = 0
  /\ IF resizing THEN pc' = "inserted" /\ res' = r /\ UNCHANGED ret
                 ELSE pc' = "idle" /\ ret' = r /\ UNCHANGED res

FirstEmpty(k, e) ==
  /\ bucket[e] = NoKey
  /\ \A b \in Home(k) .. e - 1 : bucket[b] # NoKey

(* hopscotch_insert up to the empty bucket. *)
Enter(k) ==
  /\ IF Lookup(k)
     THEN Return("exists")
     ELSE \/ /\ \E e \in Home(k) .. size - 1 : FirstEmpty(k, e) /\ at' = e
             /\ pc' = "hop" /\ cur' = k
             /\ UNCHANGED <<res, ret>>
          \/ /\ \A b \in Home(k) .. size - 1 : bucket[b] # NoKey
             /\ Return("full")
  /\ UNCHANGED table

Insert(k) ==
  /\ pc = "idle"
  /\ Enter(k)
  /\ UNCHANGED <<hash, resizing, old, next>>

TooFar == at - Home(cur) >= Hop

(* Bucket at - j is the home of a key in a bucket before `at'. *)
Candidate(j) == \E o \in hop[at - j] : o < j

Lowest(o, s) == o \in s /\ \A p \in s : o <= p

(* The first key of that home moves to `at', and its bucket is empty now. *)
Move(j) ==
  \E o \in Offsets :
    /\ Lowest(o, hop[at - j])
    /\ bucket' = [bucket EXCEPT ![at] = bucket[at - j + o], ![at - j + o] = NoKey]
    /\ hop' = [hop EXCEPT ![at - j] = (@ \ {o}) \cup {j}]
    /\ at' = at - j + o

Displace ==
  /\ pc = "hop" /\ TooFar
  /\ \E j \in 1 .. Hop - 1 :
       /\ Candidate(j)
       /\ \A i \in 1 .. j - 1 : ~Candidate(i)
       /\ Move(j)
  /\ UNCHANGED <<hash, size, pc, cur, resizing, old, next, res, ret>>

(* No key can be moved: -3.  What has been moved stays where it is. *)
NoRoom ==
  /\ pc = "hop" /\ TooFar
  /\ \A j \in 1 .. Hop - 1 : ~Candidate(j)
  /\ Return("no_room")
  /\ UNCHANGED <<hash, table, resizing, old, next>>

(* hopinfo > 32 *)
Crowded(s) == (\E o \in s : o > WarnBit) \/ (WarnBit \in s /\ s # {WarnBit})

(* Mutant of Place: the bit of the next bucket is set.                       *)
PlaceNextBit ==
  /\ pc = "hop" /\ ~TooFar
  /\ bucket' = [bucket EXCEPT ![at] = cur]
  /\ hop' = [hop EXCEPT ![Home(cur)] = @ \cup {(at - Home(cur) + 1) % Hop}]
  /\ Return("ok")
  /\ UNCHANGED <<hash, size, resizing, old, next>>

Place ==
  /\ pc = "hop" /\ ~TooFar
  /\ bucket' = [bucket EXCEPT ![at] = cur]
  /\ hop' = [hop EXCEPT ![Home(cur)] = @ \cup {at - Home(cur)}]
  /\ Return(IF Crowded(hop'[Home(cur)]) THEN "crowded" ELSE "ok")
  /\ UNCHANGED <<hash, size, resizing, old, next>>

------------------------------------------------------------------------------
(* hopscotch_remove *)
Remove(k) ==
  /\ pc = "idle"
  /\ \/ /\ \E o \in hop[Home(k)] :
             /\ bucket[Home(k) + o] = k
             /\ bucket' = [bucket EXCEPT ![Home(k) + o] = NoKey]
             /\ hop' = [hop EXCEPT ![Home(k)] = @ \ {o}]
        /\ ret' = "data"
     \/ /\ ~Lookup(k)
        /\ ret' = "null"
        /\ UNCHANGED <<bucket, hop>>
  /\ UNCHANGED <<hash, size, pc, cur, at, resizing, old, next, res>>

(* hopscotch_resize: an empty table replaces the old one ... *)
Resize(n) ==
  /\ pc = "idle"
  /\ \/ /\ old' = [size |-> size, bucket |-> bucket, hop |-> hop]
        /\ size' = n /\ bucket' = Empty(n).bucket /\ hop' = Empty(n).hop
        /\ resizing' = TRUE /\ pc' = "resize" /\ next' = 0
        /\ UNCHANGED ret
     \/ /\ ret' = "failed"
        /\ UNCHANGED <<table, old, resizing, pc, next>>
  /\ UNCHANGED <<hash, cur, at, res>>

(* ... the keys of the old one are inserted one by one ... *)
Reinsert ==
  /\ pc = "resize" /\ next < old.size
  /\ IF old.bucket[next] = NoKey
     THEN next' = next + 1 /\ UNCHANGED <<table, pc, cur, at, res, ret>>
     ELSE Enter(old.bucket[next]) /\ UNCHANGED next
  /\ UNCHANGED <<hash, resizing, old>>

(* Mutant of Rollback: the half-filled new table stays.                      *)
RollbackForgotten == UNCHANGED table

(* ... and the old one comes back when an insertion returns less than 0. *)
Rollback == size' = old.size /\ bucket' = old.bucket /\ hop' = old.hop

Resized(r) ==
  /\ resizing' = FALSE /\ pc' = "idle" /\ ret' = r
  /\ old' = Empty(old.size) /\ next' = 0

Inserted ==
  /\ pc = "inserted"
  /\ \/ /\ res = "ok"
        /\ pc' = "resize" /\ next' = next + 1
        /\ UNCHANGED <<table, resizing, old, ret>>
     \/ /\ res # "ok"
        /\ Rollback
        /\ Resized("failed")
  /\ res' = "none"
  /\ UNCHANGED <<hash, cur, at>>

ReinsertedAll ==
  /\ pc = "resize" /\ next = old.size
  /\ Resized("ok")
  /\ UNCHANGED <<hash, table, cur, at, res>>

InsertSteps == (\E k \in Keys : Insert(k)) \/ Displace \/ NoRoom \/ Place
OtherSteps ==
  \/ \E k \in Keys : Remove(k)
  \/ \E n \in Sizes : Resize(n)
  \/ Reinsert \/ Inserted \/ ReinsertedAll

Next == InsertSteps \/ OtherSteps

Spec == Init /\ [][Next]_vars

------------------------------------------------------------------------------
KeysIn(b) == {b[i] : i \in DOMAIN b} \ {NoKey}

Codes == {"none", "ok", "full", "exists", "no_room", "crowded"}

(* Every variable has the values that hopscotch.h can give it.               *)
TypeOK ==
  /\ hash \in [Keys -> 0 .. MaxHash]
  /\ size \in Sizes
  /\ bucket \in [Buckets -> Keys \cup {NoKey}]
  /\ hop \in [Buckets -> SUBSET Offsets]
  /\ pc \in {"idle", "hop", "resize", "inserted"}
  /\ cur \in Keys \cup {NoKey}
  /\ at \in Nat
  /\ resizing \in BOOLEAN
  /\ old.size \in Sizes
  /\ old.bucket \in [0 .. old.size - 1 -> Keys \cup {NoKey}]
  /\ old.hop \in [0 .. old.size - 1 -> SUBSET Offsets]
  /\ next \in 0 .. old.size
  /\ res \in Codes
  /\ ret \in Codes \cup {"data", "null", "failed"}

(* Of a table with n buckets b and bitmaps h, under the hash function f: *)
Maps(f, b, h, n) ==
  \A i \in 0 .. n - 1 : \A o \in Offsets :
    o \in h[i] <=> (i + o < n /\ b[i + o] # NoKey /\ HomeIn(f, b[i + o], n) = i)

Near(f, b, n) ==
  \A i \in 0 .. n - 1 :
    b[i] # NoKey => HomeIn(f, b[i], n) \in i - Hop + 1 .. i

Once(b, n) ==
  \A i, j \in 0 .. n - 1 : b[i] = b[j] /\ b[i] # NoKey => i = j

Sound(f, b, h, n) == Maps(f, b, h, n) /\ Near(f, b, n) /\ Once(b, n)

(* The table's bitmaps and buckets agree after every step of an insertion,   *)
(* moves included: a bit is set exactly for the buckets that hold a key of   *)
(* that home, every key is within reach of its home, and no key is in two    *)
(* buckets (hopscotch_insert, hopscotch_remove, hopscotch_resize).           *)
BitmapsExact == Sound(hash, bucket, hop, size)

(* hopscotch_lookup finds exactly the keys that are in some bucket, although *)
(* it looks at no more than the ones a single bitmap names.                  *)
LookupExact == \A k \in Keys : Lookup(k) <=> k \in KeysIn(bucket)

(* To its user the table is a set of keys: a resize that fails half-way, or  *)
(* an insertion that gives up after moving keys, loses none of them.         *)
KS == INSTANCE KeySet WITH
        stored <- IF resizing THEN KeysIn(old.bucket) ELSE KeysIn(bucket)
KeySetSpec == KS!Spec
===============================================================================
