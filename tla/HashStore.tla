------------------------------ MODULE HashStore ------------------------------
(* The hash-table example, examples/hash: writehash fills a hopscotch table  *)
(* and dumps it to persistent memory, hashserver registers that memory, and  *)
(* readhash, singlehashclient and multihashclient look keys up in the dump,  *)
(* the clients by an RDMA read of the segment that starts at the key's home. *)
(* The threads of multihashclient share one connection and so one CQ.        *)
EXTENDS Hopscotch, Sequences, FiniteSets

CONSTANTS
  Threads,      \* the threads of multihashclient
  Main,         \* the one thread of readhash and singlehashclient
  MaxText,      \* the largest hopinfo the dump keeps: 999 of 4 characters
  Alike,        \* pairs of keys that agree in the bytes the readers compare
  Lookups,      \* how many keys a thread of multihashclient looks up
  SoloLookups,  \*   and how many readhash and singlehashclient do
  SharedKeys,   \* bounds on the keys of a table that several threads read
  SharedHash,   \*   and on their hash values
  Failures      \* whether reads and waits may fail

ASSUME ThreadsAssumption == Main \in Threads /\ IsFiniteSet(Threads)
ASSUME LookupsAssumption == {Lookups, SoloLookups} \subseteq Nat

VARIABLES
  phase,        \* "library": any user of hopscotch.h; "populate": writehash;
                \*   then "readhash", "single" or "multi"
  image,        \* what the dump says of each bucket
  rpc,          \* where a thread is
  key,          \* keys[k]
  buf,          \* the key whose segment is at dst_ptr, or NoKey
  out,          \* the last lookup of each thread
  left,         \* the lookups it still makes
  sq, cq,       \* the reads in flight and the completions, as their threads
  armed, events,\* the completion channel
  freed         \* the threads that have deleted the shared src_mr

clientVars == <<rpc, key, buf, out, left, sq, cq, armed, events, freed>>
storeVars == <<vars, phase, image, clientVars>>

NoLookup == [of |-> NoKey, got |-> {}, own |-> FALSE]

StoreInit ==
  /\ Init
  /\ phase \in {"library", "populate"}
  /\ image = <<>>
  /\ rpc = [t \in Threads |-> "off"]
  /\ key = [t \in Threads |-> NoKey] /\ buf = key
  /\ out = [t \in Threads |-> NoLookup]
  /\ left = [t \in Threads |-> 0]
  /\ sq = <<>> /\ cq = <<>> /\ armed = TRUE /\ events = 0 /\ freed = {}

TableStep ==
  /\ \/ phase \in {"library", "populate"} /\ InsertSteps
     \/ phase = "library" /\ OtherSteps
  /\ UNCHANGED <<phase, image, clientVars>>

(* hopinfo as a number; four characters hold three digits and their NUL. *)
Value(s) ==
  LET upto[n \in 0 .. Hop] == IF n = 0 THEN 0 ELSE upto[n - 1] + (IF n - 1 \in s THEN 2 ^ (n - 1) ELSE 0)
  IN  upto[Hop]
Legible(s) == Value(s) <= MaxText

(* A bucket of the dump: '1', hopinfo, key and value, or '0' and nothing of  *)
(* the bucket's hopinfo.                                                     *)
DumpBucket(b) ==
  IF bucket[b] = NoKey THEN [valid |-> FALSE, hop |-> {}, key |-> NoKey]
                       ELSE [valid |-> TRUE, hop |-> hop[b], key |-> bucket[b]]

(* writehash after its insertions: the dump, then hopscotch_release (the     *)
(* table is not used any more); and the program that reads the dump.         *)
Dump(reader) ==
  /\ phase = "populate" /\ pc = "idle"
  /\ reader = "multi" =>
       Cardinality(KeysIn(bucket)) <= SharedKeys /\ \A k \in Keys : hash[k] <= SharedHash
  /\ phase' = reader
  /\ image' = [b \in Buckets |-> DumpBucket(b)]
  /\ rpc' = [t \in Threads |-> IF t = Main \/ reader = "multi" THEN "next" ELSE "off"]
  /\ left' = [t \in Threads |-> IF reader = "multi" THEN Lookups ELSE SoloLookups]
  /\ UNCHANGED <<vars, key, buf, out, sq, cq, armed, events, freed>>

------------------------------------------------------------------------------
(* What the readers make of 4 characters: hopinfo, or anything when they are *)
(* digits only and hopdest is not terminated.                                *)
Parsed(s) == IF Legible(s) THEN {s} ELSE SUBSET Offsets

Matches(k, x) == k = x \/ {k, x} \in Alike

(* Mutant of Taken: the home bucket itself is skipped.                       *)
TakenWithoutHome(b, h, k) ==
  {image[b + o].key : o \in {p \in h : b + p < size /\ p > 0 /\ Matches(k, image[b + p].key)}}

(* The keys a reader takes from the segment at bucket b: the first without a *)
(* look at its key when hopinfo is 1, else those that match.                 *)
Taken(b, h, k) ==
  IF h = {0} THEN {image[b].key}
  ELSE {image[b + o].key : o \in {p \in h : b + p < size /\ Matches(k, image[b + p].key)}}

(* The lookup of k in the segment of key s; "Not found" for an empty bucket. *)
Examined(t, k, s) ==
  LET b == Home(s)
  IN  \/ /\ ~image[b].valid
         /\ out' = [out EXCEPT ![t] = [of |-> k, got |-> {}, own |-> s = k]]
      \/ /\ image[b].valid
         /\ \E h \in Parsed(image[b].hop) :
              out' = [out EXCEPT ![t] = [of |-> k, got |-> Taken(b, h, k), own |-> s = k]]

(* One round of readhash: the memory is mapped. *)
ReadHash(k) ==
  /\ phase = "readhash" /\ rpc[Main] = "next" /\ left[Main] > 0
  /\ Examined(Main, k, k)
  /\ left' = [left EXCEPT ![Main] = @ - 1]
  /\ UNCHANGED <<vars, phase, image, rpc, key, buf, sq, cq, armed, events, freed>>

(* A thread goes on after a failure; multihashclient's deletes the remote    *)
(* region first.  Its own pointer is NULL then, those of the other threads   *)
(* are not, and what happens when they use theirs is undefined.              *)
Dangling(t) == freed # {} /\ t \notin freed

DeleteSrc(t, then) ==
  /\ rpc' = [rpc EXCEPT ![t] = IF phase = "multi" /\ Dangling(t) THEN "undefined" ELSE then]
  /\ freed' = freed \cup (IF phase = "multi" THEN {t} ELSE {})

Fail(t) == DeleteSrc(t, "end")

(* Mutant of Post: the segment is read in two halves, each with a completion.*)
PostHalves(t) ==
  /\ rpc[t] = "next" /\ phase # "readhash" /\ left[t] > 0 /\ freed = {}
  /\ \E k \in Keys :
       /\ key' = [key EXCEPT ![t] = k]
       /\ sq' = sq \o <<[th |-> t, key |-> k], [th |-> t, key |-> k]>>
  /\ rpc' = [rpc EXCEPT ![t] = "wait"]
  /\ UNCHANGED <<vars, phase, image, buf, out, left, cq, armed, events, freed>>

(* rpma_read into the thread's own buffer; it refuses a src_mr of NULL.      *)
Post(t) ==
  /\ rpc[t] = "next" /\ phase # "readhash" /\ left[t] > 0
  /\ \/ /\ Dangling(t)
        /\ rpc' = [rpc EXCEPT ![t] = "undefined"]
        /\ UNCHANGED <<key, sq, freed>>
     \/ /\ freed = {}
        /\ \E k \in Keys : key' = [key EXCEPT ![t] = k] /\ sq' = Append(sq, [th |-> t, key |-> k])
        /\ rpc' = [rpc EXCEPT ![t] = "wait"]
        /\ UNCHANGED freed
     \/ /\ t \in freed \/ (freed = {} /\ Failures)
        /\ Fail(t)
        /\ UNCHANGED <<key, sq>>
  /\ UNCHANGED <<vars, phase, image, buf, out, left, cq, armed, events>>

(* The network: reads are carried out in order; a failed one leaves the      *)
(* buffer alone.                                                             *)
Complete ==
  /\ sq # <<>>
  /\ \E ok \in IF Failures THEN BOOLEAN ELSE {TRUE} :
       /\ cq' = Append(cq, ok)
       /\ buf' = IF ok THEN [buf EXCEPT ![Head(sq).th] = Head(sq).key] ELSE buf
  /\ sq' = Tail(sq)
  /\ armed' = FALSE /\ events' = events + (IF armed THEN 1 ELSE 0)
  /\ UNCHANGED <<vars, phase, image, rpc, key, out, left, freed>>

(* rpma_cq_wait: an event is taken and acknowledged (or ibv_get_cq_event     *)
(* fails), and the CQ is armed again -- or not, when ibv_req_notify_cq fails *)
(* and the event is gone already.                                            *)
Wait(t) ==
  /\ rpc[t] = "wait"
  /\ \/ /\ events > 0
        /\ events' = events - 1
        /\ rpc' = [rpc EXCEPT ![t] = "notify"]
        /\ UNCHANGED freed
     \/ Failures /\ Fail(t) /\ UNCHANGED events
  /\ UNCHANGED <<vars, phase, image, key, buf, out, left, sq, cq, armed>>

Notify(t) ==
  /\ rpc[t] = "notify"
  /\ \/ armed' = TRUE /\ rpc' = [rpc EXCEPT ![t] = "poll"] /\ UNCHANGED freed
     \/ Failures /\ Fail(t) /\ UNCHANGED armed
  /\ UNCHANGED <<vars, phase, image, key, buf, out, left, sq, cq, events>>

(* Mutant of Poll: all completions are taken for one.                        *)
PollBatch(t) ==
  /\ rpc[t] = "poll"
  /\ \/ cq = <<>> /\ Fail(t) /\ UNCHANGED cq
     \/ /\ cq # <<>>
        /\ cq' = <<>>
        /\ rpc' = [rpc EXCEPT ![t] = "examine"]
        /\ UNCHANGED freed
  /\ UNCHANGED <<vars, phase, image, key, buf, out, left, sq, armed, events>>

(* rpma_cq_get_wc of one entry, whosever it is.  A failed read ends           *)
(* singlehashclient; a thread of multihashclient deletes the region and goes *)
(* on to look at its buffer.                                                 *)
Poll(t) ==
  /\ rpc[t] = "poll"
  /\ \/ cq = <<>> /\ Fail(t) /\ UNCHANGED cq
     \/ /\ cq # <<>>
        /\ cq' = Tail(cq)
        /\ \/ Head(cq) /\ rpc' = [rpc EXCEPT ![t] = "examine"] /\ UNCHANGED freed
           \/ ~Head(cq) /\ phase = "multi" /\ DeleteSrc(t, "examine")
           \/ ~Head(cq) /\ phase = "single" /\ Fail(t)
  /\ UNCHANGED <<vars, phase, image, key, buf, out, left, sq, armed, events>>

(* The lookup in dst_ptr.  The thread of multihashclient returns when it     *)
(* finds the bucket empty; memory that no read has filled is empty.          *)
Examine(t) ==
  /\ rpc[t] = "examine"
  /\ IF buf[t] = NoKey
     THEN out' = [out EXCEPT ![t] = [of |-> key[t], got |-> {}, own |-> FALSE]]
     ELSE Examined(t, key[t], buf[t])
  /\ left' = [left EXCEPT ![t] = @ - 1]
  /\ rpc' = [rpc EXCEPT ![t] =
               IF phase = "multi" /\ (buf[t] = NoKey \/ ~image[Home(buf[t])].valid)
               THEN "end" ELSE "next"]
  /\ UNCHANGED <<vars, phase, image, key, buf, sq, cq, armed, events, freed>>

StoreNext ==
  \/ TableStep
  \/ \E reader \in {"readhash", "single", "multi"} : Dump(reader)
  \/ \E k \in Keys : ReadHash(k)
  \/ Complete
  \/ \E t \in Threads : Post(t) \/ Wait(t) \/ Notify(t) \/ Poll(t) \/ Examine(t)

StoreSpec == StoreInit /\ [][StoreNext]_storeVars

------------------------------------------------------------------------------
(* Every variable has the values that the programs can give it; no event is  *)
(* taken that was not there.                                                 *)
StoreTypeOK ==
  /\ TypeOK
  /\ phase \in {"library", "populate", "readhash", "single", "multi"}
  /\ rpc \in [Threads -> {"off", "next", "wait", "notify", "poll", "examine", "end", "undefined"}]
  /\ key \in [Threads -> Keys \cup {NoKey}] /\ buf \in [Threads -> Keys \cup {NoKey}]
  /\ out \in [Threads -> [of : Keys \cup {NoKey}, got : SUBSET (Keys \cup {NoKey}), own : BOOLEAN]]
  /\ left \in [Threads -> Nat]
  /\ sq \in Seq([th : Threads, key : Keys]) /\ cq \in Seq(BOOLEAN)
  /\ armed \in BOOLEAN /\ events \in Nat /\ freed \subseteq Threads

(* A reader that looks into a key's own segment finds the key if it was in   *)
(* the table, however it was moved before the dump -- as long as the dump    *)
(* has kept the home's hopinfo: its bucket is not empty and its hopinfo is   *)
(* short (writehash.c, readhash.c, singlehashclient.c).                      *)
StoredIsFound ==
  \A t \in Threads :
    LET k == out[t].of
    IN  (k \in KeysIn(bucket) /\ out[t].own /\ image[Home(k)].valid /\ Legible(image[Home(k)].hop))
          => k \in out[t].got

(* Every thread that comes out of rpma_cq_wait finds a completion, also when *)
(* other threads collect from the same CQ: events and awakened threads never *)
(* outnumber the completions (singlehashclient.c, thr_func).                 *)
WakeupMeansCompletion ==
  Len(cq) >= events + Cardinality({t \in Threads : rpc[t] \in {"notify", "poll"}})

Pending(t) == Cardinality({i \in DOMAIN sq : sq[i].th = t})

(* The buffer that a thread examines is behind its own reads by no more than *)
(* one read for each other thread: one thread examines what it has just      *)
(* read, and two never a segment older than the last but one.                *)
ReadsLagByOthers ==
  \A t \in Threads :
    rpc[t] = "examine" => Pending(t) < Cardinality({u \in Threads : rpc[u] # "off"})
===============================================================================
