---------------------------- MODULE QueuesProofs ----------------------------
(* Proofs about Queues, for queues of every size, any number of operations   *)
(* and any number of changes of the configuration.                           *)
EXTENDS Queues, FiniteSetTheorems, TLAPS

(* The slots of the send queue between those freed and those posted are at   *)
(* most as many as it has, and so are those of the receive queue; until the  *)
(* connection is there nothing is posted.  A completion that is not polled   *)
(* still holds its slot, and so does an operation whose completion is not    *)
(* polled, if none was lost.                                                 *)
SlotsInv ==
  /\ step # "ready" => posted = 0 /\ rposted = 0
  /\ posted - freed <= size["sq"]
  /\ rposted - rpolled <= size["rq"]
  /\ \A i \in cqes : freed < i
  /\ "cq" \notin overrun => \A i \in sig : freed < i /\ i <= done => i \in cqes

(* Whether the sizes of the connection have let a CQ be overrun.             *)
MayOverrun ==
  \/ size["sq"] > size["cq"] \/ size["rq"] > size[RecvCq]
  \/ /\ size["rcq"] = 0 /\ size["sq"] + size["rq"] > size["cq"]
     /\ posted > 0 /\ rposted > 0

OverrunInv == overrun # {} => step = "ready" /\ MayOverrun

IInv == TypeOK /\ SlotsInv

------------------------------------------------------------------------------
(* The initial state, with the default configuration, satisfies IInv.        *)
LEMMA InitInv == Init => IInv
BY QueuesAssumption DEF Init, IInv, TypeOK, SlotsInv, Defaults, Fields

(* Setting a field of the configuration touches no queue.                    *)
LEMMA SetKeeps ==
  ASSUME IInv, NEW f \in Fields, NEW v \in Nat, Set(f, v)
  PROVE  IInv'
<1>1. TypeOK'
  BY QueuesAssumption DEF IInv, TypeOK, Set, sends, recvs
<1>2. SlotsInv'
  BY DEF IInv, TypeOK, SlotsInv, Set, sends, recvs
<1> QED BY <1>1, <1>2 DEF IInv

(* Reading a field gives one size its value, before anything is posted.      *)
LEMMA ReadsKeeps ==
  ASSUME IInv, NEW f \in Fields, NEW v \in Nat, NEW next \in Fields \cup {"ready"},
         Reads(f, v, next)
  PROVE  IInv'
<1>1. TypeOK'
  BY DEF IInv, TypeOK, Reads, sends, recvs
<1>2. posted = 0 /\ rposted = 0 /\ freed = 0 /\ rpolled = 0 /\ done = 0
  BY DEF IInv, TypeOK, SlotsInv, Reads, Fields
<1>3. size'["sq"] \in Nat /\ size'["rq"] \in Nat
  BY <1>1 DEF TypeOK, Fields
<1>4. SlotsInv'
  BY <1>2, <1>3 DEF IInv, TypeOK, SlotsInv, Reads, sends, recvs
<1> QED BY <1>1, <1>4 DEF IInv

(* Posting takes a slot that is free.                                        *)
LEMMA PostKeeps ==
  ASSUME IInv, NEW always \in BOOLEAN, Post(always)
  PROVE  IInv'
<1> USE DEF IInv, TypeOK, SlotsInv, Post, config, recvs
<1>1. size["sq"] \in Nat /\ size["rq"] \in Nat
  BY DEF Fields
<1>2. sig' \subseteq 1 .. posted'
  OBVIOUS
<1>3. TypeOK'
  BY <1>2
<1>4. posted' - freed' <= size'["sq"]
  BY <1>1
<1>5. "cq" \notin overrun' => \A i \in sig' : freed' < i /\ i <= done' => i \in cqes'
  OBVIOUS
<1>6. SlotsInv'
  BY <1>4, <1>5
<1> QED BY <1>3, <1>6

(* An operation that is executed keeps its slot.                             *)
LEMMA ExecuteKeeps ==
  ASSUME IInv, Execute
  PROVE  IInv'
<1> USE DEF IInv, TypeOK, SlotsInv, Execute, config, recvs
<1>1. cqes' \subseteq 1 .. done'
  <2>1. cqes' \subseteq cqes \cup {done + 1}
    OBVIOUS
  <2>2. done \in Nat /\ done' = done + 1 /\ cqes \subseteq 1 .. done
    OBVIOUS
  <2> QED BY ONLY <2>1, <2>2
<1>2. TypeOK'
  <2>1. UNCHANGED <<cfg, seen, sets, step, size, posted, freed, sig, rposted, rdone, rpolled>>
    OBVIOUS
  <2>2. qp' \in {"ok", "error"} /\ overrun' \subseteq {"cq", "rcq"}
    BY Zenon
  <2>3. done' \in 0 .. posted /\ freed \in 0 .. done'
    OBVIOUS
  <2> QED BY ONLY TypeOK, <1>1, <2>1, <2>2, <2>3 DEF TypeOK
<1>3. \A i \in cqes' : freed' < i
  <2>1. cqes' \subseteq cqes \cup {done + 1}
    OBVIOUS
  <2>2. freed < done + 1 /\ freed' = freed
    OBVIOUS
  <2> QED BY ONLY <2>1, <2>2, IInv DEF IInv, SlotsInv
<1>4. "cq" \notin overrun' => \A i \in sig' : freed' < i /\ i <= done' => i \in cqes'
  <2> SUFFICES ASSUME "cq" \notin overrun', NEW i \in sig, freed < i, i <= done + 1
               PROVE  i \in cqes'
    OBVIOUS
  <2>1. i \in Nat /\ done \in Nat OBVIOUS
  <2>2. CASE i <= done
    <3>1. i \in cqes BY <2>2
    <3>2. cqes \subseteq cqes' OBVIOUS
    <3> QED BY ONLY <3>1, <3>2
  <2>3. CASE i = done + 1
    BY <2>3
  <2> QED BY ONLY <2>1, <2>2, <2>3, i <= done + 1
<1>5. SlotsInv'
  BY <1>3, <1>4
<1> QED BY <1>2, <1>5

(* The oldest completion is polled, so no other one loses its slot.          *)
LEMMA GetSendWcKeeps ==
  ASSUME IInv, GetSendWc
  PROVE  IInv'
<1> USE DEF IInv, TypeOK, SlotsInv, config, recvs
<1>1. PICK i \in cqes : /\ \A j \in cqes : i <= j
                        /\ cqes' = cqes \ {i}
                        /\ freed' = i
  BY DEF GetSendWc
<1>2. UNCHANGED <<config, qp, posted, done, sig, recvs, overrun>>
  BY DEF GetSendWc
<1>3. i \in 1 .. done /\ freed < i
  BY <1>1
<1>4. TypeOK'
  <2>1. freed' \in 0 .. done /\ cqes' \subseteq 1 .. done
    BY <1>1, <1>3
  <2>2. UNCHANGED <<cfg, seen, sets, step, size, qp, posted, done, sig, rposted, rdone,
                    rpolled, overrun>>
    BY ONLY <1>2 DEF config, recvs
  <2> QED BY ONLY TypeOK, <2>1, <2>2 DEF TypeOK
<1>5. \A j \in cqes' : freed' < j
  BY <1>1, <1>3
<1>6. "cq" \notin overrun' => \A j \in sig' : freed' < j /\ j <= done' => j \in cqes'
  <2> SUFFICES ASSUME "cq" \notin overrun', NEW j \in sig', freed' < j, j <= done'
               PROVE  j \in cqes'
    OBVIOUS
  <2>0. "cq" \notin overrun /\ j \in sig /\ i < j /\ j <= done
    BY <1>1, <1>2
  <2>1. j \in Nat /\ i \in Nat /\ freed \in Nat /\ freed < i
    BY <1>3, <2>0
  <2>2. freed < j /\ j # i
    BY ONLY <2>0, <2>1
  <2>3. j \in cqes
    BY ONLY <2>0, <2>2, IInv DEF IInv, SlotsInv
  <2> QED BY <1>1, <2>2, <2>3
<1>7. size["sq"] \in Nat
  BY DEF Fields
<1>8. SlotsInv'
  BY <1>1, <1>2, <1>3, <1>5, <1>6, <1>7
<1> QED BY <1>4, <1>8

(* The receive queue works the same way, with a completion for each.         *)
LEMMA RecvKeeps ==
  ASSUME IInv, Recv \/ Receive \/ GetRecvWc
  PROVE  IInv'
<1> USE DEF IInv, TypeOK, SlotsInv, config, sends
<1>1. size["sq"] \in Nat /\ size["rq"] \in Nat
  BY DEF Fields
<1>2. CASE Recv BY <1>1, <1>2 DEF Recv
<1>3. CASE Receive
  <2>1. UNCHANGED <<cfg, seen, sets, step, size, qp, posted, done, freed, sig, cqes, rposted,
                    rpolled>>
    BY <1>3 DEF Receive
  <2>2. rdone' \in {rdone, rdone + 1} /\ rdone < rposted
    BY <1>3 DEF Receive
  <2>3. overrun \subseteq overrun' /\ overrun' \subseteq {"cq", "rcq"}
    BY Zenon, <1>3 DEF Receive, RecvCq
  <2>4. rdone' \in 0 .. rposted /\ rpolled \in 0 .. rdone'
    BY <2>2
  <2>5. TypeOK'
    BY ONLY TypeOK, <2>1, <2>3, <2>4 DEF TypeOK
  <2>6. SlotsInv'
    BY ONLY SlotsInv, <2>1, <2>3 DEF SlotsInv
  <2> QED BY <2>5, <2>6
<1>4. CASE GetRecvWc BY <1>1, <1>4 DEF GetRecvWc
<1> QED BY <1>2, <1>3, <1>4

(* Every step keeps IInv.                                                    *)
LEMMA NextInv == IInv /\ [Next]_vars => IInv'
<1> SUFFICES ASSUME IInv, [Next]_vars PROVE IInv' OBVIOUS
<1>1. CASE Setter
  <2>1. PICK v \in Sizes : SetCqSize(v) \/ SetRcqSize(v) \/ SetSqSize(v) \/ SetRqSize(v)
    BY <1>1 DEF Setter
  <2>2. \E f \in Fields : Set(f, v)
    BY <2>1 DEF SetCqSize, SetRcqSize, SetSqSize, SetRqSize, Fields
  <2>3. v \in Nat BY QueuesAssumption
  <2> QED BY <2>2, <2>3, SetKeeps
<1>2. CASE Begin
  <2>1. TypeOK' BY <1>2 DEF Begin, IInv, TypeOK, Fields, sends, recvs
  <2>2. SlotsInv' BY <1>2 DEF Begin, IInv, TypeOK, SlotsInv, sends, recvs
  <2> QED BY <2>1, <2>2 DEF IInv
<1>3. CASE FromId
  <2>1. /\ GetCqe \in Nat /\ GetRcqe \in Nat /\ GetSqSize \in Nat /\ GetRqSize \in Nat
    BY QueuesAssumption
    DEF IInv, TypeOK, Fields, GetCqe, GetRcqe, GetSqSize, GetRqSize, GetCqSize,
        GetRcqSize, Clip
  <2>2. \E f \in Fields, v \in Nat, next \in Fields \cup {"ready"} : Reads(f, v, next)
    BY <1>3, <2>1 DEF FromId, CreateQp, Fields
  <2> QED BY <2>2, ReadsKeeps
<1>4. CASE \E always \in BOOLEAN : Post(always)
  BY <1>4, PostKeeps
<1>5. CASE Recv \/ Receive \/ GetRecvWc
  BY <1>5, RecvKeeps
<1>6. CASE Execute
  BY <1>6, ExecuteKeeps
<1>7. CASE GetSendWc
  BY <1>7, GetSendWcKeeps
<1>8. CASE UNCHANGED vars
  BY <1>8 DEF IInv, TypeOK, SlotsInv, vars, config, sends, recvs
<1> QED BY <1>1, <1>2, <1>3, <1>4, <1>5, <1>6, <1>7, <1>8 DEF Next

(* IInv always holds.                                                        *)
THEOREM Invariance == Spec => []IInv
BY InitInv, NextInv, PTL DEF Spec

------------------------------------------------------------------------------
(* Completions not polled yet are no more than the operations between those  *)
(* freed and those executed.                                                 *)
LEMMA UnpolledBound ==
  ASSUME IInv
  PROVE  Cardinality(cqes) \in Nat /\ Cardinality(cqes) <= done - freed
<1> DEFINE S == (freed + 1) .. done
<1>1. freed \in Nat /\ done \in Nat /\ freed <= done
  BY DEF IInv, TypeOK
<1>2. cqes \subseteq S
  BY <1>1 DEF IInv, TypeOK, SlotsInv
<1>3. IsFiniteSet(S) /\ Cardinality(S) = IF freed + 1 > done THEN 0 ELSE done - (freed + 1) + 1
  BY <1>1, FS_Interval
<1>4. Cardinality(S) = done - freed
  BY <1>1, <1>3
<1>5. IsFiniteSet(cqes) /\ Cardinality(cqes) <= Cardinality(S)
  BY Zenon, <1>2, <1>3, FS_Subset
<1>6. Cardinality(cqes) \in Nat
  BY <1>5, FS_CardinalityType
<1> QED BY <1>4, <1>5, <1>6

(* What is in a CQ never holds more slots than its queues have; so a CQ that *)
(* an operation finds full is too small for one of its queues, or for both   *)
(* while both are used.                                                      *)
LEMMA FullCq ==
  ASSUME IInv
  PROVE  /\ done < posted /\ Entries("cq") >= size["cq"] => MayOverrun
         /\ rdone < rposted /\ Entries(RecvCq) >= size[RecvCq] => MayOverrun
<1> DEFINE c == Cardinality(cqes)
<1>1. c \in Nat /\ c <= done - freed
  BY UnpolledBound
<1>2. /\ posted \in Nat /\ done \in Nat /\ freed \in Nat /\ done <= posted /\ freed <= done
      /\ rposted \in Nat /\ rdone \in Nat /\ rpolled \in Nat
      /\ rdone <= rposted /\ rpolled <= rdone
      /\ size["cq"] \in Nat /\ size["rcq"] \in Nat /\ size["sq"] \in Nat /\ size["rq"] \in Nat
  BY DEF IInv, TypeOK, Fields
<1>3. posted - freed <= size["sq"] /\ rposted - rpolled <= size["rq"]
  BY DEF IInv, SlotsInv
<1>4. /\ RecvCq = "cq" => size["rcq"] = 0 /\ Entries("cq") = c + (rdone - rpolled)
      /\ RecvCq # "cq" => RecvCq = "rcq" /\ Entries("cq") = c /\ Entries("rcq") = rdone - rpolled
  BY <1>1, <1>2 DEF Entries, RecvCq
<1> HIDE DEF c
<1>5. CASE RecvCq = "cq"
  BY <1>1, <1>2, <1>3, <1>4, <1>5 DEF MayOverrun
<1>6. CASE RecvCq # "cq"
  BY <1>1, <1>2, <1>3, <1>4, <1>6 DEF MayOverrun
<1> QED BY <1>5, <1>6

(* Every step keeps OverrunInv.                                              *)
LEMMA NextOverrun == IInv /\ OverrunInv /\ [Next]_vars => OverrunInv'
<1> SUFFICES ASSUME IInv, OverrunInv, [Next]_vars PROVE OverrunInv' OBVIOUS
<1>1. ASSUME UNCHANGED overrun, step # "ready" PROVE OverrunInv'
  BY <1>1 DEF OverrunInv
<1>2. ASSUME UNCHANGED <<step, size>>, posted' >= posted, rposted' >= rposted,
             posted' \in Nat, rposted' \in Nat,
             overrun # {} \/ MayOverrun \/ UNCHANGED overrun, overrun' # {} => step = "ready"
      PROVE  OverrunInv'
  <2>1. posted \in Nat /\ rposted \in Nat
    BY DEF IInv, TypeOK
  <2>2. MayOverrun => MayOverrun'
    <3>1. posted > 0 /\ rposted > 0 => posted' > 0 /\ rposted' > 0
      BY <1>2, <2>1
    <3> QED BY ONLY <1>2, <3>1 DEF MayOverrun, RecvCq
  <2> QED BY <1>2, <2>2 DEF OverrunInv
<1>3. /\ posted \in Nat /\ rposted \in Nat /\ done \in Nat /\ rdone \in Nat
      /\ Entries("cq") \in Int /\ Entries("rcq") \in Int /\ RecvCq \in {"cq", "rcq"}
      /\ size["cq"] \in Nat /\ size["rcq"] \in Nat
  <2>1. Cardinality(cqes) \in Nat
    BY UnpolledBound
  <2> QED BY <2>1 DEF IInv, TypeOK, Entries, RecvCq, Fields
<1>4. overrun # {} => step = "ready"
  BY DEF OverrunInv
<1>5. CASE Setter
  <2>1. UNCHANGED <<step, size, posted, rposted, overrun>>
    BY <1>5 DEF Setter, SetCqSize, SetRcqSize, SetSqSize, SetRqSize, Set, sends, recvs
  <2> QED BY <1>2, <1>3, <1>4, <2>1
<1>6. CASE Begin \/ FromId
  <2>1. UNCHANGED overrun /\ step # "ready"
    BY <1>6 DEF Begin, FromId, CreateQp, Reads
  <2> QED BY <1>1, <2>1
<1>7. CASE (\E always \in BOOLEAN : Post(always)) \/ Recv
  <2>1. /\ UNCHANGED <<step, size, overrun>> /\ posted' >= posted /\ rposted' >= rposted
        /\ posted' \in Nat /\ rposted' \in Nat
    BY <1>3, <1>7 DEF Post, Recv, config, sends, recvs
  <2> QED BY <1>2, <1>4, <2>1
<1>8. CASE Execute
  <2>1. UNCHANGED <<step, size, posted, rposted>> /\ done < posted
    BY <1>8 DEF Execute, config, recvs
  <2>2. step = "ready"
    BY <1>3, <2>1 DEF IInv, SlotsInv
  <2>3. overrun # {} \/ MayOverrun \/ UNCHANGED overrun
    <3> SUFFICES ASSUME overrun = {}, ~Fits("cq") PROVE MayOverrun
      BY <1>8 DEF Execute
    <3>1. Entries("cq") >= size["cq"]
      BY <1>3 DEF Fits
    <3> QED BY <2>1, <3>1, FullCq
  <2> QED BY <1>2, <1>3, <2>1, <2>2, <2>3
<1>9. CASE Receive
  <2>1. UNCHANGED <<step, size, posted, rposted>> /\ rdone < rposted
    BY <1>9 DEF Receive, config, sends
  <2>2. step = "ready"
    BY <1>3, <2>1 DEF IInv, SlotsInv
  <2>3. overrun # {} \/ MayOverrun \/ UNCHANGED overrun
    <3> SUFFICES ASSUME overrun = {}, ~Fits(RecvCq) PROVE MayOverrun
      BY <1>9 DEF Receive
    <3>1. Entries(RecvCq) >= size[RecvCq]
      BY <1>3 DEF Fits
    <3> QED BY <2>1, <3>1, FullCq
  <2> QED BY <1>2, <1>3, <2>1, <2>2, <2>3
<1>10. CASE GetSendWc \/ GetRecvWc \/ UNCHANGED vars
  <2>1. UNCHANGED <<step, size, posted, rposted, overrun>>
    BY <1>10 DEF GetSendWc, GetRecvWc, vars, config, sends, recvs
  <2> QED BY <1>2, <1>3, <1>4, <2>1
<1> QED BY <1>5, <1>6, <1>7, <1>8, <1>9, <1>10 DEF Next

(* A send queue is stuck only if it is full of operations that asked for no  *)
(* completion and succeeded.                                                 *)
THEOREM StallTheorem == Spec => []StallMeansSilence
<1>1. IInv => StallMeansSilence
  BY DEF IInv, TypeOK, SlotsInv, StallMeansSilence
<1> QED BY <1>1, Invariance, PTL

------------------------------------------------------------------------------
(* A size as it is asked for.                                                *)
Asked(f, v) == IF f \in {"cq", "rcq"} THEN Clip(v) ELSE v

(* While rpma_conn_req_from_id runs, seen holds the present value of every   *)
(* field, and what a size read so far was made of.                           *)
ReadSoFar ==
  CASE step \in {"new", "cq"} -> {}
    [] step = "rcq" -> {"cq"}
    [] step = "sq" -> {"cq", "rcq"}
    [] step = "rq" -> {"cq", "rcq", "sq"}
    [] step = "ready" -> Fields

SeenInv ==
  /\ step \in Fields => \A f \in Fields : cfg[f] \in seen[f]
  /\ \A f \in ReadSoFar : \E v \in seen[f] : size[f] = Asked(f, v)

(* One step of rpma_conn_req_from_id adds its field to those read.           *)
LEMMA ReadsSeen ==
  ASSUME IInv, SeenInv, NEW f \in Fields, NEW next, Reads(f, Asked(f, cfg[f]), next),
         \/ f = "cq" /\ next = "rcq"
         \/ f = "rcq" /\ next = "sq"
         \/ f = "sq" /\ next = "rq"
         \/ f = "rq" /\ next = "ready"
  PROVE  SeenInv'
<1>1. ReadSoFar' \subseteq ReadSoFar \cup {f} /\ ReadSoFar' \subseteq Fields
  BY DEF ReadSoFar, Reads, Fields
<1>2. /\ cfg' = cfg /\ seen' = seen /\ cfg[f] \in seen[f]
      /\ size' = [size EXCEPT ![f] = Asked(f, cfg[f])]
      /\ step = f
  BY DEF Reads, SeenInv
<1>3. step' \in Fields => \A g \in Fields : cfg'[g] \in seen'[g]
  BY <1>2 DEF SeenInv
<1>4. \A g \in ReadSoFar' : \E v \in seen'[g] : size'[g] = Asked(g, v)
  <2> SUFFICES ASSUME NEW g \in ReadSoFar' PROVE \E v \in seen[g] : size'[g] = Asked(g, v)
    BY <1>2
  <2>1. g \in Fields /\ size \in [Fields -> Nat]
    BY <1>1 DEF IInv, TypeOK
  <2>2. CASE g = f
    BY <1>2, <2>1, <2>2
  <2>3. CASE g # f
    <3>1. g \in ReadSoFar BY <1>1, <2>3
    <3>2. size'[g] = size[g] BY <1>2, <2>1, <2>3
    <3> QED BY <3>1, <3>2 DEF SeenInv
  <2> QED BY <2>2, <2>3
<1> QED BY <1>3, <1>4 DEF SeenInv, Asked, Clip

(* Every step keeps SeenInv.                                                 *)
LEMMA NextSeen == IInv /\ SeenInv /\ [Next]_vars => SeenInv'
<1> SUFFICES ASSUME IInv, SeenInv, [Next]_vars PROVE SeenInv' OBVIOUS
<1>1. CASE Setter
  <2>1. PICK f \in Fields, v \in Sizes : Set(f, v)
    BY <1>1 DEF Setter, SetCqSize, SetRcqSize, SetSqSize, SetRqSize, Fields
  <2>2. /\ step' = step /\ size' = size /\ cfg' = [cfg EXCEPT ![f] = v]
        /\ cfg \in [Fields -> Nat] /\ seen \in [Fields -> SUBSET Nat]
    BY <2>1 DEF Set, IInv, TypeOK
  <2>3. \A g \in Fields : seen[g] \subseteq seen'[g]
    BY <2>1, <2>2 DEF Set
  <2>4. step \in Fields => \A g \in Fields : cfg'[g] \in seen'[g]
    BY <2>1, <2>2 DEF Set, SeenInv, Fields
  <2>5. ReadSoFar' = ReadSoFar /\ ReadSoFar \subseteq Fields
    BY <2>2 DEF ReadSoFar, Fields, IInv, TypeOK
  <2>6. \A g \in ReadSoFar : \E w \in seen'[g] : size[g] = Asked(g, w)
    BY <2>3, <2>5 DEF SeenInv
  <2> QED BY <2>2, <2>4, <2>5, <2>6 DEF SeenInv, Asked, Clip
<1>2. CASE Begin
  BY <1>2 DEF Begin, SeenInv, ReadSoFar, Fields
<1>3. CASE FromId
  <2>1. CASE Reads("cq", GetCqe, "rcq")
    BY <2>1, ReadsSeen DEF Asked, Fields, GetCqe, GetCqSize
  <2>2. CASE Reads("rcq", GetRcqe, "sq")
    BY <2>2, ReadsSeen DEF Asked, Fields, GetRcqe, GetRcqSize
  <2>3. CASE Reads("sq", GetSqSize, "rq")
    BY <2>3, ReadsSeen DEF Asked, Fields, GetSqSize
  <2>4. CASE Reads("rq", GetRqSize, "ready")
    BY <2>4, ReadsSeen DEF Asked, Fields, GetRqSize
  <2> QED BY <1>3, <2>1, <2>2, <2>3, <2>4 DEF FromId, CreateQp
<1>4. ASSUME UNCHANGED config PROVE SeenInv'
  BY Zenon, <1>4 DEF config, SeenInv, ReadSoFar, Asked, Clip
<1>5. CASE \E always \in BOOLEAN : Post(always)
  BY <1>4, <1>5 DEF Post
<1>6. CASE Recv \/ Execute \/ Receive \/ GetSendWc \/ GetRecvWc \/ UNCHANGED vars
  BY <1>4, <1>6 DEF Recv, Execute, Receive, GetSendWc, GetRecvWc, vars
<1> QED BY <1>1, <1>2, <1>3, <1>5, <1>6 DEF Next

(* Each size of a connection was configured for its queue during the call.   *)
THEOREM SizesTheorem == Spec => []SizesAsConfigured
<1>1. Init => SeenInv
  BY DEF Init, SeenInv, ReadSoFar, Fields
<1>2. SeenInv => SizesAsConfigured
  <2> SUFFICES ASSUME SeenInv, step = "ready", NEW f \in Fields
               PROVE  \E v \in seen[f] : IF f \in {"cq", "rcq"} /\ v > IntMax
                                         THEN size[f] = IntMax ELSE size[f] = v
    BY DEF SizesAsConfigured
  <2>1. PICK v \in seen[f] : size[f] = Asked(f, v)
    BY DEF SeenInv, ReadSoFar, Fields
  <2>2. IF f \in {"cq", "rcq"} /\ v > IntMax THEN size[f] = IntMax ELSE size[f] = v
    BY <2>1 DEF Asked, Clip
  <2> QED BY <2>2
<1> QED BY <1>1, <1>2, NextSeen, Invariance, PTL DEF Spec

(* A CQ of a connection is overrun only when the sizes configured during     *)
(* rpma_conn_req_from_id, as the default ones, leave too little room in it:  *)
(* for the send queue, for the receive queue or, without an RCQ and once     *)
(* both are used, for the two together.                                      *)
THEOREM OverrunTheorem == Spec => []OverrunAsConfigured
<1>1. Init => SeenInv /\ OverrunInv
  BY DEF Init, SeenInv, ReadSoFar, Fields, OverrunInv
<1>2. IInv /\ SeenInv /\ OverrunInv => OverrunAsConfigured
  <2> SUFFICES ASSUME IInv, SeenInv, OverrunInv, overrun # {} PROVE OverrunAsConfigured
    BY DEF OverrunAsConfigured
  <2>1. step = "ready" /\ MayOverrun
    BY DEF OverrunInv
  <2>2. \A f \in Fields : \E v \in seen[f] : size[f] = Asked(f, v)
    BY <2>1 DEF SeenInv, ReadSoFar, Fields
  <2>3. PICK c \in seen["cq"] : size["cq"] = Clip(c)
    BY <2>2 DEF Fields, Asked
  <2>4. PICK r \in seen["rcq"] : size["rcq"] = Clip(r)
    BY <2>2 DEF Fields, Asked
  <2>5. PICK n \in seen["sq"] : size["sq"] = n
    BY <2>2 DEF Fields, Asked
  <2>6. PICK m \in seen["rq"] : size["rq"] = m
    BY <2>2 DEF Fields, Asked
  <2>7. c \in Nat /\ r \in Nat /\ n \in Nat /\ m \in Nat
    BY <2>3, <2>4, <2>5, <2>6 DEF IInv, TypeOK, Fields
  <2>8. \A k \in Nat : (k > Clip(c) => TooSmall(c, k)) /\ (k > Clip(r) => TooSmall(r, k))
    BY <2>7, QueuesAssumption DEF Clip, TooSmall
  <2>9. size["rcq"] = 0 <=> r = 0
    BY <2>4, <2>7, QueuesAssumption DEF Clip
  <2>10. \/ TooSmall(c, n) \/ TooSmall(IF r = 0 THEN c ELSE r, m)
         \/ r = 0 /\ TooSmall(c, n + m) /\ posted > 0 /\ rposted > 0
    <3>1. CASE size["sq"] > size["cq"]
      BY <2>3, <2>5, <2>7, <2>8, <3>1
    <3>2. CASE size["rq"] > size[RecvCq]
      BY <2>3, <2>4, <2>6, <2>7, <2>8, <2>9, <3>2 DEF RecvCq
    <3>3. CASE /\ size["rcq"] = 0 /\ size["sq"] + size["rq"] > size["cq"]
               /\ posted > 0 /\ rposted > 0
      BY <2>3, <2>5, <2>6, <2>7, <2>8, <2>9, <3>3
    <3> QED BY <2>1, <3>1, <3>2, <3>3 DEF MayOverrun
  <2> QED BY <2>10 DEF OverrunAsConfigured
<1> QED BY <1>1, <1>2, NextSeen, NextOverrun, Invariance, PTL DEF Spec
===============================================================================
