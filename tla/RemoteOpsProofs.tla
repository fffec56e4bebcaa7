--------------------------- MODULE RemoteOpsProofs ---------------------------
(***************************************************************************)
(* Theorems about RemoteOps, for any regions and registrations, any number *)
(* of operations and size of the send queue, with and without faults.      *)
(***************************************************************************)
EXTENDS RemoteOps, TLAPS

(* The steps without arithmetic or sequence constructors, which are most   *)
(* of them, are for Zenon; the others name the SMT solver.                 *)
USE Zenon

(* What conn.c, mr.c and flush.c make of a call: only an atomic write is   *)
(* fenced and inlined, a completion is asked for by the flag, and a        *)
(* persistent flush is posted only where it is one.                        *)
OpOK(op) ==
    /\ IsWrite(op) <=> op.api \in {"write", "atomic_write"}
    /\ op.wr.fence <=> op.api = "atomic_write"
    /\ op.wr.inline <=> op.api = "atomic_write"
    /\ op.wr.signaled <=> op.flags = "ALWAYS"
    /\ op.api = "flush" /\ op.type = "PERSISTENT" => direct /\ op.wr.region \in Pmem

(* The peer's configuration and its registrations tell the truth.          *)
ConfigInv ==
    /\ dwtp => direct
    /\ \A r \in Regions : "FLUSH_PERSISTENT" \in usage[r] => r \in Pmem
    /\ \A i \in DOMAIN ops : OpOK(ops[i])

(* Each CQ entry is of a later operation than those before it.             *)
CqInv == \A c, d \in DOMAIN cq : c < d => cq[c].op < cq[d].op

(* Where a write can be, with direct writes to PMem and before a crash.    *)
PlaceInv ==
    /\ ~crashed => \A i \in DOMAIN ops : ops[i].at # "lost"
    /\ direct => \A i \in DOMAIN ops : ops[i].wr.region \in Pmem => ops[i].at # "memory"

(* Whatever was posted before a read that is executed, or before a fenced  *)
(* operation that is, is executed too; a read has pushed what was before   *)
(* it out of the buffers.                                                  *)
OrderInv ==
    \A i \in DOMAIN ops : \A j \in 1..(i - 1) :
        /\ ops[i].at = "executed" =>
              /\ ops[j].at \notin {"sq", "buffer"}
              /\ IsWrite(ops[j]) /\ direct /\ ops[j].wr.region \in Pmem => ops[j].at = "persistent"
        /\ ops[i].at # "sq" /\ ops[i].wr.fence => ops[j].at # "sq"

(* As long as the connection works, what is completed was executed.        *)
DoneInv == qp = "ok" => \A i \in 1..done : ops[i].at # "sq"

(* An inlined source was read when it was posted, any other one is not     *)
(* used again before the operation is executed.                            *)
SourceInv ==
    \A i \in DOMAIN ops :
        /\ ops[i].wr.inline => ops[i].val = ops[i].given
        /\ qp = "ok" /\ ops[i].at = "sq" /\ ops[i].api = "write" => ops[i].given = src

(* A successful completion is of an operation that was executed, and so    *)
(* were those before it.                                                   *)
SuccessInv == \A c \in DOMAIN cq : cq[c].ok => \A j \in 1..cq[c].op : ops[j].at # "sq"

(* What is completed and has no entry in the CQ did not ask for one.       *)
ReportInv ==
    \A i \in 1..done :
        (\E c \in DOMAIN cq : cq[c].op = i) \/ (ops[i].flags = "ON_ERROR" /\ ops[i].at # "sq")

IInv ==
    /\ TypeOK /\ ConfigInv /\ CqInv /\ PlaceInv /\ OrderInv
    /\ DoneInv /\ SourceInv /\ ValueAsGiven /\ SuccessInv /\ ReportInv

-----------------------------------------------------------------------------
(* The elements of a sequence over S are in S.                             *)
LEMMA ElementsOf == ASSUME NEW S, NEW s \in Seq(S) PROVE \A i \in 1..Len(s) : s[i] \in S
  BY SMT

(* The operations are a function on an interval.                           *)
LEMMA OpsType ==
    ASSUME TypeOK
    PROVE  /\ Len(ops) \in Nat /\ DOMAIN ops = 1..Len(ops)
           /\ \A i \in 1..Len(ops) : ops[i] \in Operations
           /\ Len(cq) \in Nat /\ DOMAIN cq = 1..Len(cq)
           /\ \A c \in 1..Len(cq) : cq[c] \in [op : Nat, ok : BOOLEAN]
           /\ done \in Nat /\ done <= Len(ops)
           /\ polled \in Nat /\ polled <= Len(cq)
  <1>1. ops \in Seq(Operations) /\ cq \in Seq([op : Nat, ok : BOOLEAN])
    BY DEF TypeOK
  <1>2. Len(ops) \in Nat /\ DOMAIN ops = 1..Len(ops) /\ Len(cq) \in Nat /\ DOMAIN cq = 1..Len(cq)
    BY SMT, <1>1
  <1>3. \A i \in 1..Len(ops) : ops[i] \in Operations
    BY <1>1, ElementsOf
  <1>4. \A c \in 1..Len(cq) : cq[c] \in [op : Nat, ok : BOOLEAN]
    BY <1>1, ElementsOf
  <1>5. done \in Nat /\ done <= Len(ops) /\ polled \in Nat /\ polled <= Len(cq)
    BY SMT, <1>2 DEF TypeOK
  <1> QED BY <1>2, <1>3, <1>4, <1>5

(* A function from an interval is a sequence.                              *)
LEMMA FunctionIsSeq ==
    ASSUME NEW S, NEW n \in Nat, NEW f \in [1..n -> S]
    PROVE  f \in Seq(S) /\ Len(f) = n /\ DOMAIN f = 1..n
  <1>1. f \in Seq(S)
    BY SMT
  <1> QED BY SMT, <1>1

(* A new connection satisfies IInv.                                        *)
LEMMA InitInv == Init => IInv
  <1> SUFFICES ASSUME Init PROVE IInv OBVIOUS
  <1> USE DEF Init
  <1>1. Len(ops) = 0 /\ DOMAIN ops = {} /\ Len(cq) = 0 /\ DOMAIN cq = {}
    BY SMT
  <1>2. TypeOK
    <2>1. ops \in Seq(Operations) /\ cq \in Seq([op : Nat, ok : BOOLEAN])
      BY SMT
    <2>2. Len(ops) - Released <= SqSize
      BY SMT, <1>1, RemoteOpsAssumption DEF Released
    <2>3. /\ \A i \in DOMAIN ops : ops[i].at = "executed" => IsRead(ops[i])
          /\ \A i \in DOMAIN ops : IsRead(ops[i]) => ops[i].at \in {"sq", "executed"}
          /\ \A c \in DOMAIN cq : cq[c].op \in 1..done
      BY <1>1
    <2>4. done \in 0..Len(ops) /\ polled \in 0..Len(cq)
      BY SMT, <1>1
    <2>5. usage \in [Regions -> Usages] /\ direct \in BOOLEAN /\ dwtp \in BOOLEAN
          /\ crashed \in BOOLEAN /\ src \in {0, 1} /\ qp \in {"ok", "error"}
      OBVIOUS
    <2> HIDE DEF Init
    <2> QED BY <2>1, <2>2, <2>3, <2>4, <2>5 DEF TypeOK
  <1>3. ConfigInv /\ CqInv /\ PlaceInv /\ OrderInv
    BY <1>1 DEF ConfigInv, CqInv, PlaceInv, OrderInv
  <1>4. DoneInv /\ SourceInv /\ ValueAsGiven /\ SuccessInv /\ ReportInv
    BY SMT, <1>1 DEF DoneInv, SourceInv, ValueAsGiven, SuccessInv, ReportInv
  <1> QED BY <1>2, <1>3, <1>4 DEF IInv

(* The invariant says what the application is promised.                    *)
LEMMA InvImplies ==
    ASSUME IInv
    PROVE  FlushPersists /\ AtomicWriteOrdered /\ SuccessCoversEarlier
  <1>1. DOMAIN ops = 1..Len(ops) /\ Len(ops) \in Nat
    BY OpsType DEF IInv
  <1>2. SuccessCoversEarlier
    BY DEF IInv, SuccessCoversEarlier, Succeeded, SuccessInv, ReportInv
  <1>3. FlushPersists
    <2> SUFFICES ASSUME NEW i \in DOMAIN ops, ops[i].api = "flush", Succeeded(i),
                        NEW j \in Writes(ops[i].wr.region, i)
                 PROVE  /\ ops[j].at \notin {"sq", "buffer"}
                        /\ ops[i].type = "PERSISTENT" => ops[j].at = "persistent"
      BY DEF FlushPersists
    <2>1. j \in 1..(i - 1) /\ IsWrite(ops[j]) /\ ops[j].wr.region = ops[i].wr.region
      BY SMT, <1>1 DEF Writes, IInv, ConfigInv, OpOK
    <2>2. IsRead(ops[i])
      BY <1>1, OpsType DEF IInv, ConfigInv, OpOK, IsWrite, IsRead, Operations, WorkRequests
    <2>3. ops[i].at = "executed"
      BY SMT, <1>1, <1>2, <2>2 DEF SuccessCoversEarlier, IInv, TypeOK
    <2> QED BY <2>1, <2>3 DEF IInv, OrderInv, ConfigInv, OpOK
  <1>4. AtomicWriteOrdered
    <2> SUFFICES ASSUME NEW i \in DOMAIN ops, ops[i].api = "atomic_write", ops[i].at # "sq",
                        NEW f \in 1..(i - 1), ops[f].api = "flush", ops[f].type = "PERSISTENT",
                        NEW j \in Writes(ops[f].wr.region, f)
                 PROVE  ops[j].at = "persistent"
      BY DEF AtomicWriteOrdered
    <2>1. f \in DOMAIN ops /\ ops[f].at # "sq"
      BY SMT, <1>1 DEF IInv, ConfigInv, OpOK, OrderInv
    <2>2. IsRead(ops[f])
      BY <1>1, <2>1, OpsType DEF IInv, ConfigInv, OpOK, IsWrite, IsRead, Operations, WorkRequests
    <2>3. ops[f].at = "executed"
      BY <2>1, <2>2 DEF IInv, TypeOK
    <2>4. j \in 1..(f - 1) /\ IsWrite(ops[j]) /\ ops[j].wr.region = ops[f].wr.region
      BY SMT, <1>1, <2>1 DEF Writes, IInv, ConfigInv, OpOK
    <2> QED BY <2>1, <2>3, <2>4 DEF IInv, OrderInv, ConfigInv, OpOK
  <1> QED BY <1>2, <1>3, <1>4

-----------------------------------------------------------------------------
(* A step of the RNIC or of the remote platform: an operation stays what   *)
(* it is, never goes back to the send queue, and an inlined source is not  *)
(* read again.                                                             *)
Forward ==
    /\ ops' \in Seq(Operations) /\ Len(ops') = Len(ops)
    /\ \A j \in DOMAIN ops :
          /\ ops'[j].api = ops[j].api /\ ops'[j].type = ops[j].type
          /\ ops'[j].flags = ops[j].flags /\ ops'[j].wr = ops[j].wr /\ ops'[j].given = ops[j].given
          /\ ops'[j].at = "sq" => ops[j].at = "sq"
          /\ ops[j].wr.inline => ops'[j].val = ops[j].val
          /\ ops'[j].at = "executed" => IsRead(ops[j])
          /\ IsRead(ops[j]) => ops'[j].at \in {"sq", "executed"}
    /\ crashed' \in BOOLEAN
    /\ UNCHANGED <<usage, direct, dwtp, src, qp, done, cq, polled>>

(* Such a step keeps all but what is said of where writes are.             *)
LEMMA ForwardKeeps ==
    ASSUME IInv, Forward
    PROVE  /\ DOMAIN ops' = DOMAIN ops
           /\ TypeOK' /\ ConfigInv' /\ CqInv' /\ DoneInv' /\ SourceInv' /\ SuccessInv' /\ ReportInv'
  <1>1. DOMAIN ops = 1..Len(ops) /\ Len(ops) \in Nat /\ done \in Nat /\ done <= Len(ops)
    BY OpsType DEF IInv
  <1>2. DOMAIN ops' = DOMAIN ops
    BY SMT, <1>1 DEF Forward
  <1>3. UNCHANGED <<usage, direct, dwtp, src, qp, done, cq, polled>>
    BY DEF Forward
  <1>4. \A j \in DOMAIN ops :
          /\ ops'[j].api = ops[j].api /\ ops'[j].type = ops[j].type
          /\ ops'[j].flags = ops[j].flags /\ ops'[j].wr = ops[j].wr /\ ops'[j].given = ops[j].given
          /\ ops'[j].at = "sq" => ops[j].at = "sq"
    BY DEF Forward
  <1>5. TypeOK'
    <2>1. Released' = Released
      BY <1>3 DEF Released
    <2>2. \A i \in DOMAIN ops' : (ops[i].at)' = "executed" => IsRead(ops[i])'
      BY SMT, <1>2, <1>4 DEF Forward, IsRead
    <2>3. \A i \in DOMAIN ops' : IsRead(ops[i])' => (ops[i].at)' \in {"sq", "executed"}
      BY <1>2, <1>4 DEF Forward, IsRead
    <2> QED BY <2>1, <2>2, <2>3, <1>3 DEF IInv, TypeOK, Forward
  <1>6. ConfigInv'
    BY SMT, <1>2, <1>3, <1>4 DEF IInv, ConfigInv, OpOK, IsWrite
  <1>7. CqInv'
    BY <1>3 DEF IInv, CqInv
  <1>8. DoneInv'
    BY SMT, <1>1, <1>3, <1>4 DEF IInv, DoneInv
  <1>9. SourceInv'
    <2> SUFFICES ASSUME NEW i \in DOMAIN ops
                 PROVE  /\ ops'[i].wr.inline => ops'[i].val = ops'[i].given
                        /\ qp' = "ok" /\ ops'[i].at = "sq" /\ ops'[i].api = "write"
                              => ops'[i].given = src'
      BY <1>2 DEF SourceInv
    <2>1. ops[i].wr.inline => ops'[i].val = ops[i].val
      BY DEF Forward
    <2> QED BY <1>3, <1>4, <2>1 DEF IInv, SourceInv
  <1>10. SuccessInv'
    <2>1. \A c \in DOMAIN cq : cq[c].op \in 1..done
      BY DEF IInv, TypeOK
    <2>2. \A c \in DOMAIN cq : \A j \in 1..cq[c].op : j \in DOMAIN ops
      BY SMT, <1>1, <2>1
    <2> QED BY <1>3, <1>4, <2>2 DEF IInv, SuccessInv
  <1>11. ReportInv'
    <2>1. \A i \in 1..done : i \in DOMAIN ops
      BY SMT, <1>1
    <2> QED BY <1>3, <1>4, <2>1 DEF IInv, ReportInv
  <1> QED BY <1>2, <1>5, <1>6, <1>7, <1>8, <1>9, <1>10, <1>11

(* What leaves the buffers is in PMem, or in a cache.                      *)
LEMMA LandedIs ==
    ASSUME NEW op \in Operations
    PROVE  /\ Landed(op) \in Operations
           /\ Landed(op).api = op.api /\ Landed(op).type = op.type /\ Landed(op).flags = op.flags
           /\ Landed(op).wr = op.wr /\ Landed(op).given = op.given /\ Landed(op).val = op.val
           /\ Landed(op).at = IF op.at # "buffer" THEN op.at
                              ELSE IF direct /\ op.wr.region \in Pmem THEN "persistent" ELSE "memory"
  BY DEF Landed, Operations

(* A read that is executed, rpma_read() or the one of rpma_flush().        *)
LEMMA ExecuteReadKeeps ==
    ASSUME IInv, NEW i \in DOMAIN ops, Execute(i), IsRead(ops[i])
    PROVE  IInv'
  <1>1. DOMAIN ops = 1..Len(ops) /\ Len(ops) \in Nat /\ \A j \in DOMAIN ops : ops[j] \in Operations
    BY OpsType DEF IInv
  <1>2. ops' = [j \in DOMAIN ops |->
                   IF j = i THEN [ops[i] EXCEPT !.at = "executed"] ELSE Landed(ops[j])]
    BY DEF Execute
  <1>3. [ops[i] EXCEPT !.at = "executed"] \in Operations
    BY <1>1 DEF Operations
  <1>4. ops' \in [1..Len(ops) -> Operations]
    BY <1>1, <1>2, <1>3, LandedIs
  <1>5. /\ ops'[i].at = "executed" /\ ops'[i].val = ops[i].val
        /\ ops'[i].api = ops[i].api /\ ops'[i].type = ops[i].type
        /\ ops'[i].flags = ops[i].flags /\ ops'[i].wr = ops[i].wr /\ ops'[i].given = ops[i].given
    BY <1>1, <1>2 DEF Operations
  <1>6. ASSUME NEW j \in DOMAIN ops, j # i
        PROVE  /\ ops'[j].at = IF ops[j].at # "buffer" THEN ops[j].at
                               ELSE IF direct /\ ops[j].wr.region \in Pmem THEN "persistent" ELSE "memory"
               /\ ops'[j].api = ops[j].api /\ ops'[j].type = ops[j].type /\ ops'[j].val = ops[j].val
               /\ ops'[j].flags = ops[j].flags /\ ops'[j].wr = ops[j].wr /\ ops'[j].given = ops[j].given
    <2>1. ops'[j] = Landed(ops[j])
      BY <1>2, <1>6
    <2> QED BY SMT, <1>1, <2>1, LandedIs
  <1>7. UNCHANGED <<usage, direct, dwtp, src, qp, done, cq, polled, crashed>> /\ ~crashed
    BY DEF Execute
  <1>8. Forward
    <2>1. ops' \in Seq(Operations) /\ Len(ops') = Len(ops)
      BY <1>1, <1>4, FunctionIsSeq
    <2>2. ASSUME NEW j \in DOMAIN ops
          PROVE  /\ ops'[j].api = ops[j].api /\ ops'[j].type = ops[j].type
                 /\ ops'[j].flags = ops[j].flags /\ ops'[j].wr = ops[j].wr
                 /\ ops'[j].given = ops[j].given
                 /\ ops'[j].at = "sq" => ops[j].at = "sq"
                 /\ ops[j].wr.inline => ops'[j].val = ops[j].val
                 /\ ops'[j].at = "executed" => IsRead(ops[j])
                 /\ IsRead(ops[j]) => ops'[j].at \in {"sq", "executed"}
      <3>1. CASE j = i
        BY <3>1, <1>5
      <3>2. CASE j # i
        BY <3>2, <1>6 DEF IInv, TypeOK
      <3> QED BY <3>1, <3>2
    <2>3. crashed' \in BOOLEAN
      BY <1>7 DEF IInv, TypeOK
    <2> QED BY <1>7, <2>1, <2>2, <2>3 DEF Forward
  <1>9. DOMAIN ops' = DOMAIN ops
    BY <1>8, ForwardKeeps
  <1>10. PlaceInv'
    <2>1. \A j \in DOMAIN ops : ops'[j].at # "lost" /\ ops'[j].wr = ops[j].wr
      BY ZenonT(30), <1>5, <1>6, <1>7 DEF IInv, PlaceInv
    <2>2. direct => \A j \in DOMAIN ops : ops[j].wr.region \in Pmem => ops'[j].at # "memory"
      BY ZenonT(30), <1>5, <1>6, <1>7 DEF IInv, PlaceInv
    <2> QED BY <1>7, <1>9, <2>1, <2>2 DEF PlaceInv
  <1>11. ValueAsGiven'
    BY SMT, <1>5, <1>6, <1>9 DEF IInv, ValueAsGiven, IsWrite, IsRead
  <1>12. OrderInv'
    <2>1. \A j \in 1..(i - 1) : j \in DOMAIN ops /\ j # i /\ ops[j].at # "sq"
      BY SMT, <1>1 DEF Execute, InOrder
    <2>2. ASSUME NEW k \in DOMAIN ops, NEW j \in 1..(k - 1)
          PROVE  /\ ops'[k].at = "executed" =>
                       /\ ops'[j].at \notin {"sq", "buffer"}
                       /\ IsWrite(ops'[j]) /\ direct /\ ops'[j].wr.region \in Pmem
                             => ops'[j].at = "persistent"
                 /\ ops'[k].at # "sq" /\ ops'[k].wr.fence => ops'[j].at # "sq"
      <3>1. j \in DOMAIN ops
        BY SMT, <1>1
      <3>2. CASE k = i
        <4>1. j # i /\ ops[j].at # "sq"
          BY <2>1, <3>2
        <4>2. ops[j].at \in {"executed", "buffer", "memory", "persistent", "lost"}
          BY <1>1, <3>1, <4>1 DEF Operations
        <4>3. IsWrite(ops[j]) => ops[j].at # "executed"
          BY <3>1 DEF IInv, TypeOK, IsRead, IsWrite
        <4>4. ops[j].at # "lost" /\ (direct /\ ops[j].wr.region \in Pmem => ops[j].at # "memory")
          BY <1>7, <3>1 DEF IInv, PlaceInv
        <4> QED BY <1>6, <3>1, <4>1, <4>2, <4>3, <4>4 DEF IsWrite
      <3>3. CASE k # i
        <4>1. ops'[k].wr = ops[k].wr /\ (ops'[k].at = "executed" => ops[k].at = "executed")
              /\ (ops'[k].at # "sq" => ops[k].at # "sq")
          BY <1>6, <3>3
        <4>2. CASE j = i
          BY <1>5, <4>1, <4>2 DEF IInv, OrderInv, Execute
        <4>3. CASE j # i
          BY SMT, <1>6, <3>1, <4>1, <4>3 DEF IInv, OrderInv, IsWrite
        <4> QED BY <4>2, <4>3
      <3> QED BY <3>2, <3>3
    <2> QED BY <1>7, <1>9, <2>2 DEF OrderInv
  <1> QED BY <1>8, <1>10, <1>11, <1>12, ForwardKeeps DEF IInv

(* A write that is executed: what is in the source now goes to the remote  *)
(* buffers, unless it was inlined.                                         *)
LEMMA ExecuteWriteKeeps ==
    ASSUME IInv, NEW i \in DOMAIN ops, Execute(i), ~IsRead(ops[i])
    PROVE  IInv'
  <1> DEFINE v == IF ops[i].wr.inline THEN ops[i].val ELSE src
             op == [[ops[i] EXCEPT !.at = "buffer"] EXCEPT !.val = v]
  <1>1. DOMAIN ops = 1..Len(ops) /\ Len(ops) \in Nat /\ \A j \in DOMAIN ops : ops[j] \in Operations
    BY OpsType DEF IInv
  <1>2. ops' = [ops EXCEPT ![i] = op]
    <2>1. ops' = [ops EXCEPT ![i].at = "buffer", ![i].val = IF ops[i].wr.inline THEN @ ELSE src]
      BY DEF Execute
    <2> QED BY <1>1, <2>1 DEF Operations
  <1>3. /\ op \in Operations /\ op.at = "buffer" /\ op.val = v
        /\ op.api = ops[i].api /\ op.type = ops[i].type
        /\ op.flags = ops[i].flags /\ op.wr = ops[i].wr /\ op.given = ops[i].given
    <2>1. v \in {Unread, 0, 1}
      BY <1>1 DEF IInv, TypeOK, Operations
    <2> HIDE DEF v
    <2> QED BY <1>1, <2>1 DEF Operations
  <1> HIDE DEF op
  <1>4. ops' \in [1..Len(ops) -> Operations] /\ ops'[i] = op /\ \A j \in DOMAIN ops : j # i => ops'[j] = ops[j]
    BY <1>1, <1>2, <1>3
  <1>5. IsWrite(ops[i])
    BY <1>1 DEF IsRead, IsWrite, Operations, WorkRequests
  <1>6. UNCHANGED <<usage, direct, dwtp, src, qp, done, cq, polled, crashed>> /\ ~crashed /\ qp = "ok"
    BY DEF Execute
  <1>7. Forward
    <2>1. ops' \in Seq(Operations) /\ Len(ops') = Len(ops)
      BY <1>1, <1>4, FunctionIsSeq
    <2>2. ASSUME NEW j \in DOMAIN ops
          PROVE  /\ ops'[j].api = ops[j].api /\ ops'[j].type = ops[j].type
                 /\ ops'[j].flags = ops[j].flags /\ ops'[j].wr = ops[j].wr
                 /\ ops'[j].given = ops[j].given
                 /\ ops'[j].at = "sq" => ops[j].at = "sq"
                 /\ ops[j].wr.inline => ops'[j].val = ops[j].val
                 /\ ops'[j].at = "executed" => IsRead(ops[j])
                 /\ IsRead(ops[j]) => ops'[j].at \in {"sq", "executed"}
      <3>1. CASE j = i
        BY <3>1, <1>3, <1>4
      <3>2. CASE j # i
        BY <3>2, <1>4 DEF IInv, TypeOK
      <3> QED BY <3>1, <3>2
    <2>3. crashed' \in BOOLEAN
      BY <1>6 DEF IInv, TypeOK
    <2> QED BY <1>6, <2>1, <2>2, <2>3 DEF Forward
  <1>8. DOMAIN ops' = DOMAIN ops
    BY <1>7, ForwardKeeps
  <1>9. PlaceInv'
    <2>1. \A j \in DOMAIN ops : ops'[j].at # "lost" /\ ops'[j].wr = ops[j].wr
      BY <1>3, <1>4, <1>6 DEF IInv, PlaceInv
    <2>2. direct => \A j \in DOMAIN ops : ops[j].wr.region \in Pmem => ops'[j].at # "memory"
      BY <1>3, <1>4, <1>6 DEF IInv, PlaceInv
    <2> QED BY <1>6, <1>8, <2>1, <2>2 DEF PlaceInv
  <1>10. ValueAsGiven'
    <2>1. op.val = op.given
      <3>1. CASE ops[i].wr.inline
        BY <1>3, <3>1 DEF IInv, SourceInv
      <3>2. CASE ~ops[i].wr.inline
        <4>1. ops[i].api = "write"
          BY <1>5, <3>2 DEF IInv, ConfigInv, OpOK
        <4>2. ops[i].given = src
          BY <1>6, <4>1 DEF IInv, SourceInv, Execute
        <4> QED BY <1>3, <3>2, <4>2
      <3> QED BY <3>1, <3>2
    <2> QED BY <1>4, <1>8, <2>1 DEF IInv, ValueAsGiven, IsWrite
  <1>11. OrderInv'
    <2>1. ASSUME NEW k \in DOMAIN ops, NEW j \in 1..(k - 1)
          PROVE  /\ ops'[k].at = "executed" =>
                       /\ ops'[j].at \notin {"sq", "buffer"}
                       /\ IsWrite(ops'[j]) /\ direct /\ ops'[j].wr.region \in Pmem
                             => ops'[j].at = "persistent"
                 /\ ops'[k].at # "sq" /\ ops'[k].wr.fence => ops'[j].at # "sq"
      <3>1. j \in DOMAIN ops /\ j # k
        BY SMT, <1>1
      <3>2. CASE k = i
        <4>1. ops'[j] = ops[j]
          BY <1>4, <3>1, <3>2
        <4>2. ops[i].wr.fence => ops[j].at # "sq"
          BY <3>2 DEF Execute, InOrder
        <4> QED BY <1>3, <1>4, <3>2, <4>1, <4>2
      <3>3. CASE k # i /\ j = i
        <4>1. ops[k].at # "executed"
          BY <3>3 DEF IInv, OrderInv, Execute
        <4> QED BY <1>3, <1>4, <3>3, <4>1
      <3>4. CASE k # i /\ j # i
        BY <1>4, <3>1, <3>4 DEF IInv, OrderInv
      <3> QED BY <3>2, <3>3, <3>4
    <2> QED BY <1>6, <1>8, <2>1 DEF OrderInv
  <1> QED BY <1>7, <1>9, <1>10, <1>11, ForwardKeeps DEF IInv

(* An operation moves on within the remote platform, or stays.             *)
Moves(op, new) ==
    \/ new = op
    \/ /\ op.at \in {"buffer", "memory"} /\ new.at \in {"memory", "persistent", "lost"}
       /\ new \in Operations
       /\ new.api = op.api /\ new.type = op.type /\ new.flags = op.flags /\ new.wr = op.wr
       /\ new.given = op.given /\ new.val = op.val

(* Writes that move within the remote platform keep IInv.                  *)
LEMMA MoveKeeps ==
    ASSUME IInv, DOMAIN ops' = DOMAIN ops, ops' \in [DOMAIN ops -> Operations],
           \A j \in DOMAIN ops : Moves(ops[j], ops'[j]),
           crashed' \in BOOLEAN, UNCHANGED <<usage, direct, dwtp, src, qp, done, cq, polled>>,
           ~crashed' => \A j \in DOMAIN ops : ops'[j].at # "lost",
           direct => \A j \in DOMAIN ops : ops[j].wr.region \in Pmem => ops'[j].at # "memory"
    PROVE  IInv'
  <1>1. DOMAIN ops = 1..Len(ops) /\ Len(ops) \in Nat /\ \A j \in DOMAIN ops : ops[j] \in Operations
    BY OpsType DEF IInv
  <1>2. \A j \in DOMAIN ops :
          /\ ops'[j].api = ops[j].api /\ ops'[j].type = ops[j].type
          /\ ops'[j].flags = ops[j].flags /\ ops'[j].wr = ops[j].wr /\ ops'[j].given = ops[j].given
          /\ ops'[j].val = ops[j].val
          /\ \/ ops'[j].at = ops[j].at
             \/ ops[j].at \in {"buffer", "memory"} /\ ops'[j].at \in {"memory", "persistent", "lost"}
    BY DEF Moves
  <1>3. \A j \in DOMAIN ops : IsRead(ops[j]) => ops'[j].at = ops[j].at
    BY <1>2 DEF IInv, TypeOK
  <1>4. Forward
    <2>1. ops' \in Seq(Operations) /\ Len(ops') = Len(ops)
      BY <1>1, FunctionIsSeq
    <2>2. ASSUME NEW j \in DOMAIN ops
          PROVE  /\ ops'[j].at = "sq" => ops[j].at = "sq"
                 /\ ops'[j].at = "executed" => IsRead(ops[j])
                 /\ IsRead(ops[j]) => ops'[j].at \in {"sq", "executed"}
      BY <1>2, <1>3 DEF IInv, TypeOK
    <2> QED BY <1>2, <2>1, <2>2 DEF Forward
  <1>5. PlaceInv'
    BY <1>2 DEF PlaceInv
  <1>6. ValueAsGiven'
    BY SMT, <1>2 DEF IInv, ValueAsGiven, IsWrite
  <1>7. OrderInv'
    <2>1. ASSUME NEW k \in DOMAIN ops, NEW j \in 1..(k - 1)
          PROVE  /\ ops'[k].at = "executed" =>
                       /\ ops'[j].at \notin {"sq", "buffer"}
                       /\ IsWrite(ops'[j]) /\ direct /\ ops'[j].wr.region \in Pmem
                             => ops'[j].at = "persistent"
                 /\ ops'[k].at # "sq" /\ ops'[k].wr.fence => ops'[j].at # "sq"
      <3>1. j \in DOMAIN ops
        BY SMT, <1>1
      <3>2. /\ ops'[k].wr = ops[k].wr
            /\ ops'[k].at = "executed" => ops[k].at = "executed"
            /\ ops'[k].at # "sq" => ops[k].at # "sq"
        BY <1>2
      <3> QED BY SMT, <1>2, <3>1, <3>2 DEF IInv, OrderInv, IsWrite
    <2> QED BY <2>1 DEF OrderInv
  <1> QED BY <1>4, <1>5, <1>6, <1>7, ForwardKeeps DEF IInv

(* The remote platform: Drain, Evict and Crash.                            *)
LEMMA PlatformKeeps ==
    ASSUME IInv, (\E i \in DOMAIN ops : Drain(i) \/ Evict(i)) \/ Crash
    PROVE  IInv'
  <1>1. \A j \in DOMAIN ops : ops[j] \in Operations
    BY OpsType DEF IInv
  <1>2. \A j \in DOMAIN ops : Moves(ops[j], ops[j])
    BY DEF Moves
  <1>3. crashed \in BOOLEAN
    BY DEF IInv, TypeOK
  <1>4. ASSUME NEW i \in DOMAIN ops, Drain(i) PROVE IInv'
    <2>1. ops' = [ops EXCEPT ![i] = Landed(ops[i])] /\ ops[i].at = "buffer" /\ ~crashed
          /\ UNCHANGED <<usage, direct, dwtp, src, qp, done, cq, polled, crashed>>
      BY <1>4 DEF Drain
    <2>2. /\ Landed(ops[i]) \in Operations /\ Moves(ops[i], Landed(ops[i]))
          /\ Landed(ops[i]).at = IF direct /\ ops[i].wr.region \in Pmem THEN "persistent" ELSE "memory"
      BY <1>1, <2>1, LandedIs DEF Moves
    <2>3. /\ DOMAIN ops' = DOMAIN ops /\ ops'[i] = Landed(ops[i])
          /\ \A j \in DOMAIN ops : j # i => ops'[j] = ops[j]
      BY <2>1
    <2>4. ops' \in [DOMAIN ops -> Operations]
      BY <1>1, <2>1, <2>2
    <2>5. \A j \in DOMAIN ops : Moves(ops[j], ops'[j])
      BY <1>2, <2>2, <2>3
    <2>6. /\ \A j \in DOMAIN ops : ops'[j].at # "lost"
          /\ direct => \A j \in DOMAIN ops : ops[j].wr.region \in Pmem => ops'[j].at # "memory"
      BY <2>1, <2>2, <2>3 DEF IInv, PlaceInv
    <2> QED BY <1>3, <2>1, <2>3, <2>4, <2>5, <2>6, MoveKeeps
  <1>5. ASSUME NEW i \in DOMAIN ops, Evict(i) PROVE IInv'
    <2> DEFINE op == [ops[i] EXCEPT !.at = "persistent"]
    <2>1. ops' = [ops EXCEPT ![i] = op] /\ ops[i].at = "memory" /\ ~crashed
          /\ UNCHANGED <<usage, direct, dwtp, src, qp, done, cq, polled, crashed>>
      BY <1>5 DEF Evict
    <2>2. op \in Operations /\ Moves(ops[i], op) /\ op.at = "persistent"
      BY <1>1, <2>1 DEF Moves, Operations
    <2> HIDE DEF op
    <2>3. /\ DOMAIN ops' = DOMAIN ops /\ ops'[i] = op
          /\ \A j \in DOMAIN ops : j # i => ops'[j] = ops[j]
      BY <2>1
    <2>4. ops' \in [DOMAIN ops -> Operations]
      BY <1>1, <2>1, <2>2
    <2>5. \A j \in DOMAIN ops : Moves(ops[j], ops'[j])
      BY <1>2, <2>2, <2>3
    <2>6. /\ \A j \in DOMAIN ops : ops'[j].at # "lost"
          /\ direct => \A j \in DOMAIN ops : ops[j].wr.region \in Pmem => ops'[j].at # "memory"
      BY <2>1, <2>2, <2>3 DEF IInv, PlaceInv
    <2> QED BY <1>3, <2>1, <2>3, <2>4, <2>5, <2>6, MoveKeeps
  <1>6. ASSUME Crash PROVE IInv'
    <2>1. /\ ops' = [i \in DOMAIN ops |->
                  IF ops[i].at \in {"buffer", "memory"} THEN [ops[i] EXCEPT !.at = "lost"] ELSE ops[i]]
          /\ crashed' = TRUE /\ UNCHANGED <<usage, direct, dwtp, src, qp, done, cq, polled>>
      BY <1>6 DEF Crash
    <2>2. \A j \in DOMAIN ops : ops'[j] \in Operations /\ Moves(ops[j], ops'[j]) /\ ops'[j].at # "memory"
      BY SMT, <1>1, <2>1 DEF Moves, Operations
    <2>3. ops' \in [DOMAIN ops -> Operations] /\ DOMAIN ops' = DOMAIN ops
      BY <2>1, <2>2
    <2> QED BY <2>1, <2>2, <2>3, MoveKeeps
  <1> QED BY <1>4, <1>5, <1>6

-----------------------------------------------------------------------------
(* An operation that is posted as OpOK says.                               *)
LEMMA PostKeeps ==
    ASSUME IInv, NEW op \in Operations, Post(op), OpOK(op), op.at = "sq", op.given = src,
           op.wr.inline => op.val = src
    PROVE  IInv'
  <1>1. /\ DOMAIN ops = 1..Len(ops) /\ Len(ops) \in Nat
        /\ done \in Nat /\ done <= Len(ops) /\ DOMAIN cq = 1..Len(cq)
    BY OpsType DEF IInv
  <1>2. UNCHANGED <<usage, direct, dwtp, src, qp, done, cq, polled, crashed>>
    BY DEF Post
  <1> DEFINE n == Len(ops) + 1
  <1>3. ops' \in Seq(Operations) /\ Len(ops') = n /\ ops'[n] = op
        /\ \A j \in 1..Len(ops) : ops'[j] = ops[j]
    BY SMT DEF Post, IInv, TypeOK
  <1>4. DOMAIN ops' = 1..n /\ n \in Nat
    BY <1>1, <1>3, SMT
  <1>5. \A j \in DOMAIN ops' : j = n \/ (j \in DOMAIN ops /\ ops'[j] = ops[j])
    BY SMT, <1>1, <1>3, <1>4
  <1>6. \A k \in DOMAIN ops' : \A j \in 1..(k - 1) : j \in DOMAIN ops /\ ops'[j] = ops[j]
    BY SMT, <1>1, <1>3, <1>4
  <1>7. ops'[n] = op /\ n \in DOMAIN ops'
    BY SMT, <1>3, <1>4, <1>1
  <1> HIDE DEF n
  <1>8. TypeOK'
    <2>1. Released' = Released
      BY <1>2 DEF Released
    <2>2. Released \in Int
      <3>1. polled # 0 => polled \in DOMAIN cq
        BY SMT, <1>1, OpsType DEF IInv
      <3> QED BY SMT, <3>1, <1>1 DEF Released, IInv, TypeOK
    <2>3. Len(ops') - Released' <= SqSize
      <3>1. Len(ops) - Released < SqSize
        BY DEF Post
      <3>2. SqSize \in Int
        BY SMT, RemoteOpsAssumption
      <3> QED BY SMT, <1>1, <1>3, <2>1, <2>2, <3>1, <3>2 DEF n
    <2>4. /\ \A i \in DOMAIN ops' : ops'[i].at = "executed" => IsRead(ops'[i])
          /\ \A i \in DOMAIN ops' : IsRead(ops'[i]) => ops'[i].at \in {"sq", "executed"}
      BY <1>5, <1>7 DEF IInv, TypeOK
    <2>5. done \in 0..Len(ops')
      BY SMT, <1>1, <1>3 DEF n
    <2> QED BY <1>2, <1>3, <2>3, <2>4, <2>5 DEF IInv, TypeOK, IsRead
  <1>9. ConfigInv'
    <2>1. \A j \in DOMAIN ops' : OpOK(ops'[j])
      BY <1>5, <1>7 DEF IInv, ConfigInv
    <2> QED BY <1>2, <2>1 DEF IInv, ConfigInv, OpOK, IsWrite
  <1>10. CqInv' /\ PlaceInv'
    BY <1>2, <1>5, <1>7 DEF IInv, CqInv, PlaceInv
  <1>11. OrderInv'
    <2>1. ASSUME NEW k \in DOMAIN ops', NEW j \in 1..(k - 1)
          PROVE  /\ ops'[k].at = "executed" =>
                       /\ ops'[j].at \notin {"sq", "buffer"}
                       /\ IsWrite(ops'[j]) /\ direct /\ ops'[j].wr.region \in Pmem
                             => ops'[j].at = "persistent"
                 /\ ops'[k].at # "sq" /\ ops'[k].wr.fence => ops'[j].at # "sq"
      <3>1. CASE k = n
        BY <1>7, <3>1
      <3>2. CASE k # n
        BY SMT, <1>5, <1>6, <3>2 DEF IInv, OrderInv
      <3> QED BY <3>1, <3>2
    <2> QED BY <1>2, <2>1 DEF OrderInv, IsWrite
  <1>12. DoneInv' /\ ReportInv'
    <2>1. \A i \in 1..done : ops'[i] = ops[i]
      BY SMT, <1>1, <1>3
    <2> QED BY <1>2, <2>1 DEF IInv, DoneInv, ReportInv
  <1>13. SourceInv' /\ ValueAsGiven'
    BY <1>2, <1>5, <1>7 DEF IInv, SourceInv, ValueAsGiven, IsWrite
  <1>14. SuccessInv'
    <2>1. \A c \in DOMAIN cq : \A j \in 1..cq[c].op : ops'[j] = ops[j]
      BY SMTT(30), <1>1, <1>3 DEF IInv, TypeOK
    <2> QED BY <1>2, <2>1 DEF IInv, SuccessInv
  <1> QED BY <1>8, <1>9, <1>10, <1>11, <1>12, <1>13, <1>14 DEF IInv

(* rpma_read(), rpma_write(), rpma_atomic_write() and rpma_flush() post    *)
(* what OpOK says; a persistent flush only of a region in PMem and to a    *)
(* peer that writes directly to it.                                        *)
LEMMA CallsKeep ==
    ASSUME IInv, NEW r \in Regions, NEW flags \in Flags,
           \/ Read(r, flags) \/ Write(r, flags) \/ AtomicWrite(r, flags)
           \/ Flush(r, "PERSISTENT", flags) \/ Flush(r, "VISIBILITY", flags)
    PROVE  IInv'
  <1> USE DEF Op, MrRead, MrWrite, MrAtomicWrite, FlushDo, Signaled, Operations, WorkRequests,
              OpOK, IsWrite, Unread
  <1>1. src \in {0, 1} /\ flags \in {"ON_ERROR", "ALWAYS"}
    BY RemoteOpsAssumption DEF IInv, TypeOK
  <1>2. CASE Read(r, flags)
    BY <1>1, <1>2, PostKeeps DEF Read
  <1>3. CASE Write(r, flags)
    BY <1>1, <1>3, PostKeeps DEF Write
  <1>4. CASE AtomicWrite(r, flags)
    BY <1>1, <1>4, PostKeeps DEF AtomicWrite
  <1>5. CASE Flush(r, "PERSISTENT", flags)
    <2>1. direct /\ r \in Pmem
      BY <1>5 DEF Flush, FlushSupported, IInv, ConfigInv
    <2> QED BY <1>1, <1>5, <2>1, PostKeeps DEF Flush
  <1>6. CASE Flush(r, "VISIBILITY", flags)
    BY <1>1, <1>6, PostKeeps DEF Flush
  <1> QED BY <1>2, <1>3, <1>4, <1>5, <1>6

(* The application's other steps.                                          *)
LEMMA ApplicationKeeps ==
    ASSUME IInv, ApplyRemotePeerCfg \/ ReuseSource \/ Poll
    PROVE  IInv'
  <1>1. /\ DOMAIN ops = 1..Len(ops) /\ Len(ops) \in Nat
        /\ DOMAIN cq = 1..Len(cq) /\ Len(cq) \in Nat
        /\ polled \in Nat /\ polled <= Len(cq) /\ done \in Nat /\ done <= Len(ops)
    BY OpsType DEF IInv
  <1>2. CASE ApplyRemotePeerCfg
    <2> USE <1>2 DEF ApplyRemotePeerCfg
    <2>1. Released' = Released
      BY DEF Released
    <2>2. TypeOK'
      BY <2>1 DEF IInv, TypeOK, IsRead
    <2>3. ConfigInv' /\ CqInv' /\ PlaceInv' /\ OrderInv'
      BY SMT DEF IInv, ConfigInv, OpOK, IsWrite, CqInv, PlaceInv, OrderInv
    <2>4. DoneInv' /\ SourceInv' /\ ValueAsGiven' /\ SuccessInv' /\ ReportInv'
      BY DEF IInv, DoneInv, SourceInv, ValueAsGiven, IsWrite, SuccessInv, ReportInv
    <2> QED BY <2>2, <2>3, <2>4 DEF IInv
  <1>3. CASE ReuseSource
    <2> USE <1>3 DEF ReuseSource
    <2>1. Released' = Released
      BY DEF Released
    <2>2. TypeOK'
      BY <2>1 DEF IInv, TypeOK, IsRead
    <2>3. ConfigInv' /\ CqInv' /\ PlaceInv' /\ OrderInv'
      BY SMT DEF IInv, ConfigInv, OpOK, IsWrite, CqInv, PlaceInv, OrderInv
    <2>4. DoneInv' /\ ValueAsGiven' /\ SuccessInv' /\ ReportInv'
      BY DEF IInv, DoneInv, ValueAsGiven, IsWrite, SuccessInv, ReportInv
    <2>5. SourceInv'
      <3>1. \A i \in DOMAIN ops : ops[i].api = "write" /\ qp = "ok" => ops[i].at # "sq"
        BY SMT, <1>1 DEF IInv, DoneInv
      <3> QED BY <3>1 DEF IInv, SourceInv
    <2> QED BY <2>2, <2>3, <2>4, <2>5 DEF IInv
  <1>4. CASE Poll
    <2> USE <1>4 DEF Poll
    <2>1. polled' \in 0..Len(cq) /\ polled' \in DOMAIN cq /\ polled' # 0
      BY SMT, <1>1
    <2>2. Released' = cq[polled'].op
      BY <2>1 DEF Released
    <2>3. Len(ops) - Released' <= SqSize
      <3>1. \A c \in DOMAIN cq : cq[c].op \in Int
        BY SMT, <1>1 DEF IInv, TypeOK
      <3>2. Released \in Int /\ Released <= Released'
        <4>1. CASE polled = 0
          BY SMT, <2>1, <2>2, <4>1, <1>1 DEF Released, IInv, TypeOK
        <4>2. CASE polled # 0
          <5>1. polled \in DOMAIN cq /\ polled < polled'
            BY SMT, <1>1, <4>2
          <5>2. cq[polled].op < cq[polled'].op
            BY <2>1, <5>1 DEF IInv, CqInv
          <5> QED BY SMT, <2>1, <2>2, <3>1, <4>2, <5>1, <5>2 DEF Released
        <4> QED BY <4>1, <4>2
      <3>3. Released' \in Int
        BY <2>1, <2>2, <3>1
      <3>4. SqSize \in Int /\ Len(ops) - Released <= SqSize
        BY SMT, RemoteOpsAssumption DEF IInv, TypeOK
      <3> QED BY ONLY SMT, <1>1, <3>2, <3>3, <3>4
    <2>4. TypeOK'
      BY <2>1, <2>3 DEF IInv, TypeOK, IsRead
    <2>5. ConfigInv' /\ CqInv' /\ PlaceInv' /\ OrderInv'
      BY SMT DEF IInv, ConfigInv, OpOK, IsWrite, CqInv, PlaceInv, OrderInv
    <2>6. DoneInv' /\ SourceInv' /\ ValueAsGiven' /\ SuccessInv' /\ ReportInv'
      BY DEF IInv, DoneInv, SourceInv, ValueAsGiven, IsWrite, SuccessInv, ReportInv
    <2> QED BY <2>4, <2>5, <2>6 DEF IInv
  <1> QED BY <1>2, <1>3, <1>4

(* A completion with an entry in the CQ: if it says success, the operation *)
(* and those before it were executed.                                      *)
LEMMA CompletionKeeps ==
    ASSUME IInv, done < Len(ops), done' = done + 1, NEW ok \in BOOLEAN, Completion(ok),
           ok \/ qp' = "ok" => qp = "ok" /\ ops[done + 1].at # "sq",
           qp' \in {"ok", "error"},
           UNCHANGED <<usage, direct, dwtp, src, ops, polled, crashed>>
    PROVE  IInv'
  <1>1. /\ DOMAIN ops = 1..Len(ops) /\ Len(ops) \in Nat
        /\ DOMAIN cq = 1..Len(cq) /\ Len(cq) \in Nat
        /\ polled \in Nat /\ polled <= Len(cq) /\ done \in Nat /\ done <= Len(ops)
    BY OpsType DEF IInv
  <1> DEFINE n == Len(cq) + 1
             wc == [op |-> done + 1, ok |-> ok]
  <1>2. wc \in [op : Nat, ok : BOOLEAN] /\ wc.op = done + 1 /\ wc.ok = ok /\ cq' = Append(cq, wc)
    BY SMT, <1>1 DEF Completion
  <1> HIDE DEF wc
  <1>3. /\ cq' \in Seq([op : Nat, ok : BOOLEAN]) /\ Len(cq') = n /\ cq'[n] = wc
        /\ \A c \in 1..Len(cq) : cq'[c] = cq[c]
    BY <1>2, SMT DEF IInv, TypeOK
  <1>4. DOMAIN cq' = 1..n /\ n \in Nat /\ n \in DOMAIN cq'
    BY <1>1, <1>3, SMT
  <1>5. \A c \in DOMAIN cq' : c = n \/ (c \in DOMAIN cq /\ c < n /\ cq'[c] = cq[c])
    BY SMTT(30), <1>1, <1>3, <1>4
  <1>6. \A c \in DOMAIN cq : c \in DOMAIN cq' /\ cq'[c] = cq[c]
    BY SMT, <1>1, <1>3, <1>4
  <1>7. n \in Nat /\ cq'[n] = wc
    BY <1>3, <1>4
  <1>8. \A c \in DOMAIN cq : cq[c].op \in 1..done
    BY DEF IInv, TypeOK
  <1>9. Released' = Released
    <2>1. polled # 0 => polled \in DOMAIN cq
      BY SMT, <1>1
    <2> QED BY <1>6, <2>1 DEF Released
  <1>10. polled \in 0..Len(cq')
    BY SMT, <1>1, <1>3
  <1> HIDE DEF n
  <1>11. TypeOK'
    <2>1. \A c \in DOMAIN cq' : cq'[c].op \in 1..done'
      BY SMTT(30), <1>1, <1>2, <1>5, <1>7, <1>8
    <2>2. done' \in 0..Len(ops)
      BY SMT, <1>1
    <2> QED BY <1>3, <1>9, <1>10, <2>1, <2>2 DEF IInv, TypeOK, IsRead
  <1>12. ConfigInv' /\ PlaceInv' /\ OrderInv' /\ ValueAsGiven'
    BY SMT DEF IInv, ConfigInv, OpOK, IsWrite, PlaceInv, OrderInv, ValueAsGiven
  <1>13. CqInv'
    <2> SUFFICES ASSUME NEW c \in DOMAIN cq', NEW d \in DOMAIN cq', c < d
                 PROVE  cq'[c].op < cq'[d].op
      BY DEF CqInv
    <2>1. c # n
      BY SMT, <1>4, <1>5, <1>7
    <2>2. c \in DOMAIN cq /\ cq'[c] = cq[c]
      BY <1>5, <2>1
    <2>3. CASE d = n
      BY SMT, <1>1, <1>2, <1>7, <1>8, <2>2, <2>3
    <2>4. CASE d # n
      BY <1>5, <2>2, <2>4 DEF IInv, CqInv
    <2> QED BY <2>3, <2>4
  <1>14. \A j \in 1..(done + 1) : j \in 1..done \/ j = done + 1
    BY SMT, <1>1
  <1>15. DoneInv'
    BY <1>14 DEF IInv, DoneInv
  <1>16. SourceInv'
    BY DEF IInv, SourceInv
  <1>17. SuccessInv'
    <2> SUFFICES ASSUME NEW c \in DOMAIN cq', cq'[c].ok, NEW j \in 1..cq'[c].op
                 PROVE  ops[j].at # "sq"
      BY DEF SuccessInv
    <2>1. CASE c = n
      BY <1>2, <1>7, <1>14, <2>1 DEF IInv, DoneInv
    <2>2. CASE c # n
      BY <1>5, <2>2 DEF IInv, SuccessInv
    <2> QED BY <2>1, <2>2
  <1>18. ReportInv'
    BY SMT, <1>2, <1>4, <1>6, <1>7, <1>14 DEF IInv, ReportInv
  <1> QED BY <1>11, <1>12, <1>13, <1>15, <1>16, <1>17, <1>18 DEF IInv

(* The acknowledgements, and the failures that end the connection.         *)
LEMMA AcknowledgeKeeps ==
    ASSUME IInv, Complete \/ Fail \/ FlushQueue
    PROVE  IInv'
  <1>1. CASE Complete
    <2>1. CASE ops[done + 1].wr.signaled
      BY <1>1, <2>1, CompletionKeeps DEF Complete, IInv, TypeOK
    <2>2. CASE ~ops[done + 1].wr.signaled
      <3>1. /\ DOMAIN ops = 1..Len(ops) /\ Len(ops) \in Nat /\ DOMAIN cq = 1..Len(cq)
            /\ done \in Nat /\ \A i \in DOMAIN ops : ops[i] \in Operations
        BY OpsType DEF IInv
      <3>2. /\ qp = "ok" /\ done < Len(ops) /\ ops[done + 1].at # "sq" /\ done' = done + 1
            /\ UNCHANGED <<usage, direct, dwtp, src, ops, qp, cq, polled, crashed>>
        BY <1>1, <2>2 DEF Complete
      <3>3. \A j \in 1..(done + 1) : j \in 1..done \/ j = done + 1
        BY SMT, <3>1
      <3>4. TypeOK'
        <4>1. Released' = Released
          BY <3>2 DEF Released
        <4>2. done' \in 0..Len(ops) /\ \A c \in DOMAIN cq : cq[c].op \in 1..done'
          BY SMTT(30), <3>1, <3>2 DEF IInv, TypeOK
        <4> QED BY <3>2, <4>1, <4>2 DEF IInv, TypeOK, IsRead
      <3>5. ConfigInv' /\ CqInv' /\ PlaceInv' /\ OrderInv' /\ SourceInv' /\ ValueAsGiven' /\ SuccessInv'
        BY SMT, <3>2 DEF IInv, ConfigInv, OpOK, IsWrite, CqInv, PlaceInv, OrderInv, SourceInv, ValueAsGiven,
                    SuccessInv
      <3>6. DoneInv'
        BY <3>2, <3>3 DEF IInv, DoneInv
      <3>7. ops[done + 1].flags = "ON_ERROR"
        <4>1. done + 1 \in DOMAIN ops
          BY SMT, <3>1, <3>2
        <4>2. ops[done + 1].flags \in Flags /\ ops[done + 1].flags # "ALWAYS"
          BY <2>2, <3>1, <4>1 DEF IInv, ConfigInv, OpOK, Operations
        <4> QED BY <4>2, RemoteOpsAssumption
      <3>8. ReportInv'
        BY <3>2, <3>3, <3>7 DEF IInv, ReportInv
      <3> QED BY <3>4, <3>5, <3>6, <3>8 DEF IInv
    <2> QED BY <2>1, <2>2
  <1>2. CASE Fail
    BY <1>2, CompletionKeeps DEF Fail
  <1>3. CASE FlushQueue
    BY <1>3, CompletionKeeps DEF FlushQueue
  <1> QED BY <1>1, <1>2, <1>3

(* Every step keeps IInv.                                                  *)
LEMMA NextInv ==
    ASSUME IInv, [Next]_vars
    PROVE  IInv'
  <1>1. CASE UNCHANGED vars
    <2> USE <1>1 DEF vars
    <2>1. Released' = Released
      BY DEF Released
    <2>2. TypeOK'
      BY <2>1 DEF IInv, TypeOK, IsRead
    <2>3. ConfigInv' /\ CqInv' /\ PlaceInv' /\ OrderInv'
      BY SMT DEF IInv, ConfigInv, OpOK, IsWrite, CqInv, PlaceInv, OrderInv
    <2>4. DoneInv' /\ SourceInv' /\ ValueAsGiven' /\ SuccessInv' /\ ReportInv'
      BY DEF IInv, DoneInv, SourceInv, ValueAsGiven, IsWrite, SuccessInv, ReportInv
    <2> QED BY <2>2, <2>3, <2>4 DEF IInv
  <1>2. ASSUME NEW i \in DOMAIN ops, Execute(i) PROVE IInv'
    BY <1>2, ExecuteReadKeeps, ExecuteWriteKeeps
  <1>3. CASE Rnic
    BY <1>2, <1>3, AcknowledgeKeeps DEF Rnic
  <1>4. CASE \E r \in Regions, flags \in Flags :
                \/ Read(r, flags) \/ Write(r, flags) \/ AtomicWrite(r, flags)
                \/ Flush(r, "PERSISTENT", flags) \/ Flush(r, "VISIBILITY", flags)
    BY <1>4, CallsKeep
  <1>5. CASE ApplyRemotePeerCfg \/ ReuseSource \/ Poll
    BY <1>5, ApplicationKeeps
  <1>6. CASE (\E i \in DOMAIN ops : Drain(i) \/ Evict(i)) \/ Crash
    BY <1>6, PlatformKeeps
  <1> QED BY <1>1, <1>3, <1>4, <1>5, <1>6 DEF Next

-----------------------------------------------------------------------------
(* The calls of conn.c, the RNIC and the remote platform keep IInv.        *)
THEOREM Invariance == Spec => []IInv
  BY InitInv, NextInv, PTL DEF Spec

(* When rpma_flush() is reported successful, what was written to the       *)
(* region before it has left the buffers; if it is persistent, all that is *)
(* in PMem, whatever crashes.                                              *)
THEOREM FlushTheorem == Spec => []FlushPersists
  BY Invariance, InvImplies, PTL

(* An rpma_atomic_write() that is executed finds what was flushed before   *)
(* it was posted persistent: the fence of mr.c is enough.                  *)
THEOREM AtomicTheorem == Spec => []AtomicWriteOrdered
  BY Invariance, InvImplies, PTL

(* What reaches the remote memory is what the source held when the         *)
(* operation was posted: the inlining of mr.c is enough.                   *)
THEOREM ValueTheorem == Spec => []ValueAsGiven
  <1>1. IInv => ValueAsGiven
    BY DEF IInv
  <1> QED BY Invariance, <1>1, PTL

(* A successful completion stands for all operations posted before it, and *)
(* each of these that failed has its own, with either flag.                *)
THEOREM SuccessTheorem == Spec => []SuccessCoversEarlier
  BY Invariance, InvImplies, PTL
=============================================================================
