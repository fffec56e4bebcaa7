------------------------------- MODULE Queues -------------------------------
(* How much fits into the queues of a connection: the sizes that conn_cfg.c  *)
(* keeps, what rpma_conn_req_from_id and rpma_peer_create_qp make of them    *)
(* while another thread may still change them, and the slots and entries     *)
(* that sends, receives and their completions take.                          *)
(*                                                                           *)
(* Send work is numbered in the order it is posted.  A slot of the send      *)
(* queue is free again once the completion of its request, or of a later     *)
(* one, is polled: an operation with RPMA_F_COMPLETION_ON_ERROR that         *)
(* succeeds has none of its own.                                             *)
EXTENDS Integers, FiniteSets

CONSTANTS
  Sizes,      \* the sizes that may be configured
  DefaultSize,\* RPMA_DEFAULT_Q_SIZE
  IntMax,     \* INT_MAX
  MaxSets,    \* bound: changes of the configuration
  MaxOps      \* bound: operations of each kind posted

ASSUME QueuesAssumption ==
  /\ Sizes \subseteq Nat /\ DefaultSize \in Nat /\ IntMax \in Nat \ {0}
  /\ MaxSets \in Nat /\ MaxOps \in Nat

VARIABLES
  cfg,      \* the configuration
  sets,     \* how often it was changed
  seen,     \* per field: its values since rpma_conn_req_from_id was called
  step,     \* how far rpma_conn_req_from_id is
  size,     \* the sizes it has asked the provider for
  qp,       \* "ok", or "error" once an operation has failed
  posted,   \* send work posted
  done,     \* of it, executed
  freed,    \* of it, no longer in the send queue
  sig,      \* the numbers of that with RPMA_F_COMPLETION_ALWAYS
  cqes,     \* the numbers of that with a completion not polled yet
  rposted,  \* receives posted
  rdone,    \* of them, completed
  rpolled,  \* of them, polled
  overrun   \* the CQs that had no room for a completion

config == <<cfg, sets, seen, step, size>>
sends == <<posted, done, freed, sig, cqes>>
recvs == <<rposted, rdone, rpolled>>
vars == <<config, qp, sends, recvs, overrun>>

Fields == {"cq", "rcq", "sq", "rq"}

(* Conn_cfg_default *)
Defaults == [f \in Fields |-> IF f = "rcq" THEN 0 ELSE DefaultSize]

Init ==
  /\ cfg = Defaults /\ sets = 0 /\ seen = [f \in Fields |-> {}]
  /\ step = "new" /\ size = [f \in Fields |-> 0]
  /\ qp = "ok" /\ posted = 0 /\ done = 0 /\ freed = 0 /\ sig = {} /\ cqes = {}
  /\ rposted = 0 /\ rdone = 0 /\ rpolled = 0 /\ overrun = {}

------------------------------------------------------------------------------
(* Setting the configuration, at any time; each field is atomic. *)
Set(f, v) ==
  /\ sets < MaxSets
  /\ sets' = sets + 1
  /\ cfg' = [cfg EXCEPT ![f] = v]
  /\ seen' = IF step \in {"new", "ready"} THEN seen ELSE [seen EXCEPT ![f] = @ \cup {v}]
  /\ UNCHANGED <<step, size, qp, sends, recvs, overrun>>

SetCqSize(v) == Set("cq", v)
SetRcqSize(v) == Set("rcq", v)
SetSqSize(v) == Set("sq", v)
SetRqSize(v) == Set("rq", v)

GetCqSize == cfg["cq"]
GetRcqSize == cfg["rcq"]
GetSqSize == cfg["sq"]
GetRqSize == cfg["rq"]

(* CLIP_TO_INT *)
Clip(n) == IF n > IntMax THEN IntMax ELSE n

GetCqe == Clip(GetCqSize)
GetRcqe == Clip(GetRcqSize)

(* rpma_conn_req_from_id reads one field after the other, those of the QP    *)
(* only when the CQs are there; the provider makes them as large as asked.   *)
(* Nothing compares the sizes with each other.                               *)
Begin ==
  /\ step = "new"
  /\ step' = "cq"
  /\ seen' = [f \in Fields |-> {cfg[f]}]
  /\ UNCHANGED <<cfg, sets, size, qp, sends, recvs, overrun>>

Reads(f, v, next) ==
  /\ step = f
  /\ size' = [size EXCEPT ![f] = v]
  /\ step' = next
  /\ UNCHANGED <<cfg, sets, seen, qp, sends, recvs, overrun>>

(* Mutant of FromId: the sizes of the two queues are swapped.                *)
FromIdSwapped ==
  \/ Reads("cq", GetCqe, "rcq") \/ Reads("rcq", GetRcqe, "sq")
  \/ Reads("sq", GetRqSize, "rq") \/ Reads("rq", GetSqSize, "ready")

(* Mutant of FromId: the sizes of the two CQs are swapped.                   *)
FromIdCqsSwapped ==
  \/ Reads("cq", GetRcqe, "rcq") \/ Reads("rcq", GetCqe, "sq")
  \/ Reads("sq", GetSqSize, "rq") \/ Reads("rq", GetRqSize, "ready")

CreateQp == Reads("sq", GetSqSize, "rq") \/ Reads("rq", GetRqSize, "ready")
FromId == Reads("cq", GetCqe, "rcq") \/ Reads("rcq", GetRcqe, "sq") \/ CreateQp

------------------------------------------------------------------------------
(* rpma_read, rpma_write, rpma_send and the others; refused if the queue is  *)
(* full.                                                                     *)
Post(always) ==
  /\ step = "ready" /\ posted < MaxOps
  /\ posted - freed < size["sq"]
  /\ posted' = posted + 1
  /\ sig' = IF always THEN sig \cup {posted + 1} ELSE sig
  /\ UNCHANGED <<config, qp, done, freed, cqes, recvs, overrun>>

(* rpma_recv and rpma_conn_req_recv *)
Recv ==
  /\ step = "ready" /\ rposted < MaxOps
  /\ rposted - rpolled < size["rq"]
  /\ rposted' = rposted + 1
  /\ UNCHANGED <<config, qp, sends, rdone, rpolled, overrun>>

(* Without an RCQ the completions of receives go to the CQ too.              *)
RecvCq == IF size["rcq"] = 0 THEN "cq" ELSE "rcq"

Entries(q) ==
  (IF q = "cq" THEN Cardinality(cqes) ELSE 0) + (IF q = RecvCq THEN rdone - rpolled ELSE 0)

(* A completion that finds its CQ full is lost, and so are all later ones.   *)
(* The provider reports it by an asynchronous event, which librpma never     *)
(* reads.                                                                    *)
Fits(q) == q \notin overrun /\ Entries(q) < size[q]

(* The next operation is executed, or fails; after a failure all fail.       *)
Execute ==
  /\ done < posted
  /\ done' = done + 1
  /\ \/ /\ qp = "ok" /\ done + 1 \notin sig
        /\ UNCHANGED <<qp, cqes, overrun>>
     \/ /\ (qp = "ok" /\ done + 1 \in sig /\ UNCHANGED qp) \/ qp' = "error"
        /\ \/ Fits("cq") /\ cqes' = cqes \cup {done + 1} /\ UNCHANGED overrun
           \/ ~Fits("cq") /\ overrun' = overrun \cup {"cq"} /\ UNCHANGED cqes
  /\ UNCHANGED <<config, posted, freed, sig, recvs>>

(* A message arrives, or a receive is flushed. *)
Receive ==
  /\ rdone < rposted
  /\ \/ Fits(RecvCq) /\ rdone' = rdone + 1 /\ UNCHANGED overrun
     \/ ~Fits(RecvCq) /\ overrun' = overrun \cup {RecvCq} /\ UNCHANGED rdone
  /\ UNCHANGED <<config, qp, sends, rposted, rpolled>>

(* Mutant of GetSendWc: several are polled, and one is returned.             *)
GetSendWcBatch ==
  /\ \E i \in cqes :
       /\ \A j \in cqes : i <= j
       /\ cqes' = {}
       /\ freed' = i
  /\ UNCHANGED <<config, qp, posted, done, sig, recvs, overrun>>

(* rpma_cq_get_wc: of the send work in the CQ the oldest is polled first.    *)
GetSendWc ==
  /\ \E i \in cqes :
       /\ \A j \in cqes : i <= j
       /\ cqes' = cqes \ {i}
       /\ freed' = i
  /\ UNCHANGED <<config, qp, posted, done, sig, recvs, overrun>>

GetRecvWc ==
  /\ rpolled < rdone
  /\ rpolled' = rpolled + 1
  /\ UNCHANGED <<config, qp, sends, rposted, rdone, overrun>>

Setter == \E v \in Sizes : SetCqSize(v) \/ SetRcqSize(v) \/ SetSqSize(v) \/ SetRqSize(v)

Next ==
  \/ Setter \/ Begin \/ FromId
  \/ \E always \in BOOLEAN : Post(always)
  \/ Recv \/ Execute \/ Receive \/ GetSendWc \/ GetRecvWc

Spec == Init /\ [][Next]_vars

(* The device works on what was posted, and the application polls.           *)
FairSpec == Spec /\ WF_vars(Execute) /\ WF_vars(GetSendWc)

------------------------------------------------------------------------------
(* Every variable has its type, and nothing is executed that was not posted  *)
(* or polled that was not executed.                                          *)
TypeOK ==
  /\ cfg \in [Fields -> Nat] /\ seen \in [Fields -> SUBSET Nat]
  /\ sets \in 0 .. MaxSets
  /\ step \in {"new", "ready"} \cup Fields
  /\ size \in [Fields -> Nat]
  /\ qp \in {"ok", "error"}
  /\ posted \in Nat /\ done \in 0 .. posted /\ freed \in 0 .. done
  /\ sig \subseteq 1 .. posted /\ cqes \subseteq 1 .. done
  /\ rposted \in Nat /\ rdone \in 0 .. rposted /\ rpolled \in 0 .. rdone
  /\ overrun \subseteq {"cq", "rcq"}

(* Every size of a connection is one that was configured for this very queue *)
(* during rpma_conn_req_from_id, cut to INT_MAX if it is the size of a CQ,   *)
(* even while another thread sets the fields.  (They need not have been      *)
(* configured at the same time.)                                             *)
SizesAsConfigured ==
  step = "ready" =>
    \A f \in Fields : \E v \in seen[f] :
      IF f \in {"cq", "rcq"} /\ v > IntMax THEN size[f] = IntMax ELSE size[f] = v

(* Whether a CQ configured to have v entries has not got n.                  *)
TooSmall(v, n) == n > v \/ n > IntMax

(* When a CQ is overrun, the configuration that rpma_conn_req_from_id read   *)
(* is why, however late the application polls: the CQ is smaller than one of *)
(* the queues it serves; or there is no RCQ, the CQ is smaller than both     *)
(* queues together, and both were used.  The default sizes are of the last   *)
(* kind (10 entries for 10 sends and 10 receives).  librpma neither refuses  *)
(* such sizes nor notices the overrun.                                       *)
OverrunAsConfigured ==
  overrun # {} =>
    \E c \in seen["cq"], r \in seen["rcq"], n \in seen["sq"], m \in seen["rq"] :
      \/ TooSmall(c, n) \/ TooSmall(IF r = 0 THEN c ELSE r, m)
      \/ r = 0 /\ TooSmall(c, n + m) /\ posted > 0 /\ rposted > 0

(* A send queue that is full for good -- all is executed, and nothing is     *)
(* left to poll -- holds successful operations with                          *)
(* RPMA_F_COMPLETION_ON_ERROR only, unless the CQ was overrun: one operation *)
(* with RPMA_F_COMPLETION_ALWAYS among them would have kept it going.        *)
StallMeansSilence ==
  done = posted /\ cqes = {} /\ "cq" \notin overrun =>
    (freed + 1) .. posted \cap sig = {}

(* Work with RPMA_F_COMPLETION_ALWAYS is completed and polled in the end,    *)
(* and its slot is free again, unless the CQ is overrun.                     *)
CompletionArrives ==
  \A i \in 1 .. MaxOps : i \in sig ~> freed >= i \/ "cq" \in overrun
===============================================================================
