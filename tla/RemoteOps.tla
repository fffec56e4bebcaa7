------------------------------ MODULE RemoteOps ------------------------------
(***************************************************************************)
(* Remote memory access over one connection: rpma_read(), rpma_write(),    *)
(* rpma_atomic_write() and rpma_flush() of src/src/conn.c, the work        *)
(* requests that mr.c and flush.c make of them, the access rights peer.c   *)
(* gives a memory region and the peer configuration of peer_cfg.c.         *)
(*                                                                         *)
(* The work requests are executed by the reliable connection and by the    *)
(* remote platform (external).  Its RNIC executes them in the order they   *)
(* were posted, but whatever is not a read may overtake a read unless it   *)
(* is fenced.  What it writes stays in buffers on the way to the memory    *)
(* for a while; a read pushes it out of them.  Where writes go directly to *)
(* persistent memory (no DDIO) they are safe from a crash then; otherwise  *)
(* they are still in a cache.                                              *)
(***************************************************************************)
EXTENDS Integers, Sequences

CONSTANTS
    Regions,   \* the remote memory regions
    Pmem,      \* those of them in persistent memory
    Usages,    \* the values of usage that the remote peer may register with
    Apis,      \* the functions that the application calls
    Flags,     \* the completion flags it calls them with
    Faults,    \* what may happen: a subset of {"crash", "link"}
    SqSize,    \* the size of the send queue (rpma_conn_cfg_set_sq_size())
    MaxOps     \* bound: operations posted

ASSUME RemoteOpsAssumption ==
    /\ Pmem \subseteq Regions
    /\ \A u \in Usages : u \subseteq {"READ_SRC", "WRITE_DST", "FLUSH_VISIBILITY", "FLUSH_PERSISTENT"}
    /\ Apis \subseteq {"read", "write", "atomic_write", "flush"}
    /\ Flags \subseteq {"ON_ERROR", "ALWAYS"}
    /\ Faults \subseteq {"crash", "link"}
    /\ SqSize \in Nat \ {0} /\ MaxOps \in Nat

VARIABLES
    usage,   \* what each region was registered for; its descriptor says so
    direct,  \* does the remote platform write directly to persistent memory?
    dwtp,    \* conn->direct_write_to_pmem
    src,     \* what the application's source buffer holds
    ops,     \* the operations posted, in this order
    qp,      \* "ok", or "error" once an operation has failed
    done,    \* how many operations are completed
    cq,      \* the completions generated: which operation, and its status
    polled,  \* how many of them rpma_cq_get_wc() has returned
    crashed  \* has the remote node lost its power?

vars == <<usage, direct, dwtp, src, ops, qp, done, cq, polled, crashed>>

(* The regions of a peer that tells the truth about its memory.            *)
Init ==
    /\ usage \in [Regions -> Usages]
    /\ \A r \in Regions \ Pmem : "FLUSH_PERSISTENT" \notin usage[r]
    /\ direct \in BOOLEAN
    /\ dwtp = FALSE
    /\ src = 0 /\ ops = <<>> /\ qp = "ok" /\ done = 0 /\ cq = <<>> /\ polled = 0
    /\ crashed = FALSE

-----------------------------------------------------------------------------
(* The library.                                                            *)

(* rpma_peer_usage_to_access(), for the usages of a remote region          *)
Access(u) ==
    (IF u \cap {"READ_SRC", "FLUSH_VISIBILITY", "FLUSH_PERSISTENT"} # {} THEN {"REMOTE_READ"} ELSE {})
    \cup (IF "WRITE_DST" \in u THEN {"REMOTE_WRITE", "LOCAL_WRITE"} ELSE {})

(* Mutant of Signaled: the two flags are mixed up.                         *)
SignaledOnError(flags) == flags = "ON_ERROR"

(* flags & RPMA_F_COMPLETION_ON_SUCCESS                                    *)
Signaled(flags) == flags = "ALWAYS"

(* The work requests of rpma_mr_read(), rpma_mr_write() and                *)
(* rpma_mr_atomic_write()                                                  *)
MrRead(r, flags) ==
    [opcode |-> "RDMA_READ", region |-> r, signaled |-> Signaled(flags), fence |-> FALSE, inline |-> FALSE]

MrWrite(r, flags) ==
    [opcode |-> "RDMA_WRITE", region |-> r, signaled |-> Signaled(flags), fence |-> FALSE, inline |-> FALSE]

(* Mutants of MrAtomicWrite: without IBV_SEND_FENCE, without               *)
(* IBV_SEND_INLINE.                                                        *)
MrAtomicWriteNoFence(r, flags) ==
    [opcode |-> "RDMA_WRITE", region |-> r, signaled |-> Signaled(flags), fence |-> FALSE, inline |-> TRUE]

MrAtomicWriteNoInline(r, flags) ==
    [opcode |-> "RDMA_WRITE", region |-> r, signaled |-> Signaled(flags), fence |-> TRUE, inline |-> FALSE]

MrAtomicWrite(r, flags) ==
    [opcode |-> "RDMA_WRITE", region |-> r, signaled |-> Signaled(flags), fence |-> TRUE, inline |-> TRUE]

(* What is posted: the call, the flush type if it is a flush, its work     *)
(* request, how far that has got, what the source held and what was read   *)
(* of it.  An inlined source is read while it is posted.                   *)
Unread == -1

Op(api, type, flags, wr) ==
    [api |-> api, type |-> type, flags |-> flags, wr |-> wr, at |-> "sq", given |-> src,
     val |-> IF wr.inline THEN src ELSE Unread]

(* The work requests that the send queue still has room for: a slot is     *)
(* free again when a completion of this or a later request is polled.      *)
Released == IF polled = 0 THEN 0 ELSE cq[polled].op

(* ibv_post_send(); it refuses the request when the send queue is full.    *)
Post(op) ==
    /\ Len(ops) < MaxOps
    /\ Len(ops) - Released < SqSize
    /\ ops' = Append(ops, op)
    /\ UNCHANGED <<usage, direct, dwtp, src, qp, done, cq, polled, crashed>>

Read(r, flags) == "read" \in Apis /\ Post(Op("read", "none", flags, MrRead(r, flags)))
Write(r, flags) == "write" \in Apis /\ Post(Op("write", "none", flags, MrWrite(r, flags)))
AtomicWrite(r, flags) ==
    "atomic_write" \in Apis /\ Post(Op("atomic_write", "none", flags, MrAtomicWrite(r, flags)))

(* Mutant of FlushSupported: the connection's configuration is not looked  *)
(* at.                                                                     *)
FlushSupportedByRegion(r, type) ==
    IF type = "PERSISTENT" THEN "FLUSH_PERSISTENT" \in usage[r] ELSE "FLUSH_VISIBILITY" \in usage[r]

(* rpma_flush() returns RPMA_E_NOSUPP otherwise.                           *)
FlushSupported(r, type) ==
    IF type = "PERSISTENT" THEN dwtp /\ "FLUSH_PERSISTENT" \in usage[r]
                           ELSE "FLUSH_VISIBILITY" \in usage[r]

(* rpma_flush_apm_do(): a read of the first bytes of what is flushed       *)
FlushDo(r, flags) == MrRead(r, flags)

Flush(r, type, flags) ==
    /\ "flush" \in Apis
    /\ FlushSupported(r, type)
    /\ Post(Op("flush", type, flags, FlushDo(r, flags)))

(* rpma_conn_apply_remote_peer_cfg(), of the descriptor that the remote    *)
(* peer made of its configuration                                          *)
ApplyRemotePeerCfg ==
    /\ dwtp' = direct
    /\ UNCHANGED <<usage, direct, src, ops, qp, done, cq, polled, crashed>>

(* The application reuses its source buffer: that of an rpma_write() once  *)
(* it is completed, that of an rpma_atomic_write() once the call returned. *)
ReuseSource ==
    /\ src = 0
    /\ \A i \in DOMAIN ops : ops[i].api = "write" => i <= done
    /\ src' = 1
    /\ UNCHANGED <<usage, direct, dwtp, ops, qp, done, cq, polled, crashed>>

(* rpma_cq_get_wc()                                                        *)
Poll ==
    /\ polled < Len(cq)
    /\ polled' = polled + 1
    /\ UNCHANGED <<usage, direct, dwtp, src, ops, qp, done, cq, crashed>>

-----------------------------------------------------------------------------
(* The reliable connection and the remote platform (external).             *)

IsRead(op) == op.wr.opcode = "RDMA_READ"
IsWrite(op) == op.wr.opcode = "RDMA_WRITE"

(* Does the region allow the operation?                                    *)
Allowed(op) ==
    (IF IsRead(op) THEN "REMOTE_READ" ELSE "REMOTE_WRITE") \in Access(usage[op.wr.region])

(* Operation i need not wait for an earlier one any more.                  *)
InOrder(i) ==
    \A j \in 1..(i - 1) :
        ops[j].at # "sq" \/ (IsRead(ops[j]) /\ ~IsRead(ops[i]) /\ ~ops[i].wr.fence)

(* Where a write ends up when it leaves the buffers.                       *)
Landed(op) ==
    IF op.at # "buffer" THEN op
    ELSE [op EXCEPT !.at = IF direct /\ op.wr.region \in Pmem THEN "persistent" ELSE "memory"]

Execute(i) ==
    /\ qp = "ok" /\ ~crashed
    /\ ops[i].at = "sq" /\ InOrder(i) /\ Allowed(ops[i])
    /\ ops' = IF IsRead(ops[i])
              THEN [j \in DOMAIN ops |->
                       IF j = i THEN [ops[i] EXCEPT !.at = "executed"] ELSE Landed(ops[j])]
              ELSE [ops EXCEPT ![i].at = "buffer",
                               ![i].val = IF ops[i].wr.inline THEN @ ELSE src]
    /\ UNCHANGED <<usage, direct, dwtp, src, qp, done, cq, polled, crashed>>

(* A write leaves the buffers, or a cache, on its own account.             *)
Drain(i) ==
    /\ ~crashed /\ ops[i].at = "buffer"
    /\ ops' = [ops EXCEPT ![i] = Landed(@)]
    /\ UNCHANGED <<usage, direct, dwtp, src, qp, done, cq, polled, crashed>>

Evict(i) ==
    /\ ~crashed /\ ops[i].at = "memory" /\ ops[i].wr.region \in Pmem
    /\ ops' = [ops EXCEPT ![i].at = "persistent"]
    /\ UNCHANGED <<usage, direct, dwtp, src, qp, done, cq, polled, crashed>>

(* The remote node loses its power.                                        *)
Crash ==
    /\ "crash" \in Faults /\ ~crashed
    /\ crashed' = TRUE
    /\ ops' = [i \in DOMAIN ops |->
                  IF ops[i].at \in {"buffer", "memory"} THEN [ops[i] EXCEPT !.at = "lost"] ELSE ops[i]]
    /\ UNCHANGED <<usage, direct, dwtp, src, qp, done, cq, polled>>

Completion(ok) == cq' = Append(cq, [op |-> done + 1, ok |-> ok])

(* The acknowledgement of the next operation arrives.                      *)
Complete ==
    /\ qp = "ok" /\ done < Len(ops)
    /\ ops[done + 1].at # "sq"
    /\ done' = done + 1
    /\ IF ops[done + 1].wr.signaled THEN Completion(TRUE) ELSE UNCHANGED cq
    /\ UNCHANGED <<usage, direct, dwtp, src, ops, qp, polled, crashed>>

(* It never will: the remote node refuses the operation or is down, or the *)
(* link is.                                                                *)
Fail ==
    /\ qp = "ok" /\ done < Len(ops)
    /\ \/ "link" \in Faults
       \/ crashed
       \/ InOrder(done + 1) /\ ~Allowed(ops[done + 1])
    /\ qp' = "error"
    /\ done' = done + 1
    /\ Completion(FALSE)
    /\ UNCHANGED <<usage, direct, dwtp, src, ops, polled, crashed>>

(* What is left in the queue of a broken connection fails, too.            *)
FlushQueue ==
    /\ qp = "error" /\ done < Len(ops)
    /\ done' = done + 1
    /\ Completion(FALSE)
    /\ UNCHANGED <<usage, direct, dwtp, src, ops, qp, polled, crashed>>

Rnic == (\E i \in DOMAIN ops : Execute(i)) \/ Complete \/ Fail \/ FlushQueue

Next ==
    \/ \E r \in Regions, flags \in Flags :
          \/ Read(r, flags) \/ Write(r, flags) \/ AtomicWrite(r, flags)
          \/ Flush(r, "PERSISTENT", flags) \/ Flush(r, "VISIBILITY", flags)
    \/ ApplyRemotePeerCfg \/ ReuseSource \/ Poll
    \/ Rnic
    \/ \E i \in DOMAIN ops : Drain(i) \/ Evict(i)
    \/ Crash

Spec == Init /\ [][Next]_vars

-----------------------------------------------------------------------------
WorkRequests ==
    [opcode : {"RDMA_READ", "RDMA_WRITE"}, region : Regions,
     signaled : BOOLEAN, fence : BOOLEAN, inline : BOOLEAN]
Operations ==
    [api : Apis, type : {"none", "PERSISTENT", "VISIBILITY"}, flags : Flags, wr : WorkRequests,
     at : {"sq", "executed", "buffer", "memory", "persistent", "lost"},
     given : {0, 1}, val : {Unread, 0, 1}]

(* TypeOK: every variable has the values the code and the platform can     *)
(* give it; in particular no completion is for an operation that was not   *)
(* posted through ibv_post_send(), and the queue is never overrun.         *)
TypeOK ==
    /\ usage \in [Regions -> Usages]
    /\ direct \in BOOLEAN /\ dwtp \in BOOLEAN /\ crashed \in BOOLEAN
    /\ src \in {0, 1}
    /\ ops \in Seq(Operations)
    /\ \A i \in DOMAIN ops : ops[i].at = "executed" => IsRead(ops[i])
    /\ \A i \in DOMAIN ops : IsRead(ops[i]) => ops[i].at \in {"sq", "executed"}
    /\ qp \in {"ok", "error"}
    /\ done \in 0..Len(ops)
    /\ cq \in Seq([op : Nat, ok : BOOLEAN]) /\ \A c \in DOMAIN cq : cq[c].op \in 1..done
    /\ polled \in 0..Len(cq)
    /\ Len(ops) - Released <= SqSize

Succeeded(i) == \E c \in DOMAIN cq : cq[c].op = i /\ cq[c].ok
Writes(r, i) == {j \in 1..(i - 1) : ops[j].api \in {"write", "atomic_write"} /\ ops[j].wr.region = r}

(* FlushPersists: when a flush is reported successful, nothing that the    *)
(* application wrote to the region before it is on its way any more; if it *)
(* is of type RPMA_FLUSH_TYPE_PERSISTENT, all that is persistent and stays *)
(* so when the remote node crashes.                                        *)
FlushPersists ==
    \A i \in DOMAIN ops :
        ops[i].api = "flush" /\ Succeeded(i) =>
            \A j \in Writes(ops[i].wr.region, i) :
                /\ ops[j].at \notin {"sq", "buffer"}
                /\ ops[i].type = "PERSISTENT" => ops[j].at = "persistent"

(* AtomicWriteOrdered: "any ongoing read operation (that may emulate a     *)
(* remote flush)" is finished "before the atomic write is executed" (mr.c):*)
(* wherever an rpma_atomic_write() has got, what was flushed before it was *)
(* posted is persistent, without a wait for the flush's completion.        *)
AtomicWriteOrdered ==
    \A i \in DOMAIN ops :
        ops[i].api = "atomic_write" /\ ops[i].at # "sq" =>
            \A f \in 1..(i - 1) : ops[f].api = "flush" /\ ops[f].type = "PERSISTENT" =>
                \A j \in Writes(ops[f].wr.region, f) : ops[j].at = "persistent"

(* ValueAsGiven: what reaches the remote memory is what the source held    *)
(* when the operation was posted, although rpma_atomic_write() lets the    *)
(* caller reuse its source at once.                                        *)
ValueAsGiven ==
    \A i \in DOMAIN ops : IsWrite(ops[i]) /\ ops[i].at # "sq" => ops[i].val = ops[i].given

(* SuccessCoversEarlier: a successful completion stands for all operations *)
(* posted before it, those with RPMA_F_COMPLETION_ON_ERROR included; and   *)
(* one of these that failed is reported.                                   *)
SuccessCoversEarlier ==
    /\ \A i \in DOMAIN ops : Succeeded(i) => \A j \in 1..i : ops[j].at # "sq"
    /\ \A i \in 1..done :
          (\E c \in DOMAIN cq : cq[c].op = i) \/ (ops[i].flags = "ON_ERROR" /\ ops[i].at # "sq")
=============================================================================
