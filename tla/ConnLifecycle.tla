---------------------------- MODULE ConnLifecycle ----------------------------
(***************************************************************************)
(* What the objects of librpma own, from rpma_utils_get_ibv_context() and  *)
(* rpma_peer_new() over endpoints, memory registrations, connection        *)
(* requests and connections to rpma_peer_delete(), with a failure possible *)
(* at every call that can fail: src/src/peer.c, ep.c, info.c, utils.c,     *)
(* conn_req.c, conn.c, cq.c, flush.c, and what mr.c registers.             *)
(*                                                                         *)
(* A librpma function is a program: the sequence of calls it makes on its  *)
(* way to success.  A call that acquires something names its undo, the     *)
(* calls the code makes from the label that it jumps to when it fails.     *)
(***************************************************************************)
EXTENDS Sequences

CONSTANTS
    ReleaseMayFail  \* the resources whose release may fail

(* Everything that is acquired and released.  A resource named x_obj is    *)
(* the heap object that wraps x.                                           *)
Resources == {"rai", "info", "temp_id", "pd", "peer", "ep_evch", "ep_id", "ep", "mr_obj", "mr",
              "id", "channel", "cq_channel", "cq", "cq_obj", "rcq_channel", "rcq",
              "rcq_obj", "qp", "req", "req_data", "evch", "flush", "raw", "raw_mr_obj",
              "raw_mr", "flush_apm", "conn", "conn_data", "on_evch"}

(* Releases with a status that the code looks at; free(3) has none, and    *)
(* rdma_destroy_qp() and rdma_destroy_event_channel() return void.         *)
Fallible == {"temp_id", "pd", "ep_id", "mr", "id", "channel", "cq_channel", "cq", "rcq_channel",
             "rcq", "raw", "raw_mr", "on_evch"}

ASSUME LifecycleAssumption == ReleaseMayFail \subseteq Fallible

VARIABLES
    side,     \* "active" or "passive"
    shared,   \* is the completion channel shared by the CQ and the RCQ?
    hasRcq,   \* is a receive CQ configured?
    hasData,  \* does the other side send private data?
    odp,      \* does the device support On-Demand Paging?
    live,     \* the resources that exist and that somebody can still release
    stuck,    \* those whose release failed: the provider keeps them
    call,     \* the API call in progress, or "idle"
    prog,     \* the rest of its program
    err,      \* the first error met while deleting
    failed,   \* has a release failed in this call?
    ret,      \* what the call returns, or has returned
    handle,   \* what the application has of a connection: "none", "req", "conn" or "gone"
    held      \* what else it has: "ctx", "peer", "ep", "mr"

config == <<side, shared, hasRcq, hasData, odp>>
handles == <<handle, held>>
vars == <<config, live, stuck, call, prog, err, failed, ret, handles>>

-----------------------------------------------------------------------------
(* Calls that acquire r (or only must succeed: r = "none"), register the   *)
(* memory of r, release r, free r if it is there, and what is left: a call *)
(* whose failure is only noted, the jump taken if an error was noted, and  *)
(* the end of a deletion.                                                  *)
Get(r, undo) == [op |-> "get", r |-> r, alt |-> undo]
Reg(r, undo) == [op |-> "reg", r |-> r, alt |-> undo]
Rel(r) == [op |-> "rel", r |-> r, alt |-> <<>>]
Drop(r) == [op |-> "drop", r |-> r, alt |-> <<>>]
Do == [op |-> "do", r |-> "none", alt |-> <<>>]
Move(r) == [op |-> "move", r |-> r, alt |-> <<>>]
GotoIfErr(label) == [op |-> "goto", r |-> "none", alt |-> label]
ReturnErr == [op |-> "return", r |-> "none", alt |-> <<>>]

(* The program of a callee whose caller undoes more when it fails.         *)
Within(p, undo) == [i \in DOMAIN p |-> [p[i] EXCEPT !.alt = @ \o undo]]

If(b, p) == IF b THEN p ELSE <<>>

(* rpma_info_new(), and rpma_info_delete(), which cannot fail              *)
InfoNew == <<Get("rai", <<>>), Get("info", <<Rel("rai")>>)>>
InfoDelete == <<Rel("rai"), Rel("info")>>

(* rpma_info_resolve_addr() and rpma_info_bind_addr()                      *)
ResolveAddr(undo) == Get("none", undo)
BindAddr(undo) == Get("none", undo)

(* rpma_utils_get_ibv_context() of a local or of a remote address: on      *)
(* success it ends at the same labels.                                     *)
GetContext ==
    LET err_info_delete == InfoDelete
        err_destroy_id == <<Rel("temp_id")>> \o err_info_delete
    IN  InfoNew \o <<Get("temp_id", err_info_delete)>>
        \o <<IF side = "passive" THEN BindAddr(err_destroy_id) ELSE ResolveAddr(err_destroy_id)>>
        \o err_destroy_id

(* rpma_utils_ibv_context_is_odp_capable()                                 *)
IsOdpCapable == Get("none", <<>>)

(* rpma_peer_new() and rpma_peer_delete()                                  *)
PeerNew == <<IsOdpCapable, Get("pd", <<>>), Get("peer", <<Rel("pd")>>)>>
PeerDelete == <<Rel("pd"), Rel("peer")>>

(* rpma_ep_listen() and rpma_ep_shutdown()                                 *)
EpListen ==
    LET err_destroy_event_channel == <<Rel("ep_evch")>>
        err_destroy_id == <<Rel("ep_id")>> \o err_destroy_event_channel
        err_info_delete == InfoDelete \o err_destroy_id
    IN  <<Get("ep_evch", <<>>), Get("ep_id", err_destroy_event_channel)>>
        \o Within(InfoNew, err_destroy_id)
        \o <<BindAddr(err_info_delete),
             Get("none", err_info_delete),          \* rdma_listen()
             Get("ep", err_info_delete)>>
        \o InfoDelete
EpShutdown == <<Rel("ep_id"), Rel("ep_evch"), Rel("ep")>>

(* rpma_mr_reg() and rpma_mr_dereg(), of the application's memory or of    *)
(* the RAW buffer                                                          *)
MrObj(r) == IF r = "mr" THEN "mr_obj" ELSE "raw_mr_obj"
MrReg(r) == <<Get(MrObj(r), <<>>), Reg(r, <<Rel(MrObj(r))>>)>>
MrDereg(r) == <<Rel(r), Rel(MrObj(r))>>

OwnChannel(q) == IF q = "cq" THEN "cq_channel" ELSE "rcq_channel"
CqObj(q) == IF q = "cq" THEN "cq_obj" ELSE "rcq_obj"

(* rpma_cq_new()                                                           *)
CqNew(q) ==
    LET err_destroy_comp_channel == If(~shared, <<Rel(OwnChannel(q))>>)
        err_destroy_cq == <<Rel(q)>> \o err_destroy_comp_channel
    IN  If(~shared, <<Get(OwnChannel(q), <<>>)>>)
        \o <<Get(q, err_destroy_comp_channel),
             Get("none", err_destroy_cq),           \* ibv_req_notify_cq()
             Get(CqObj(q), err_destroy_cq)>>

(* Mutant of CqDelete: the channel goes before the CQ that uses it.        *)
CqDeleteChannelFirst(q) ==
    If(q = "cq" \/ hasRcq,
       If(~shared, <<Rel(OwnChannel(q))>>) \o <<Rel(q), Rel(CqObj(q))>>)

(* rpma_cq_delete(); a NULL rcq is skipped                                 *)
CqDelete(q) ==
    If(q = "cq" \/ hasRcq,
       <<Rel(q)>> \o If(~shared, <<Rel(OwnChannel(q))>>) \o <<Rel(CqObj(q))>>)

DestroyChannel == If(shared, <<Rel("channel")>>)

(* Mutant of FromId: the failure of rpma_peer_create_qp() jumps past the   *)
(* deletion of the RCQ.                                                    *)
FromIdWrongLabel ==
    LET err_comp_channel_destroy == DestroyChannel
        err_rpma_cq_delete == CqDelete("cq") \o err_comp_channel_destroy
        err_rpma_rcq_delete == CqDelete("rcq") \o err_rpma_cq_delete
        err_destroy_qp == <<Rel("qp")>> \o err_rpma_rcq_delete
    IN  If(shared, <<Get("channel", <<>>)>>)
        \o Within(CqNew("cq"), err_comp_channel_destroy)
        \o If(hasRcq, Within(CqNew("rcq"), err_rpma_cq_delete))
        \o <<Get("qp", err_rpma_cq_delete), Get("req", err_destroy_qp)>>

(* rpma_peer_create_qp()                                                   *)
CreateQp(undo) == Get("qp", undo)

(* rpma_conn_req_from_id()                                                 *)
FromId ==
    LET err_comp_channel_destroy == DestroyChannel
        err_rpma_cq_delete == CqDelete("cq") \o err_comp_channel_destroy
        err_rpma_rcq_delete == CqDelete("rcq") \o err_rpma_cq_delete
        err_destroy_qp == <<Rel("qp")>> \o err_rpma_rcq_delete
    IN  If(shared, <<Get("channel", <<>>)>>)
        \o Within(CqNew("cq"), err_comp_channel_destroy)
        \o If(hasRcq, Within(CqNew("rcq"), err_rpma_cq_delete))
        \o <<CreateQp(err_rpma_rcq_delete), Get("req", err_destroy_qp)>>

(* rpma_conn_req_delete(): a passive request is rejected, an active one's  *)
(* CM ID is destroyed.                                                     *)
ReqDelete(passive) ==
    <<Rel("qp")>> \o CqDelete("rcq") \o CqDelete("cq")
    \o <<IF passive THEN Do ELSE Rel("id")>>        \* rdma_reject()
    \o DestroyChannel \o <<Drop("req_data"), Rel("req")>>

(* rpma_conn_req_new()                                                     *)
ReqNew ==
    LET err_info_delete == InfoDelete
        err_destroy_id == <<Rel("id")>> \o err_info_delete
    IN  InfoNew
        \o <<Get("id", err_info_delete), ResolveAddr(err_destroy_id),
             Get("none", err_destroy_id)>>          \* rdma_resolve_route()
        \o Within(FromId, err_destroy_id)
        \o InfoDelete

(* rpma_ep_next_conn_req() once it has a CONNECT_REQUEST event, with       *)
(* rpma_conn_req_from_cm_event(), which sets is_passive last.              *)
NextConnReq ==
    LET err_ack == <<Do>>                           \* rdma_ack_cm_event()
    IN  Within(FromId, err_ack)
        \o If(hasData, <<Get("req_data", ReqDelete(FALSE) \o err_ack)>>)
        \o <<Get("none", ReqDelete(TRUE))>>         \* rdma_ack_cm_event()

(* rpma_flush_new(), with rpma_flush_apm_new()                             *)
FlushNew ==
    <<Get("flush", <<>>),
      Get("none", <<Rel("flush")>>),                \* sysconf()
      Get("raw", <<Rel("flush")>>)>>                \* mmap()
    \o Within(MrReg("raw_mr"), <<Rel("raw"), Rel("flush")>>)
    \o <<Get("flush_apm", MrDereg("raw_mr") \o <<Rel("raw"), Rel("flush")>>)>>

(* rpma_flush_delete(), with rpma_flush_apm_delete()                       *)
FlushDelete == MrDereg("raw_mr") \o <<Rel("raw"), Rel("flush_apm"), Rel("flush")>>

(* rpma_conn_new(): on_evch stands for the CM ID's move to the connection's*)
(* event channel, its release for rdma_migrate_id(id, NULL).               *)
ConnNew ==
    LET err_destroy_evch == <<Rel("evch")>>
        err_migrate_id_NULL == <<Rel("on_evch")>> \o err_destroy_evch
        err_flush_delete == FlushDelete \o err_migrate_id_NULL
    IN  <<Get("evch", <<>>), Get("on_evch", err_destroy_evch)>>
        \o Within(FlushNew, err_migrate_id_NULL)
        \o <<Get("conn", err_flush_delete)>>

(* Mutant of ConnDelete: the failure to delete the RCQ jumps to the label  *)
(* that destroys the QP once more.                                         *)
ConnDeleteWrongLabel(then) ==
    LET err_destroy_event_channel == <<Rel("evch"), Drop("conn_data"), Rel("conn")>> \o then
        err_destroy_comp_channel == DestroyChannel \o err_destroy_event_channel
        err_destroy_id == <<Rel("id")>> \o err_destroy_comp_channel
        err_destroy_qp == <<Rel("qp")>> \o CqDelete("rcq") \o CqDelete("cq") \o err_destroy_id
    IN  FlushDelete \o <<GotoIfErr(err_destroy_qp), Rel("qp")>>
        \o CqDelete("rcq") \o <<GotoIfErr(err_destroy_qp)>>
        \o CqDelete("cq") \o <<GotoIfErr(err_destroy_id)>>
        \o <<Rel("id"), GotoIfErr(err_destroy_comp_channel)>>
        \o DestroyChannel \o <<GotoIfErr(err_destroy_event_channel)>>
        \o <<Rel("evch"), Drop("conn_data"), Rel("conn")>> \o then

(* rpma_conn_delete(), and what its caller does next                       *)
ConnDelete(then) ==
    LET err_destroy_event_channel == <<Rel("evch"), Drop("conn_data"), Rel("conn")>> \o then
        err_destroy_comp_channel == DestroyChannel \o err_destroy_event_channel
        err_destroy_id == <<Rel("id")>> \o err_destroy_comp_channel
        err_rpma_cq_delete == CqDelete("cq") \o err_destroy_id
        err_destroy_qp == <<Rel("qp")>> \o CqDelete("rcq") \o err_rpma_cq_delete
    IN  FlushDelete \o <<GotoIfErr(err_destroy_qp), Rel("qp")>>
        \o CqDelete("rcq") \o <<GotoIfErr(err_rpma_cq_delete)>>
        \o CqDelete("cq") \o <<GotoIfErr(err_destroy_id)>>
        \o <<Rel("id"), GotoIfErr(err_destroy_comp_channel)>>
        \o DestroyChannel \o <<GotoIfErr(err_destroy_event_channel)>>
        \o <<Rel("evch"), Drop("conn_data"), Rel("conn")>> \o then

(* rpma_conn_req_accept(), and what its caller does next                   *)
Accept(then) ==
    LET err_conn_req_delete ==
            <<Rel("qp")>> \o CqDelete("rcq") \o CqDelete("cq")
            \o <<Drop("req_data")>> \o DestroyChannel \o then
        err_conn_disconnect == <<Do>> \o err_conn_req_delete
    IN  <<Get("none", err_conn_req_delete)>>        \* rdma_accept()
        \o Within(ConnNew, err_conn_disconnect)
        \o <<Move("req_data")>>                     \* rpma_conn_transfer_private_data()
        \o then

(* rpma_conn_req_connect_active(), and what its caller does next           *)
ConnectActive(then) ==
    LET err_conn_new ==
            <<Rel("qp")>> \o CqDelete("rcq") \o CqDelete("cq") \o <<Rel("id")>>
            \o DestroyChannel \o then
    IN  Within(ConnNew, err_conn_new)
        \o <<Get("none", ConnDelete(then))>>        \* rdma_connect()
        \o then

(* rpma_conn_req_connect(): the request object is freed whatever happens.  *)
ReqConnect ==
    IF side = "passive" THEN Accept(<<Rel("req")>>) ELSE ConnectActive(<<Rel("req")>>)

(* rpma_conn_next_event() on RDMA_CM_EVENT_ESTABLISHED: the private data   *)
(* is stored if there is none yet, and discarded if the event cannot be    *)
(* acknowledged.                                                           *)
NextEvent ==
    If(hasData /\ "conn_data" \notin live, <<Get("conn_data", <<Do>>)>>)
    \o <<Get("none", <<Drop("conn_data")>>)>>       \* rdma_ack_cm_event()

-----------------------------------------------------------------------------
Init ==
    /\ side \in {"active", "passive"}
    /\ shared \in BOOLEAN /\ hasRcq \in BOOLEAN /\ hasData \in BOOLEAN /\ odp \in BOOLEAN
    /\ live = {} /\ stuck = {}
    /\ call = "idle" /\ prog = <<>> /\ err = "0" /\ failed = FALSE /\ ret = "0"
    /\ handle = "none" /\ held = {}

Begin(c, p) ==
    /\ call = "idle"
    /\ call' = c /\ prog' = p /\ err' = "0" /\ failed' = FALSE /\ ret' = "0"
    /\ UNCHANGED <<config, stuck, handles>>

CallGetContext ==
    /\ "ctx" \notin held
    /\ Begin("get_context", GetContext)
    /\ UNCHANGED live

CallPeerNew ==
    /\ "ctx" \in held /\ "peer" \notin held /\ handle = "none"
    /\ Begin("peer_new", PeerNew)
    /\ UNCHANGED live

(* The application deletes the peer last.                                  *)
CallPeerDelete ==
    /\ "peer" \in held /\ held \cap {"ep", "mr"} = {} /\ handle \in {"none", "gone"}
    /\ Begin("peer_delete", PeerDelete \o <<ReturnErr>>)
    /\ UNCHANGED live

CallEpListen ==
    /\ side = "passive" /\ "peer" \in held /\ "ep" \notin held /\ handle = "none"
    /\ Begin("ep_listen", EpListen)
    /\ UNCHANGED live

(* The endpoint may go before the connection; a request still needs it.    *)
CallEpShutdown ==
    /\ "ep" \in held /\ handle # "req"
    /\ Begin("ep_shutdown", EpShutdown \o <<ReturnErr>>)
    /\ UNCHANGED live

CallMrReg ==
    /\ "peer" \in held /\ "mr" \notin held
    /\ Begin("mr_reg", MrReg("mr"))
    /\ UNCHANGED live

CallMrDereg ==
    /\ "mr" \in held
    /\ Begin("mr_dereg", MrDereg("mr") \o <<ReturnErr>>)
    /\ UNCHANGED live

CallReqNew ==
    /\ handle = "none" /\ side = "active" /\ "peer" \in held
    /\ Begin("req_new", ReqNew)
    /\ UNCHANGED live

(* The event brings the CM ID of the new connection with it.               *)
CallNextConnReq ==
    /\ handle = "none" /\ "ep" \in held
    /\ Begin("next_conn_req", NextConnReq)
    /\ live' = live \cup {"id"}

CallReqDelete ==
    /\ handle = "req"
    /\ Begin("req_delete", ReqDelete(side = "passive") \o <<ReturnErr>>)
    /\ UNCHANGED live

CallReqConnect ==
    /\ handle = "req"
    /\ Begin("req_connect", ReqConnect)
    /\ UNCHANGED live

(* rpma_conn_req_connect() with conn_ptr or pdata that is not valid        *)
CallReqConnectInval ==
    /\ handle = "req"
    /\ call = "idle"
    /\ call' = "req_connect" /\ prog' = ReqDelete(side = "passive")
    /\ err' = "0" /\ failed' = FALSE /\ ret' = "RPMA_E_INVAL"
    /\ UNCHANGED <<config, live, stuck, handles>>

CallNextEvent ==
    /\ handle = "conn"
    /\ Begin("next_event", NextEvent)
    /\ UNCHANGED live

CallConnDelete ==
    /\ handle = "conn"
    /\ Begin("conn_delete", ConnDelete(<<ReturnErr>>))
    /\ UNCHANGED live

-----------------------------------------------------------------------------
(* One call of the program that runs.                                      *)
Instr(op) == prog # <<>> /\ Head(prog).op = op

(* What a live or stuck r is built on: it must outlive r.                  *)
Uses(r) ==
    CASE r = "qp" -> {"pd", "id", "cq"} \cup (IF hasRcq THEN {"rcq"} ELSE {})
      [] r \in {"cq", "rcq"} -> {IF shared THEN "channel" ELSE OwnChannel(r)}
      [] r = "mr" -> {"pd"}
      [] r = "raw_mr" -> {"pd", "raw"}
      [] r = "ep_id" -> {"ep_evch"}
      [] r = "id" -> IF "on_evch" \in live THEN {"evch"} ELSE {}
      [] OTHER -> {}

(* What a failed allocation or release is reported as.                     *)
Heap == {"info", "peer", "ep", "mr_obj", "cq_obj", "rcq_obj", "req", "req_data", "flush", "raw", "raw_mr_obj", "flush_apm",
         "conn", "conn_data"}
GetErrors(r) ==
    CASE r \in Heap -> {"RPMA_E_NOMEM"}
      [] r = "pd" -> {"RPMA_E_NOMEM", "RPMA_E_PROVIDER", "RPMA_E_UNKNOWN"}
      [] OTHER -> {"RPMA_E_PROVIDER"}

RelError(r) == IF r = "raw" THEN "RPMA_E_INVAL" ELSE "RPMA_E_PROVIDER"

NoteError(e) == err' = IF err = "0" THEN e ELSE err

GetOk ==
    /\ Instr("get") \/ Instr("reg")
    /\ live' = live \cup ({Head(prog).r} \ {"none"})
    /\ prog' = Tail(prog)
    /\ UNCHANGED <<config, stuck, call, err, failed, ret, handles>>

GetFails ==
    /\ Instr("get") \/ Instr("reg")
    /\ prog' = Head(prog).alt
    /\ ret' \in GetErrors(Head(prog).r)
    /\ UNCHANGED <<config, live, stuck, call, err, failed, handles>>

(* rpma_peer_mr_reg(): a registration that is not supported is tried once  *)
(* more, with On-Demand Paging.                                            *)
RegRetry ==
    /\ Instr("reg") /\ odp
    /\ prog' = <<Get(Head(prog).r, Head(prog).alt)>> \o Tail(prog)
    /\ UNCHANGED <<config, live, stuck, call, err, failed, ret, handles>>

(* With the handle of a CM ID goes its tie to an event channel.            *)
Lost(r) == IF r = "id" THEN {"id", "on_evch"} ELSE {r}

(* ibv_destroy_comp_channel() refuses a channel that a CQ still uses,      *)
(* ibv_dealloc_pd() a protection domain that a registration still uses.    *)
Busy(r) == \E q \in {"cq", "rcq", "mr", "raw_mr"} \cap stuck : r \in Uses(q) \ {"raw"}

RelOk ==
    /\ Instr("rel")
    /\ ~Busy(Head(prog).r)
    /\ live' = live \ Lost(Head(prog).r)
    /\ prog' = Tail(prog)
    /\ UNCHANGED <<config, stuck, call, err, failed, ret, handles>>

RelFails ==
    /\ Instr("rel")
    /\ LET r == Head(prog).r
       IN  /\ r \in ReleaseMayFail \/ Busy(r)
           /\ live' = live \ Lost(r)
           /\ stuck' = stuck \cup {r}
           /\ NoteError(RelError(r))
    /\ failed' = TRUE
    /\ prog' = Tail(prog)
    /\ UNCHANGED <<config, call, ret, handles>>

DropData ==
    /\ Instr("drop")
    /\ live' = live \ {Head(prog).r}
    /\ prog' = Tail(prog)
    /\ UNCHANGED <<config, stuck, call, err, failed, ret, handles>>

MoveData ==
    /\ Instr("move")
    /\ live' = IF "req_data" \in live THEN (live \ {"req_data"}) \cup {"conn_data"} ELSE live
    /\ prog' = Tail(prog)
    /\ UNCHANGED <<config, stuck, call, err, failed, ret, handles>>

(* Mutant of DoCall: the status of the call replaces the one of the calls  *)
(* before it.                                                              *)
DoCallOverwrites ==
    /\ Instr("do")
    /\ err' \in {"0", "RPMA_E_PROVIDER"}
    /\ prog' = Tail(prog)
    /\ UNCHANGED <<config, live, stuck, call, failed, ret, handles>>

(* rdma_reject(), rdma_disconnect(), or an rdma_ack_cm_event() whose       *)
(* result is not looked at                                                 *)
DoCall ==
    /\ Instr("do")
    /\ UNCHANGED err \/ NoteError("RPMA_E_PROVIDER")
    /\ prog' = Tail(prog)
    /\ UNCHANGED <<config, live, stuck, call, failed, ret, handles>>

CheckErr ==
    /\ Instr("goto")
    /\ prog' = IF err = "0" THEN Tail(prog) ELSE Head(prog).alt
    /\ UNCHANGED <<config, live, stuck, call, err, failed, ret, handles>>

SetRet ==
    /\ Instr("return")
    /\ ret' = err
    /\ prog' = Tail(prog)
    /\ UNCHANGED <<config, live, stuck, call, err, failed, handles>>

(* The handle that a call makes, and the one it takes away.                *)
Makes == [get_context |-> "ctx", peer_new |-> "peer", ep_listen |-> "ep", mr_reg |-> "mr"]
Takes == [peer_delete |-> "peer", ep_shutdown |-> "ep", mr_dereg |-> "mr"]

Return ==
    /\ call # "idle" /\ prog = <<>>
    /\ call' = "idle"
    /\ held' = CASE call \in DOMAIN Makes /\ ret = "0" -> held \cup {Makes[call]}
                 [] call \in DOMAIN Takes -> held \ {Takes[call]}
                 [] OTHER -> held
    /\ handle' = CASE call \in DOMAIN Makes \cup DOMAIN Takes -> handle
                   [] call = "next_event" -> "conn"
                   [] call \in {"req_new", "next_conn_req"} /\ ret = "0" -> "req"
                   [] call = "req_connect" /\ ret = "0" -> "conn"
                   [] OTHER -> "gone"
    /\ UNCHANGED <<config, live, stuck, prog, err, failed, ret>>

Call ==
    \/ CallGetContext \/ CallPeerNew \/ CallPeerDelete \/ CallEpListen \/ CallEpShutdown
    \/ CallMrReg \/ CallMrDereg
    \/ CallReqNew \/ CallNextConnReq \/ CallReqDelete \/ CallReqConnect
    \/ CallReqConnectInval \/ CallNextEvent \/ CallConnDelete

(* The application has no further use for librpma.                         *)
Done == handle = "gone" /\ call = "idle" /\ held = {"ctx"} /\ UNCHANGED vars

Next ==
    \/ Call
    \/ GetOk \/ GetFails \/ RegRetry \/ RelOk \/ RelFails \/ DropData \/ MoveData
    \/ DoCall \/ CheckErr \/ SetRet
    \/ Return
    \/ Done

Spec == Init /\ [][Next]_vars

-----------------------------------------------------------------------------
(* What a request, and the connection made from it, consist of.            *)
CqParts ==
    {"cq", "cq_obj"} \cup (IF hasRcq THEN {"rcq", "rcq_obj"} ELSE {})
    \cup (IF shared THEN {"channel"} ELSE {"cq_channel"} \cup (IF hasRcq THEN {"rcq_channel"} ELSE {}))
Parts == [ctx |-> {}, peer |-> {"pd", "peer"}, ep |-> {"ep_evch", "ep_id", "ep"},
          mr |-> {"mr_obj", "mr"}]
HeldParts == UNION {Parts[h] : h \in held}
ReqParts == {"id", "qp", "req"} \cup CqParts
ConnParts ==
    {"id", "qp", "evch", "on_evch", "flush", "raw", "raw_mr_obj", "raw_mr", "flush_apm", "conn"}
    \cup CqParts

(* TypeOK: every variable has the values the code can give it; in          *)
(* particular the functions return RPMA_E_* codes only.                    *)
TypeOK ==
    /\ side \in {"active", "passive"}
    /\ {shared, hasRcq, hasData, odp, failed} \subseteq BOOLEAN
    /\ live \subseteq Resources /\ stuck \subseteq Fallible
    /\ call \in DOMAIN Makes \cup DOMAIN Takes \cup {"idle", "req_new", "next_conn_req", "req_delete", "req_connect",
                 "next_event", "conn_delete"}
    /\ \A i \in DOMAIN prog :
           prog[i].op \in {"get", "reg", "rel", "drop", "do", "move", "goto", "return"}
    /\ {err, ret} \subseteq
           {"0", "RPMA_E_PROVIDER", "RPMA_E_NOMEM", "RPMA_E_INVAL", "RPMA_E_UNKNOWN"}
    /\ handle \in {"none", "req", "conn", "gone"}
    /\ held \subseteq {"ctx", "peer", "ep", "mr"}

(* Between two calls the application's handles own exactly what the        *)
(* objects are made of, and an application without a handle has left       *)
(* nothing behind, whichever calls failed on the way - but for the CM ID   *)
(* of a passive request that was rejected or not accepted, which nothing   *)
(* destroys.                                                               *)
OwnsItsParts ==
    call = "idle" =>
        /\ HeldParts \subseteq live
        /\ LET rest == live \ HeldParts
           IN  CASE handle = "none" -> rest = {}
                 [] handle = "req" ->
                      rest \ {"req_data"} = ReqParts
                      /\ ("req_data" \in live <=> hasData /\ side = "passive")
                 [] handle = "conn" -> rest \ {"conn_data"} = ConnParts
                 [] handle = "gone" -> rest \subseteq (IF side = "passive" THEN {"id"} ELSE {})

(* No error path releases something twice or something that was never      *)
(* acquired: a resource is there when the code releases it.                *)
NoDoubleRelease ==
    Instr("rel") => Head(prog).r \in live

(* Nothing is destroyed before what is built on it: the QP goes before its *)
(* CQs, a CQ before its completion channel, the CM ID before the event     *)
(* channel it was migrated to, the RAW registration before its memory, and *)
(* the protection domain after all of them.                                *)
ReleaseOrder ==
    \A r \in live : Uses(r) \subseteq live

(* A call that returns 0 has released all it had to release: one that      *)
(* failed to says so, also if it was undoing what it could not finish (the *)
(* goto chain of rpma_conn_delete() and the "first error wins" of          *)
(* rpma_conn_req_delete() lose no error).  The exception is                *)
(* rpma_utils_get_ibv_context(), which ignores that rdma_destroy_id()      *)
(* fails.                                                                  *)
DeletionReports ==
    prog = <<>> /\ failed /\ call \notin {"idle", "get_context"} => ret # "0"
=============================================================================
