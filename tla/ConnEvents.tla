----------------------------- MODULE ConnEvents -----------------------------
(***************************************************************************)
(* Establishing, using and ending connections between clients and a server *)
(* that listens on an endpoint: rpma_ep_next_conn_req() of src/src/ep.c,   *)
(* rpma_conn_req_connect() and rpma_conn_req_delete() of conn_req.c, and   *)
(* rpma_conn_new(), rpma_conn_next_event(), rpma_conn_disconnect() and     *)
(* rpma_conn_delete() of conn.c.                                           *)
(*                                                                         *)
(* The connection manager (librdmacm and the kernel, external) carries the *)
(* connections and puts events on event channels.  The CM ID of an         *)
(* incoming connection starts on the endpoint's channel and moves to a     *)
(* channel of its own inside rpma_conn_req_connect(), after rdma_accept(). *)
(***************************************************************************)
EXTENDS Naturals, Sequences

CONSTANTS
    Conns,    \* the connections that clients ask for
    None,     \* no private data
    Workers,  \* does a thread of its own connect each request the endpoint returns?
    Faults,   \* what may fail: a subset of FaultKinds
    MaxExtra  \* bound: CM events of no consequence, for each connection

FaultKinds == {"from_id", "store", "ack", "accept", "conn_new", "device"}

ASSUME EventsAssumption ==
    /\ Workers \in BOOLEAN
    /\ Faults \subseteq FaultKinds
    /\ MaxExtra \in Nat

(* The two ends of a connection.                                           *)
Client(k) == <<k, "client">>
Server(k) == <<k, "server">>
Ends == Conns \X {"client", "server"}
Peer(e) == IF e[2] = "client" THEN Server(e[1]) ELSE Client(e[1])

(* What an end may give rpma_conn_req_connect() as private data.           *)
PData(e) == {None, e}

VARIABLES
    cm,     \* how far the connection manager is with each connection
    sent,   \* the private data each end has sent
    extra,  \* events of no consequence so far
    tw,     \* the ends that are in the time-wait state
    epq,    \* the events on the endpoint's channel
    epOpen, \* is the endpoint listening?
    main,   \* the event rpma_ep_next_conn_req() is working on, or None
    srv,    \* how far the server is with each incoming connection
    idAt,   \* the channel of each server CM ID: "ep", "own" or "none"
    evq,    \* the events on the channel of each connection object
    conn,   \* the connection object of each end: "none", "open", "deleted"
    data,   \* the private data each end's request or connection holds
    seen,   \* the events rpma_conn_next_event() has reported at each end
    failed, \* the ends at which rpma_conn_next_event() returned an error
    stolen  \* connections whose ESTABLISHED event the endpoint dropped

server == <<main, srv, epOpen>>
ends == <<conn, data, seen, failed>>
vars == <<cm, sent, extra, tw, epq, epOpen, main, srv, idAt, evq, conn, data, seen, failed, stolen>>

CmEvent(t, d) == [type |-> t, pdata |-> d]
Ev(t) == <<CmEvent(t, None)>>

Init ==
    /\ cm = [k \in Conns |-> "none"]
    /\ sent = [e \in Ends |-> None]
    /\ extra = [k \in Conns |-> 0]
    /\ tw = {}
    /\ epq = <<>> /\ epOpen = TRUE /\ main = None
    /\ srv = [k \in Conns |-> "none"]
    /\ idAt = [k \in Conns |-> "none"]
    /\ evq = [e \in Ends |-> <<>>]
    /\ conn = [e \in Ends |-> "none"]
    /\ data = [e \in Ends |-> None]
    /\ seen = [e \in Ends |-> <<>>]
    /\ failed = {} /\ stolen = {}

-----------------------------------------------------------------------------
(* The connection manager (external).                                      *)

(* Events for the two ends of k: each goes where the CM ID's channel is.   *)
PostAs(k, cev, sev, at) ==
    /\ evq' = [evq EXCEPT ![Client(k)] = IF conn[Client(k)] = "open" THEN @ \o cev ELSE @,
                          ![Server(k)] = IF at = "own" THEN @ \o sev ELSE @]
    /\ epq' = IF at = "ep" THEN epq \o [i \in DOMAIN sev |-> [k |-> k, ev |-> sev[i]]] ELSE epq

Post(k, cev, sev) == PostAs(k, cev, sev, idAt[k])

CmSet(k, from, to) == cm[k] \in from /\ cm' = [cm EXCEPT ![k] = to]

(* The request reaches the server, or nobody listens there.                *)
DeliverRequest(k) ==
    /\ \/ /\ epOpen
          /\ CmSet(k, {"requested"}, "arrived")
          /\ idAt' = [idAt EXCEPT ![k] = "ep"]
          /\ PostAs(k, <<>>, <<CmEvent("CONNECT_REQUEST", sent[Client(k)])>>, "ep")
       \/ /\ ~epOpen
          /\ CmSet(k, {"requested"}, "dead")
          /\ Post(k, Ev("REJECTED"), <<>>)
          /\ UNCHANGED idAt
    /\ UNCHANGED <<sent, extra, tw, server, ends, stolen>>

(* The server does not answer in time, or answers a client that is gone.   *)
Unreachable(k) ==
    /\ \/ /\ CmSet(k, {"requested", "arrived"}, "dead")
          /\ Post(k, Ev("UNREACHABLE"), <<>>)
       \/ /\ CmSet(k, {"unheard"}, "dead")
          /\ Post(k, <<>>, Ev("UNREACHABLE"))
    /\ UNCHANGED <<sent, extra, tw, idAt, server, ends, stolen>>

(* The server's answer reaches the client, which confirms it ...           *)
DeliverReply(k) ==
    /\ CmSet(k, {"accepted"}, "confirming")
    /\ Post(k, <<CmEvent("ESTABLISHED", sent[Server(k)])>>, <<>>)
    /\ UNCHANGED <<sent, extra, tw, idAt, server, ends, stolen>>

(* ... or cannot use it.                                                   *)
ConnectError(k) ==
    /\ "device" \in Faults
    /\ CmSet(k, {"accepted"}, "dead")
    /\ Post(k, Ev("CONNECT_ERROR"), Ev("REJECTED"))
    /\ UNCHANGED <<sent, extra, tw, idAt, server, ends, stolen>>

(* The confirmation reaches the server.                                    *)
DeliverConfirmation(k) ==
    /\ CmSet(k, {"confirming"}, "established")
    /\ Post(k, <<>>, Ev("ESTABLISHED"))
    /\ UNCHANGED <<sent, extra, tw, idAt, server, ends, stolen>>

(* Each end leaves the time-wait state some time after the disconnection.  *)
TimewaitExit(e) ==
    /\ e \in tw
    /\ tw' = tw \ {e}
    /\ IF e[2] = "client" THEN Post(e[1], Ev("TIMEWAIT_EXIT"), <<>>)
                          ELSE Post(e[1], <<>>, Ev("TIMEWAIT_EXIT"))
    /\ UNCHANGED <<cm, sent, extra, idAt, server, ends, stolen>>

DeviceRemoval(k) ==
    /\ "device" \in Faults
    /\ CmSet(k, {"established"}, "dead")
    /\ Post(k, Ev("DEVICE_REMOVAL"), Ev("DEVICE_REMOVAL"))
    /\ UNCHANGED <<sent, extra, tw, idAt, server, ends, stolen>>

(* An event that librpma has no name for.                                  *)
AddrChange(k) ==
    /\ cm[k] = "established"
    /\ extra[k] < MaxExtra
    /\ extra' = [extra EXCEPT ![k] = @ + 1]
    /\ Post(k, Ev("ADDR_CHANGE"), Ev("ADDR_CHANGE"))
    /\ UNCHANGED <<cm, sent, tw, idAt, server, ends, stolen>>

ConnectionManager ==
    \/ \E k \in Conns :
          \/ DeliverRequest(k) \/ Unreachable(k)
          \/ DeliverReply(k) \/ ConnectError(k) \/ DeliverConfirmation(k)
          \/ DeviceRemoval(k) \/ AddrChange(k)
    \/ \E e \in Ends : TimewaitExit(e)

(* rdma_disconnect(): nothing comes of it before the connection manager of *)
(* that end has seen the connection established.                           *)
RdmaDisconnect(e, at) ==
    LET k == e[1]
        up == cm[k] = "established" \/ (cm[k] = "confirming" /\ e = Client(k))
    IN  /\ cm' = IF up THEN [cm EXCEPT ![k] = "closed"] ELSE cm
        /\ tw' = IF up THEN tw \cup {Client(k), Server(k)} ELSE tw
        /\ IF up THEN PostAs(k, Ev("DISCONNECTED"), Ev("DISCONNECTED"), at)
                 ELSE PostAs(k, <<>>, <<>>, at)

(* The CM ID of the server is rejected, or destroyed unanswered.           *)
RdmaReject(k) ==
    /\ cm' = IF cm[k] = "arrived" THEN [cm EXCEPT ![k] = "dead"] ELSE cm
    /\ IF cm[k] = "arrived" THEN Post(k, Ev("REJECTED"), <<>>) ELSE Post(k, <<>>, <<>>)
-----------------------------------------------------------------------------
(* The client: rpma_conn_req_connect() moves the CM ID to the channel of   *)
(* the new connection object first and calls rdma_connect() then.          *)

ConnectActive(k, d) ==
    /\ conn[Client(k)] = "none"
    /\ CmSet(k, {"none"}, "requested")
    /\ conn' = [conn EXCEPT ![Client(k)] = "open"]
    /\ sent' = [sent EXCEPT ![Client(k)] = d]
    /\ UNCHANGED <<extra, tw, epq, idAt, evq, server, data, seen, failed, stolen>>

-----------------------------------------------------------------------------
(* The server.                                                             *)

(* The requests that the server's threads are busy with.                   *)
InHand == {k \in Conns : srv[k] \in {"request", "accepted", "migrated"}}

(* rpma_ep_next_conn_req() gets an event ...                               *)
NextConnReq ==
    /\ epOpen /\ main = None /\ epq # <<>>
    /\ Workers \/ InHand = {}
    /\ main' = Head(epq)
    /\ epq' = Tail(epq)
    /\ UNCHANGED <<cm, sent, extra, tw, epOpen, srv, idAt, evq, ends, stolen>>

(* ... drops it unless it is a connection request (RPMA_E_INVAL) ...       *)
UnexpectedEvent ==
    /\ main # None /\ main.ev.type # "CONNECT_REQUEST"
    /\ main' = None
    /\ stolen' = IF main.ev.type = "ESTABLISHED" THEN stolen \cup {main.k} ELSE stolen
    /\ UNCHANGED <<cm, sent, extra, tw, epq, epOpen, srv, idAt, evq, ends>>

(* ... makes a request of it, and stores the client's private data ...     *)
RequestReady ==
    /\ main # None /\ main.ev.type = "CONNECT_REQUEST"
    /\ main' = None
    /\ srv' = [srv EXCEPT ![main.k] = "request"]
    /\ data' = [data EXCEPT ![Server(main.k)] = main.ev.pdata]
    /\ UNCHANGED <<cm, sent, extra, tw, epq, epOpen, idAt, evq, conn, seen, failed, stolen>>

(* ... or fails: the CM ID is left as it is if its QP or CQs cannot be     *)
(* made, destroyed if the private data cannot be stored (the request is    *)
(* not marked passive yet), rejected if the event cannot be acknowledged.  *)
RequestFails ==
    /\ main # None /\ main.ev.type = "CONNECT_REQUEST"
    /\ main' = None
    /\ srv' = [srv EXCEPT ![main.k] = "failed"]
    /\ \/ /\ "from_id" \in Faults
          /\ UNCHANGED <<cm, evq, epq, idAt>>
       \/ /\ "store" \in Faults /\ main.ev.pdata # None
          /\ RdmaReject(main.k)
          /\ idAt' = [idAt EXCEPT ![main.k] = "none"]
       \/ /\ "ack" \in Faults
          /\ RdmaReject(main.k)
          /\ UNCHANGED idAt
    /\ UNCHANGED <<sent, extra, tw, epOpen, ends, stolen>>

(* rpma_conn_req_delete() of an incoming request.                          *)
ReqDelete(k) ==
    /\ srv[k] = "request"
    /\ srv' = [srv EXCEPT ![k] = "failed"]
    /\ data' = [data EXCEPT ![Server(k)] = None]
    /\ RdmaReject(k)
    /\ UNCHANGED <<sent, extra, tw, epOpen, main, idAt, conn, seen, failed, stolen>>

(* rpma_conn_req_connect() of an incoming request: rdma_accept() ...       *)
Accept(k, d) ==
    /\ srv[k] = "request"
    /\ srv' = [srv EXCEPT ![k] = "accepted"]
    /\ cm' = [cm EXCEPT ![k] = IF @ = "arrived" THEN "accepted" ELSE "unheard"]
    /\ sent' = [sent EXCEPT ![Server(k)] = d]
    /\ UNCHANGED <<extra, tw, epq, epOpen, main, idAt, evq, ends, stolen>>

(* Mutant of Migrate: rpma_conn_new() leaves the CM ID on the endpoint's   *)
(* channel.                                                                *)
MigrateForgotten(k) ==
    /\ srv[k] = "accepted"
    /\ srv' = [srv EXCEPT ![k] = "migrated"]
    /\ UNCHANGED <<cm, sent, extra, tw, epq, epOpen, main, idAt, evq, ends, stolen>>

(* The indices in S of the endpoint's queue, in their order.               *)
Ascending(S) ==
    {f \in UNION {[1..n -> S] : n \in 0..Len(epq)} :
        /\ \A i, j \in DOMAIN f : i < j => f[i] < f[j]
        /\ \A h \in S : \E j \in DOMAIN f : f[j] = h}

(* ... rpma_conn_new(): rdma_migrate_id() takes the pending events of the  *)
(* CM ID along; it waits for the acknowledgement of those already taken.   *)
Migrate(k) ==
    LET mine == {i \in DOMAIN epq : epq[i].k = k}
        rest == DOMAIN epq \ mine
    IN  /\ srv[k] = "accepted"
        /\ ~(main # None /\ main.k = k /\ main.ev.type # "CONNECT_REQUEST")
        /\ srv' = [srv EXCEPT ![k] = "migrated"]
        /\ idAt' = [idAt EXCEPT ![k] = "own"]
        /\ \E g \in Ascending(mine), f \in Ascending(rest) :
               /\ evq' = [evq EXCEPT ![Server(k)] = [j \in DOMAIN g |-> epq[g[j]].ev]]
               /\ epq' = [j \in DOMAIN f |-> epq[f[j]]]
        /\ UNCHANGED <<cm, sent, extra, tw, epOpen, main, ends, stolen>>

(* ... and the private data of the request go to the connection object.    *)
ConnReady(k) ==
    /\ srv[k] = "migrated"
    /\ srv' = [srv EXCEPT ![k] = "returned"]
    /\ conn' = [conn EXCEPT ![Server(k)] = "open"]
    /\ UNCHANGED <<cm, sent, extra, tw, epq, epOpen, main, idAt, evq, data, seen, failed, stolen>>

(* A failure of rdma_accept() or of rpma_conn_new(), before or after the   *)
(* CM ID has moved.  The CM ID stays.                                      *)
ConnectFails(k) ==
    /\ \/ /\ srv[k] = "request" /\ "accept" \in Faults
          /\ UNCHANGED <<cm, tw, evq, epq, idAt>>
       \/ /\ srv[k] = "accepted" /\ "conn_new" \in Faults
          /\ RdmaDisconnect(Server(k), idAt[k])
          /\ UNCHANGED idAt
       \/ /\ srv[k] = "migrated" /\ "conn_new" \in Faults
          /\ RdmaDisconnect(Server(k), "none")
          /\ idAt' = [idAt EXCEPT ![k] = "none"]
    /\ srv' = [srv EXCEPT ![k] = "failed"]
    /\ data' = [data EXCEPT ![Server(k)] = None]
    /\ UNCHANGED <<sent, extra, epOpen, main, conn, seen, failed, stolen>>

(* What the client is told when the CM ID of the server goes.              *)
Farewell(k) ==
    CASE cm[k] = "established" -> Ev("DISCONNECTED")
      [] cm[k] \in {"arrived", "accepted", "confirming"} -> Ev("REJECTED")
      [] OTHER -> <<>>

(* rpma_ep_shutdown(): the CM IDs that are still on the endpoint's channel *)
(* -- requests that nobody has taken, and those that failed -- go with it. *)
(* The application has no request in hand then, as its CM ID would go too. *)
Shutdown ==
    LET left == {k \in Conns : idAt[k] = "ep"}
    IN  /\ epOpen /\ main = None /\ InHand = {}
        /\ epOpen' = FALSE
        /\ epq' = <<>>
        /\ idAt' = [k \in Conns |-> IF k \in left THEN "none" ELSE idAt[k]]
        /\ cm' = [k \in Conns |-> IF k \in left THEN "dead" ELSE cm[k]]
        /\ evq' = [e \in Ends |-> IF e[2] = "client" /\ e[1] \in left /\ conn[e] = "open"
                                  THEN evq[e] \o Farewell(e[1]) ELSE evq[e]]
        /\ tw' = tw \ {Server(k) : k \in left}
        /\ UNCHANGED <<sent, extra, main, srv, ends, stolen>>

-----------------------------------------------------------------------------
(* The connection objects of both ends.                                    *)

(* Mutant of ConnEvent: cases are missing.                                 *)
ConnEventNoUnreachable(t) ==
    CASE t = "ESTABLISHED" -> "RPMA_CONN_ESTABLISHED"
      [] t \in {"CONNECT_ERROR", "DEVICE_REMOVAL"} -> "RPMA_CONN_LOST"
      [] t = "TIMEWAIT_EXIT" -> "RPMA_CONN_CLOSED"
      [] t = "REJECTED" -> "RPMA_CONN_REJECTED"
      [] OTHER -> "RPMA_E_UNKNOWN"

(* What rpma_conn_next_event() makes of a CM event.                        *)
ConnEvent(t) ==
    CASE t = "ESTABLISHED" -> "RPMA_CONN_ESTABLISHED"
      [] t \in {"CONNECT_ERROR", "DEVICE_REMOVAL"} -> "RPMA_CONN_LOST"
      [] t \in {"DISCONNECTED", "TIMEWAIT_EXIT"} -> "RPMA_CONN_CLOSED"
      [] t = "REJECTED" -> "RPMA_CONN_REJECTED"
      [] t = "UNREACHABLE" -> "RPMA_CONN_UNREACHABLE"
      [] OTHER -> "RPMA_E_UNKNOWN"

(* Mutant of Stores: data that are there already are replaced.             *)
StoresAlways(e, ev) == ev.type = "ESTABLISHED"

(* Does the event bring private data that the connection lacks?            *)
Stores(e, ev) == ev.type = "ESTABLISHED" /\ data[e] = None /\ ev.pdata # None

(* rpma_conn_next_event(): gets an event, stores its private data and      *)
(* acknowledges it, and reports it if it has a name.                       *)
NextEvent(e) ==
    LET ev == Head(evq[e])
        event == ConnEvent(ev.type)
    IN  /\ conn[e] = "open" /\ evq[e] # <<>>
        /\ evq' = [evq EXCEPT ![e] = Tail(@)]
        /\ data' = IF Stores(e, ev) THEN [data EXCEPT ![e] = ev.pdata] ELSE data
        /\ seen' = IF event = "RPMA_E_UNKNOWN" THEN seen ELSE [seen EXCEPT ![e] = Append(@, event)]
        /\ UNCHANGED <<cm, sent, extra, tw, epq, idAt, server, conn, failed, stolen>>

(* It fails: no memory for the private data, or no acknowledgement, which  *)
(* discards the private data of the connection whatever the event was.     *)
NextEventFails(e) ==
    LET ev == Head(evq[e])
    IN  /\ conn[e] = "open" /\ evq[e] # <<>>
        /\ evq' = [evq EXCEPT ![e] = Tail(@)]
        /\ \/ "store" \in Faults /\ Stores(e, ev) /\ UNCHANGED data
           \/ "ack" \in Faults /\ data' = [data EXCEPT ![e] = None]
        /\ failed' = failed \cup {e}
        /\ UNCHANGED <<cm, sent, extra, tw, epq, idAt, server, conn, seen, stolen>>

(* Has rpma_conn_next_event() reported the event to e?                     *)
Saw(e, event) == \E i \in DOMAIN seen[e] : seen[e][i] = event

(* rpma_conn_disconnect(), by an end that has seen the connection made.    *)
Disconnect(e) ==
    /\ conn[e] = "open"
    /\ Saw(e, "RPMA_CONN_ESTABLISHED")
    /\ cm[e[1]] \in {"confirming", "established"}
    /\ RdmaDisconnect(e, idAt[e[1]])
    /\ UNCHANGED <<sent, extra, idAt, server, ends, stolen>>

(* rpma_conn_delete(): the CM ID and its event channel go; the peer learns *)
(* of it from its connection manager.                                      *)
ConnDelete(e) ==
    LET k == e[1]
        state == cm[k]
        tell == CASE state = "established" \/ (state = "confirming" /\ e = Client(k)) -> Ev("DISCONNECTED")
                  [] state \in {"accepted", "confirming"} /\ e = Server(k) -> Ev("REJECTED")
                  [] OTHER -> <<>>
        left == IF e = Server(k) THEN "none" ELSE idAt[k]
    IN  /\ conn[e] = "open"
        /\ conn' = [conn EXCEPT ![e] = "deleted"]
        /\ data' = [data EXCEPT ![e] = None]
        /\ cm' = [cm EXCEPT ![k] = IF @ = "accepted" /\ e = Client(k) THEN "unheard" ELSE "dead"]
        /\ tw' = tw \ {e}
        /\ evq' = [evq EXCEPT ![e] = <<>>,
                              ![Peer(e)] = IF conn[Peer(e)] = "open" \/ (e = Client(k) /\ left = "own")
                                           THEN @ \o tell ELSE @]
        /\ epq' = IF e = Client(k) /\ left = "ep"
                  THEN epq \o [i \in DOMAIN tell |-> [k |-> k, ev |-> tell[i]]] ELSE epq
        /\ idAt' = [idAt EXCEPT ![k] = left]
        /\ UNCHANGED <<sent, extra, server, seen, failed, stolen>>

-----------------------------------------------------------------------------
ServerThread ==
    \/ NextConnReq \/ UnexpectedEvent \/ RequestReady \/ RequestFails
    \/ \E k \in Conns :
          \/ ReqDelete(k) \/ Migrate(k) \/ ConnReady(k) \/ ConnectFails(k)
          \/ \E d \in PData(Server(k)) : Accept(k, d)

Next ==
    \/ ConnectionManager
    \/ ServerThread
    \/ Shutdown
    \/ \E k \in Conns : \E d \in PData(Client(k)) : ConnectActive(k, d)
    \/ \E e \in Ends : NextEvent(e) \/ NextEventFails(e) \/ Disconnect(e) \/ ConnDelete(e)

Spec == Init /\ [][Next]_vars

(* The connection manager ends what it has begun, the server keeps serving *)
(* and answers what it gets, and each end keeps asking for events.         *)
Fairness ==
    /\ \A k \in Conns :
          /\ WF_vars(DeliverRequest(k) \/ Unreachable(k))
          /\ WF_vars(DeliverReply(k) \/ ConnectError(k))
          /\ WF_vars(DeliverConfirmation(k))
    /\ WF_vars(ServerThread)
    /\ \A e \in Ends : WF_vars(NextEvent(e) \/ NextEventFails(e))

FairSpec == Spec /\ Fairness

-----------------------------------------------------------------------------
CmTypes == {"CONNECT_REQUEST", "ESTABLISHED", "CONNECT_ERROR", "DEVICE_REMOVAL", "DISCONNECTED",
            "TIMEWAIT_EXIT", "REJECTED", "UNREACHABLE", "ADDR_CHANGE"}
CmEvents == [type : CmTypes, pdata : Ends \cup {None}]
EpEvents == [k : Conns, ev : CmEvents]

(* TypeOK: every variable has the values the code can give it; in          *)
(* particular rpma_conn_next_event() reports RPMA_CONN_* values only.      *)
TypeOK ==
    /\ cm \in [Conns -> {"none", "requested", "arrived", "accepted", "unheard", "confirming",
                         "established", "closed", "dead"}]
    /\ sent \in [Ends -> Ends \cup {None}]
    /\ data \in [Ends -> Ends \cup {None}]
    /\ extra \in [Conns -> 0..MaxExtra]
    /\ tw \subseteq Ends
    /\ epq \in Seq(EpEvents)
    /\ epOpen \in BOOLEAN
    /\ main \in EpEvents \cup {None}
    /\ srv \in [Conns -> {"none", "request", "accepted", "migrated", "returned", "failed"}]
    /\ idAt \in [Conns -> {"none", "ep", "own"}]
    /\ evq \in [Ends -> Seq(CmEvents)]
    /\ conn \in [Ends -> {"none", "open", "deleted"}]
    /\ seen \in [Ends -> Seq({"RPMA_CONN_ESTABLISHED", "RPMA_CONN_LOST", "RPMA_CONN_CLOSED",
                               "RPMA_CONN_REJECTED", "RPMA_CONN_UNREACHABLE"})]
    /\ failed \subseteq Ends
    /\ stolen \subseteq Conns

(* DataDelivered: the private data an open connection holds are the ones   *)
(* its peer gave rpma_conn_req_connect() (or none, after an error of       *)
(* rpma_conn_next_event()): the server has them from the start, the client *)
(* from the RPMA_CONN_ESTABLISHED event on.                                *)
DataDelivered ==
    \A e \in Ends : conn[e] = "open" =>
        /\ data[e] \in {None, sent[Peer(e)]}
        /\ e \notin failed /\ (e[2] = "server" \/ Saw(e, "RPMA_CONN_ESTABLISHED"))
              => data[e] = sent[Peer(e)]

(* ConnsOutliveEndpoint: no event of an open connection goes to the        *)
(* endpoint's channel, so rpma_ep_shutdown() does not cut it off.          *)
ConnsOutliveEndpoint ==
    \A k \in Conns : conn[Server(k)] = "open" =>
        idAt[k] = "own" /\ \A i \in DOMAIN epq : epq[i].k # k

(* EstablishedReachesConnection: the RPMA_CONN_ESTABLISHED event of a      *)
(* connection that rpma_conn_req_connect() has returned is never dropped   *)
(* by rpma_ep_next_conn_req().                                             *)
EstablishedReachesConnection ==
    \A k \in stolen : conn[Server(k)] = "none"

(* ConnectAnswered: after rpma_conn_req_connect() the client's             *)
(* rpma_conn_next_event() reports the outcome (or fails).                  *)
ConnectAnswered ==
    \A k \in Conns :
        conn[Client(k)] = "open" ~> seen[Client(k)] # <<>> \/ Client(k) \in failed \/ conn[Client(k)] = "deleted"

(* EstablishedSignalled: once the connection manager has established a     *)
(* connection that the server's rpma_conn_req_connect() returned, the      *)
(* server's rpma_conn_next_event() reports it (or fails).                  *)
EstablishedSignalled ==
    \A k \in Conns :
        cm[k] = "established" /\ conn[Server(k)] = "open"
            ~> Saw(Server(k), "RPMA_CONN_ESTABLISHED") \/ Server(k) \in failed \/ conn[Server(k)] = "deleted"

(* DisconnectSignalled: a disconnected connection is reported closed to    *)
(* each end that still has its connection object.                          *)
DisconnectSignalled ==
    \A e \in Ends :
        cm[e[1]] = "closed" /\ conn[e] = "open"
            ~> Saw(e, "RPMA_CONN_CLOSED") \/ e \in failed \/ conn[e] = "deleted"
=============================================================================
