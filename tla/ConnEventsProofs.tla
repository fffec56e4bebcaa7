-------------------------- MODULE ConnEventsProofs --------------------------
(***************************************************************************)
(* Theorems about ConnEvents, for any number of connections, with and      *)
(* without a thread for each request, and with all faults.                 *)
(***************************************************************************)
EXTENDS ConnEvents, Integers, TLAPS

(* The steps without arithmetic or sequence constructors, which are most   *)
(* of them, are for Zenon; the others name the SMT solver.                 *)
USE Zenon

(* What is known of an event on the endpoint's channel: its CM ID is one   *)
(* that has arrived and has no channel of its own, a connection request is *)
(* not answered yet and brings what the client has sent, and the server's  *)
(* ESTABLISHED event brings nothing and comes after its answer.            *)
EpEventOK(x) ==
    /\ cm[x.k] \notin {"none", "requested"}
    /\ srv[x.k] \notin {"migrated", "returned"}
    /\ x.ev.type = "CONNECT_REQUEST" => srv[x.k] = "none" /\ x.ev.pdata = sent[Client(x.k)]
    /\ x.ev.type = "ESTABLISHED" => srv[x.k] \notin {"none", "request"} /\ x.ev.pdata = None

Request(x, k) == x.k = k /\ x.ev.type = "CONNECT_REQUEST"

EpInv ==
    /\ \A i \in DOMAIN epq : EpEventOK(epq[i])
    /\ main # None => EpEventOK(main)

(* Each connection is requested once.                                      *)
OnceInv ==
    \A k \in Conns :
        /\ \A i, j \in DOMAIN epq : Request(epq[i], k) /\ Request(epq[j], k) => i = j
        /\ main # None /\ Request(main, k) => \A i \in DOMAIN epq : ~Request(epq[i], k)

(* How far the connection manager, the server and the CM ID are.           *)
StageOK(k) ==
    /\ cm[k] \in {"none", "requested"} => srv[k] = "none" /\ idAt[k] = "none"
    /\ srv[k] \in {"none", "request"} => cm[k] \in {"none", "requested", "arrived", "dead"}
    /\ srv[k] \in {"migrated", "returned"} => idAt[k] # "ep"
    /\ srv[k] = "migrated" => idAt[k] = "own"
    /\ idAt[k] = "own" => srv[k] \in {"migrated", "returned"}
    /\ conn[Server(k)] = "open" => idAt[k] = "own"
    /\ conn[Server(k)] # "none" => srv[k] = "returned"

(* What the server's end holds.                                            *)
ServerOK(k) ==
    /\ \A i \in DOMAIN evq[Server(k)] :
          evq[Server(k)][i].type = "ESTABLISHED" => evq[Server(k)][i].pdata = None
    /\ srv[k] \in {"request", "accepted", "migrated"} => data[Server(k)] = sent[Client(k)]
    /\ srv[k] # "returned" => Server(k) \notin failed
    /\ conn[Server(k)] = "open" =>
          /\ data[Server(k)] \in {None, sent[Client(k)]}
          /\ Server(k) \notin failed => data[Server(k)] = sent[Client(k)]

(* What the client's end holds.                                            *)
ClientOK(k) ==
    /\ \A i \in DOMAIN evq[Client(k)] :
          evq[Client(k)][i].type = "ESTABLISHED" =>
              srv[k] \notin {"none", "request"} /\ evq[Client(k)][i].pdata = sent[Server(k)]
    /\ conn[Client(k)] = "none" \/ srv[k] \in {"none", "request"} =>
          data[Client(k)] = None /\ ~Saw(Client(k), "RPMA_CONN_ESTABLISHED")
    /\ conn[Client(k)] = "open" =>
          /\ data[Client(k)] \in {None, sent[Server(k)]}
          /\ Client(k) \notin failed /\ Saw(Client(k), "RPMA_CONN_ESTABLISHED")
                => data[Client(k)] = sent[Server(k)]

(* One thread takes no event from the endpoint while it has a request in   *)
(* hand, so what it drops is of a connection that has failed.              *)
ThreadInv ==
    ~Workers =>
        /\ main # None => InHand = {}
        /\ main # None /\ main.ev.type = "ESTABLISHED" => srv[main.k] = "failed"
        /\ \A k \in stolen : srv[k] = "failed"

IInv ==
    /\ TypeOK /\ EpInv /\ OnceInv
    /\ \A k \in Conns : StageOK(k) /\ ServerOK(k) /\ ClientOK(k)
    /\ ThreadInv

-----------------------------------------------------------------------------
(* What rdma_migrate_id() takes from a queue keeps its order, and nothing  *)
(* is taken twice.                                                         *)
LEMMA AscendingIs ==
  ASSUME epq \in Seq(EpEvents), NEW S \in SUBSET DOMAIN epq, NEW f \in Ascending(S)
  PROVE  /\ \E n \in Nat : f \in [1..n -> S]
         /\ \A j \in DOMAIN f : f[j] \in S
         /\ \A j, m \in DOMAIN f : f[j] = f[m] => j = m
<1>1. Len(epq) \in Nat /\ DOMAIN epq = 1..Len(epq)
  BY SMT
<1>2. PICK n \in 0..Len(epq) : f \in [1..n -> S]
  BY DEF Ascending
<1>3. \A j, m \in DOMAIN f : j < m => f[j] < f[m]
  BY DEF Ascending
<1>4. ASSUME NEW j \in DOMAIN f, NEW m \in DOMAIN f, f[j] = f[m] PROVE j = m
  <2>1. j \in Nat /\ m \in Nat /\ f[j] \in Nat /\ f[m] \in Nat
    BY SMT, <1>1, <1>2
  <2> QED BY SMT, <1>3, <1>4, <2>1
<1> QED BY SMT, <1>1, <1>2, <1>4

-----------------------------------------------------------------------------
(* The two ends of a connection, and of different connections, differ.     *)
LEMMA EndsDiffer ==
  /\ \A k \in Conns : Client(k) \in Ends /\ Server(k) \in Ends
  /\ \A j, k \in Conns : /\ Client(j) # Server(k)
                         /\ (Client(j) = Client(k) <=> j = k)
                         /\ (Server(j) = Server(k) <=> j = k)
  /\ \A k \in Conns : /\ Client(k)[1] = k /\ Server(k)[1] = k
                      /\ Client(k)[2] = "client" /\ Server(k)[2] = "server"
  /\ \A e \in Ends : e[1] \in Conns /\ (e = Client(e[1]) \/ e = Server(e[1]))
  /\ \A k \in Conns : Peer(Client(k)) = Server(k) /\ Peer(Server(k)) = Client(k)
BY SMT DEF Ends, Client, Server, Peer

(* The queues after a step of the connection manager for k: each event is  *)
(* an old one in its place, or one of C for the client or of S for the     *)
(* server, which goes to the endpoint's channel only if the CM ID is there.*)
Posted(k, C, S, at) ==
    /\ evq' \in [Ends -> Seq(CmEvents)] /\ epq' \in Seq(EpEvents)
    /\ \A e \in Ends : \A i \in DOMAIN evq'[e] :
          \/ i \in DOMAIN evq[e] /\ evq'[e][i] = evq[e][i]
          \/ e = Client(k) /\ evq'[e][i] \in C
          \/ e = Server(k) /\ evq'[e][i] \in S
    /\ \A i \in DOMAIN epq' :
          \/ i \in DOMAIN epq /\ epq'[i] = epq[i]
          \/ at = "ep" /\ i \notin DOMAIN epq /\ epq'[i].k = k /\ epq'[i].ev \in S

(* A sequence of events that an action of the connection manager posts.    *)
AtMostOne(s, S) == s = <<>> \/ \E x \in S : s = <<x>>

(* Appending at most one event.                                            *)
LEMMA AppendOne ==
  ASSUME NEW A, NEW q \in Seq(A), NEW S \in SUBSET A, NEW s, AtMostOne(s, S)
  PROVE  /\ q \o s \in Seq(A)
         /\ \A i \in DOMAIN (q \o s) : \/ i \in DOMAIN q /\ (q \o s)[i] = q[i]
                                       \/ i \notin DOMAIN q /\ (q \o s)[i] \in S
<1>1. CASE s = <<>>
  BY SMT, <1>1
<1>2. CASE \E x \in S : s = <<x>>
  <2>1. PICK x \in S : s = <<x>>
    BY <1>2
  <2> QED BY SMT, <2>1
<1> QED BY <1>1, <1>2 DEF AtMostOne

(* Events of k as the endpoint's channel has them.                         *)
Tagged(k, s) == [i \in DOMAIN s |-> [k |-> k, ev |-> s[i]]]

(* Appending at most one event of k to the endpoint's channel.             *)
LEMMA EpAppend ==
  ASSUME NEW q \in Seq(EpEvents), NEW k \in Conns, NEW S \in SUBSET CmEvents, NEW s, AtMostOne(s, S)
  PROVE  /\ q \o Tagged(k, s) \in Seq(EpEvents)
         /\ \A i \in DOMAIN (q \o Tagged(k, s)) :
               \/ i \in DOMAIN q /\ (q \o Tagged(k, s))[i] = q[i]
               \/ /\ i \notin DOMAIN q
                  /\ (q \o Tagged(k, s))[i].k = k /\ (q \o Tagged(k, s))[i].ev \in S
<1> DEFINE es == Tagged(k, s)
           ES == {x \in EpEvents : x.k = k /\ x.ev \in S}
<1>1. AtMostOne(es, ES)
  <2>1. CASE s = <<>>
    BY SMT, <2>1 DEF AtMostOne, Tagged
  <2>2. CASE \E x \in S : s = <<x>>
    <3>1. PICK x \in S : s = <<x>>
      BY <2>2
    <3>2. es = <<[k |-> k, ev |-> x]>>
      BY SMT, <3>1 DEF Tagged
    <3>3. [k |-> k, ev |-> x] \in ES
      BY DEF EpEvents
    <3> QED BY <3>2, <3>3 DEF AtMostOne
  <2> QED BY <2>1, <2>2 DEF AtMostOne
<1>2. ES \in SUBSET EpEvents
  OBVIOUS
<1>3. /\ q \o es \in Seq(EpEvents)
      /\ \A i \in DOMAIN (q \o es) : \/ i \in DOMAIN q /\ (q \o es)[i] = q[i]
                                     \/ i \notin DOMAIN q /\ (q \o es)[i] \in ES
  <2> HIDE DEF ES, es
  <2> QED BY <1>1, <1>2, AppendOne
<1> QED BY <1>3

(* What an action of the connection manager posts.                         *)
LEMMA PostAsIs ==
  ASSUME TypeOK, NEW k \in Conns, NEW C \in SUBSET CmEvents, NEW S \in SUBSET CmEvents,
         NEW c, NEW s, NEW at, AtMostOne(c, C), AtMostOne(s, S), PostAs(k, c, s, at)
  PROVE  Posted(k, C, S, at)
<1> DEFINE cq == IF conn[Client(k)] = "open" THEN evq[Client(k)] \o c ELSE evq[Client(k)]
           sq == IF at = "own" THEN evq[Server(k)] \o s ELSE evq[Server(k)]
           es == Tagged(k, s)
<1>1. evq \in [Ends -> Seq(CmEvents)] /\ epq \in Seq(EpEvents)
  BY DEF TypeOK
<1>2. Client(k) \in Ends /\ Server(k) \in Ends /\ Client(k) # Server(k)
  BY EndsDiffer
<1>3. evq' = [evq EXCEPT ![Client(k)] = cq, ![Server(k)] = sq]
  BY <1>1, <1>2 DEF PostAs
<1>4. cq \in Seq(CmEvents) /\ \A i \in DOMAIN cq : (i \in DOMAIN evq[Client(k)] /\ cq[i] = evq[Client(k)][i]) \/ cq[i] \in C
  BY ZenonT(30), <1>1, <1>2, AppendOne
<1>5. sq \in Seq(CmEvents) /\ \A i \in DOMAIN sq : (i \in DOMAIN evq[Server(k)] /\ sq[i] = evq[Server(k)][i]) \/ sq[i] \in S
  BY <1>1, <1>2, AppendOne
<1>7. /\ epq \o es \in Seq(EpEvents)
      /\ \A i \in DOMAIN (epq \o es) : \/ i \in DOMAIN epq /\ (epq \o es)[i] = epq[i]
                                       \/ /\ i \notin DOMAIN epq
                                          /\ (epq \o es)[i].k = k /\ (epq \o es)[i].ev \in S
  BY <1>1, EpAppend
<1>8. epq' = IF at = "ep" THEN epq \o es ELSE epq
  BY DEF PostAs, Tagged
<1> HIDE DEF cq, sq, es
<1>9. evq' \in [Ends -> Seq(CmEvents)] /\ epq' \in Seq(EpEvents)
  BY <1>1, <1>2, <1>3, <1>4, <1>5, <1>7, <1>8
<1>10. \A e \in Ends : \A i \in DOMAIN evq'[e] :
          \/ i \in DOMAIN evq[e] /\ evq'[e][i] = evq[e][i]
          \/ e = Client(k) /\ evq'[e][i] \in C
          \/ e = Server(k) /\ evq'[e][i] \in S
  BY <1>1, <1>2, <1>3, <1>4, <1>5
<1>11. \A i \in DOMAIN epq' :
          \/ i \in DOMAIN epq /\ epq'[i] = epq[i]
          \/ at = "ep" /\ i \notin DOMAIN epq /\ epq'[i].k = k /\ epq'[i].ev \in S
  BY <1>7, <1>8
<1> QED BY <1>9, <1>10, <1>11 DEF Posted

-----------------------------------------------------------------------------
(* At the start nothing is asked for.                                      *)
LEMMA InitInv == Init => IInv
<1> SUFFICES ASSUME Init PROVE IInv
  OBVIOUS
<1>1. TypeOK
  BY SMT, EventsAssumption DEF Init, TypeOK
<1>2. EpInv /\ OnceInv /\ ThreadInv
  BY SMT DEF Init, EpInv, OnceInv, ThreadInv
<1>3. ASSUME NEW k \in Conns PROVE StageOK(k) /\ ServerOK(k) /\ ClientOK(k)
  <2>1. Client(k) \in Ends /\ Server(k) \in Ends
    BY EndsDiffer
  <2>2. StageOK(k)
    BY <2>1 DEF Init, StageOK
  <2>3. ServerOK(k)
    BY SMT, <2>1 DEF Init, ServerOK
  <2>4. seen[Client(k)] = <<>> /\ evq[Client(k)] = <<>> /\ data[Client(k)] = None /\ conn[Client(k)] = "none"
    BY <2>1 DEF Init
  <2>5. ~Saw(Client(k), "RPMA_CONN_ESTABLISHED")
    BY SMT, <2>4 DEF Saw
  <2>6. ClientOK(k)
    BY SMT, <2>4, <2>5 DEF ClientOK
  <2> QED BY <2>2, <2>3, <2>6
<1> QED BY <1>1, <1>2, <1>3 DEF IInv

(* The properties follow from the inductive invariant.                     *)
LEMMA InvImplies ==
  IInv => DataDelivered /\ ConnsOutliveEndpoint /\ (~Workers => EstablishedReachesConnection)
<1> SUFFICES ASSUME IInv
             PROVE  DataDelivered /\ ConnsOutliveEndpoint /\ (~Workers => EstablishedReachesConnection)
  OBVIOUS
<1>1. DataDelivered
  <2> SUFFICES ASSUME NEW e \in Ends, conn[e] = "open"
               PROVE  /\ data[e] \in {None, sent[Peer(e)]}
                      /\ e \notin failed /\ (e[2] = "server" \/ Saw(e, "RPMA_CONN_ESTABLISHED"))
                            => data[e] = sent[Peer(e)]
    BY DEF DataDelivered
  <2>1. PICK k \in Conns : e = Client(k) \/ e = Server(k)
    BY SMT, EndsDiffer
  <2>2. ServerOK(k) /\ ClientOK(k)
    BY DEF IInv
  <2>3. CASE e = Client(k)
    <3>1. Peer(e) = Server(k) /\ e[2] # "server"
      BY <2>3, EndsDiffer
    <3> QED BY <2>2, <2>3, <3>1 DEF ClientOK
  <2>4. CASE e = Server(k)
    <3>1. Peer(e) = Client(k)
      BY <2>4, EndsDiffer
    <3> QED BY <2>2, <2>4, <3>1 DEF ServerOK
  <2> QED BY <2>1, <2>3, <2>4
<1>2. ConnsOutliveEndpoint
  BY DEF IInv, StageOK, EpInv, EpEventOK, ConnsOutliveEndpoint
<1>3. ~Workers => EstablishedReachesConnection
  <2> SUFFICES ASSUME ~Workers, NEW k \in stolen PROVE conn[Server(k)] = "none"
    BY DEF EstablishedReachesConnection
  <2>1. k \in Conns /\ srv[k] = "failed"
    BY DEF IInv, TypeOK, ThreadInv
  <2> QED BY <2>1 DEF IInv, StageOK
<1> QED BY <1>1, <1>2, <1>3

-----------------------------------------------------------------------------
(* The events that wait on the endpoint's channel.                         *)
LEMMA EpqType ==
  ASSUME TypeOK
  PROVE  /\ \A i \in DOMAIN epq : epq[i] \in EpEvents /\ epq[i].k \in Conns
         /\ main # None => main \in EpEvents /\ main.k \in Conns
<1>1. epq \in Seq(EpEvents) /\ main \in EpEvents \cup {None}
  BY DEF TypeOK
<1>2. \A i \in DOMAIN epq : epq[i] \in EpEvents
  BY SMT, <1>1
<1>3. \A x \in EpEvents : x.k \in Conns
  BY DEF EpEvents
<1> QED BY <1>1, <1>2, <1>3

(* A step for k leaves what is kept of the other connections alone.        *)
Elsewhere(k) ==
    \A j \in Conns \ {k} :
        /\ cm'[j] = cm[j] /\ srv'[j] = srv[j] /\ idAt'[j] = idAt[j]
        /\ \A e \in {Client(j), Server(j)} :
              /\ conn'[e] = conn[e] /\ data'[e] = data[e] /\ sent'[e] = sent[e] /\ seen'[e] = seen[e]
              /\ e \in failed' <=> e \in failed

(* The events of an end are still the ones it had, or fewer.               *)
NoNewEvents(e) == \A i \in DOMAIN evq'[e] : \E h \in DOMAIN evq[e] : evq'[e][i] = evq[e][h]

(* A step for k keeps the invariant of the other connections.              *)
LEMMA OthersKeep ==
  ASSUME IInv, NEW k \in Conns, Elsewhere(k), NEW j \in Conns \ {k},
         NoNewEvents(Client(j)), NoNewEvents(Server(j))
  PROVE  StageOK(j)' /\ ServerOK(j)' /\ ClientOK(j)'
<1>1. StageOK(j) /\ ServerOK(j) /\ ClientOK(j)
  BY DEF IInv
<1>2. /\ cm'[j] = cm[j] /\ srv'[j] = srv[j] /\ idAt'[j] = idAt[j]
      /\ conn'[Client(j)] = conn[Client(j)] /\ data'[Client(j)] = data[Client(j)]
      /\ sent'[Client(j)] = sent[Client(j)] /\ seen'[Client(j)] = seen[Client(j)]
      /\ Client(j) \in failed' <=> Client(j) \in failed
      /\ conn'[Server(j)] = conn[Server(j)] /\ data'[Server(j)] = data[Server(j)]
      /\ sent'[Server(j)] = sent[Server(j)] /\ seen'[Server(j)] = seen[Server(j)]
      /\ Server(j) \in failed' <=> Server(j) \in failed
  BY DEF Elsewhere
<1>3. StageOK(j)'
  BY <1>1, <1>2 DEF StageOK
<1>4. ServerOK(j)'
  BY <1>1, <1>2 DEF ServerOK, NoNewEvents
<1>5. ClientOK(j)'
  BY ZenonT(30), <1>1, <1>2 DEF ClientOK, NoNewEvents, Saw
<1> QED BY <1>3, <1>4, <1>5

(* Posting for k gives the other connections no events.                    *)
LEMMA PostedElsewhere ==
  ASSUME NEW k \in Conns, NEW C, NEW S, NEW at, Posted(k, C, S, at), NEW j \in Conns \ {k}
  PROVE  NoNewEvents(Client(j)) /\ NoNewEvents(Server(j))
<1>1. /\ Client(j) \in Ends /\ Server(j) \in Ends
      /\ Client(j) # Client(k) /\ Client(j) # Server(k) /\ Server(j) # Client(k) /\ Server(j) # Server(k)
  BY SMT, EndsDiffer
<1> QED BY <1>1 DEF Posted, NoNewEvents

(* What the connection manager may post for the ends of k.                 *)
ForClient(k, C) ==
    \A x \in C : x.type = "ESTABLISHED" => srv'[k] \notin {"none", "request"} /\ x.pdata = sent'[Server(k)]
ForServer(k, S) ==
    \A x \in S : /\ x.type # "CONNECT_REQUEST"
                 /\ x.type = "ESTABLISHED" => srv'[k] \notin {"none", "request"} /\ x.pdata = None

(* The endpoint's channel keeps its invariant when what is posted there is *)
(* no connection request, and the server's progress with k does not        *)
(* contradict the events of k that are waiting.                            *)
LEMMA EpKeeps ==
  ASSUME IInv, TypeOK', NEW k \in Conns, Elsewhere(k), NEW C, NEW S, NEW at, Posted(k, C, S, at), ForServer(k, S),
         at = "ep" => cm'[k] \notin {"none", "requested"} /\ srv'[k] \notin {"migrated", "returned"},
         main' = main \/ main' = None,
         cm'[k] = cm[k] \/ cm'[k] \notin {"none", "requested"},
         \/ srv'[k] = srv[k] /\ sent'[Client(k)] = sent[Client(k)]
         \/ /\ srv'[k] \notin {"none", "migrated", "returned"}
            /\ srv'[k] = "request" => srv[k] = "none"
            /\ \A i \in DOMAIN epq : ~Request(epq[i], k)
            /\ main' # None => ~Request(main, k)
  PROVE  EpInv' /\ OnceInv'
<1>1. EpInv /\ OnceInv
  BY DEF IInv
<1>2. \A i \in DOMAIN epq' :
          \/ i \in DOMAIN epq /\ epq'[i] = epq[i]
          \/ at = "ep" /\ i \notin DOMAIN epq /\ epq'[i].k = k /\ epq'[i].ev \in S
  BY DEF Posted
<1>3. \A i \in DOMAIN epq : epq[i] \in EpEvents /\ epq[i].k \in Conns
  BY EpqType DEF IInv
<1>4. ASSUME NEW x \in EpEvents, EpEventOK(x), x.k = k => srv'[k] = srv[k] \/ ~Request(x, k)
      PROVE  /\ cm'[x.k] \notin {"none", "requested"}
             /\ srv'[x.k] \notin {"migrated", "returned"}
             /\ x.ev.type = "CONNECT_REQUEST" => srv'[x.k] = "none" /\ x.ev.pdata = sent'[Client(x.k)]
             /\ x.ev.type = "ESTABLISHED" => srv'[x.k] \notin {"none", "request"} /\ x.ev.pdata = None
  <2>1. x.k \in Conns
    BY DEF EpEvents
  <2>2. CASE x.k = k
    BY <1>4, <2>2 DEF EpEventOK, Request
  <2>3. CASE x.k # k
    <3>1. cm'[x.k] = cm[x.k] /\ srv'[x.k] = srv[x.k] /\ sent'[Client(x.k)] = sent[Client(x.k)]
      BY <2>1, <2>3 DEF Elsewhere
    <3> QED BY <1>4, <3>1 DEF EpEventOK
  <2> QED BY <2>2, <2>3
<1>5. \A i \in DOMAIN epq' :
             /\ cm'[epq'[i].k] \notin {"none", "requested"}
             /\ srv'[epq'[i].k] \notin {"migrated", "returned"}
             /\ epq'[i].ev.type = "CONNECT_REQUEST" =>
                    srv'[epq'[i].k] = "none" /\ epq'[i].ev.pdata = sent'[Client(epq'[i].k)]
             /\ epq'[i].ev.type = "ESTABLISHED" =>
                    srv'[epq'[i].k] \notin {"none", "request"} /\ epq'[i].ev.pdata = None
  <2> TAKE i \in DOMAIN epq'
  <2>1. CASE i \in DOMAIN epq /\ epq'[i] = epq[i]
    <3>1. EpEventOK(epq[i]) /\ epq[i] \in EpEvents
      BY <1>1, <1>3, <2>1 DEF EpInv
    <3>2. epq[i].k = k => srv'[k] = srv[k] \/ ~Request(epq[i], k)
      BY <2>1
    <3> QED BY <1>4, <2>1, <3>1, <3>2
  <2>2. CASE at = "ep" /\ i \notin DOMAIN epq /\ epq'[i].k = k /\ epq'[i].ev \in S
    BY <2>2 DEF ForServer
  <2> QED BY <1>2, <2>1, <2>2
<1>6. main' # None =>
             /\ cm'[main'.k] \notin {"none", "requested"}
             /\ srv'[main'.k] \notin {"migrated", "returned"}
             /\ main'.ev.type = "CONNECT_REQUEST" =>
                    srv'[main'.k] = "none" /\ main'.ev.pdata = sent'[Client(main'.k)]
             /\ main'.ev.type = "ESTABLISHED" =>
                    srv'[main'.k] \notin {"none", "request"} /\ main'.ev.pdata = None
  <2> SUFFICES ASSUME main' # None
               PROVE  /\ cm'[main.k] \notin {"none", "requested"}
                      /\ srv'[main.k] \notin {"migrated", "returned"}
                      /\ main.ev.type = "CONNECT_REQUEST" =>
                             srv'[main.k] = "none" /\ main.ev.pdata = sent'[Client(main.k)]
                      /\ main.ev.type = "ESTABLISHED" =>
                             srv'[main.k] \notin {"none", "request"} /\ main.ev.pdata = None
    OBVIOUS
  <2>1. main \in EpEvents /\ EpEventOK(main)
    BY <1>1 DEF IInv, TypeOK, EpInv
  <2>2. main.k = k => srv'[k] = srv[k] \/ ~Request(main, k)
    OBVIOUS
  <2> QED BY <1>4, <2>1, <2>2
<1>7. EpInv'
  BY <1>5, <1>6 DEF EpInv, EpEventOK
<1>8. OnceInv'
  <2>1. \A i \in DOMAIN epq' : epq'[i].ev.type = "CONNECT_REQUEST" => i \in DOMAIN epq /\ epq'[i] = epq[i]
    BY <1>2 DEF ForServer
  <2> QED BY ZenonT(30), <1>1, <2>1 DEF OnceInv, Request
<1> QED BY <1>7, <1>8

(* How a step may change what the connection manager knows of k.           *)
CmMoves(k) ==
    /\ \A j \in Conns \ {k} : cm'[j] = cm[j]
    /\ \/ cm'[k] = cm[k]
       \/ cm'[k] = "dead"
       \/ cm[k] \notin {"none", "requested", "arrived", "dead"} /\ cm'[k] \notin {"none", "requested"}

(* A step of the connection manager that only moves k on and posts events. *)
LEMMA QuietKeeps ==
  ASSUME IInv, TypeOK', NEW k \in Conns, NEW C, NEW S, CmMoves(k),
         UNCHANGED <<sent, data, conn, srv, idAt, seen, failed, stolen, main>>,
         Posted(k, C, S, idAt[k]), ForClient(k, C), ForServer(k, S)
  PROVE  IInv'
<1>1. Client(k) \in Ends /\ Server(k) \in Ends /\ Client(k) # Server(k)
  BY EndsDiffer
<1>2. Elsewhere(k)
  BY DEF Elsewhere, CmMoves
<1>3. StageOK(k) /\ ServerOK(k) /\ ClientOK(k)
  BY DEF IInv
<1>4. idAt[k] = "ep" => cm'[k] \notin {"none", "requested"} /\ srv'[k] \notin {"migrated", "returned"}
  BY <1>3 DEF StageOK, CmMoves
<1>5. EpInv' /\ OnceInv'
  <2>1. cm'[k] = cm[k] \/ cm'[k] \notin {"none", "requested"}
    BY DEF CmMoves
  <2>2. srv'[k] = srv[k] /\ sent'[Client(k)] = sent[Client(k)] /\ main' = main
    OBVIOUS
  <2> QED BY <1>2, <1>4, <2>1, <2>2, EpKeeps
<1>6. StageOK(k)'
  BY <1>3 DEF StageOK, CmMoves
<1>7. ServerOK(k)'
  <2>1. \A i \in DOMAIN evq'[Server(k)] :
          \/ i \in DOMAIN evq[Server(k)] /\ evq'[Server(k)][i] = evq[Server(k)][i]
          \/ evq'[Server(k)][i] \in S
    BY <1>1 DEF Posted
  <2> QED BY <1>3, <2>1 DEF ServerOK, ForServer
<1>8. ClientOK(k)'
  <2>1. \A i \in DOMAIN evq'[Client(k)] :
          \/ i \in DOMAIN evq[Client(k)] /\ evq'[Client(k)][i] = evq[Client(k)][i]
          \/ evq'[Client(k)][i] \in C
    BY <1>1 DEF Posted
  <2> QED BY <1>3, <2>1 DEF ClientOK, ForClient, Saw
<1>9. \A j \in Conns : StageOK(j)' /\ ServerOK(j)' /\ ClientOK(j)'
  BY <1>2, <1>6, <1>7, <1>8, OthersKeep, PostedElsewhere
<1>10. ThreadInv'
  BY DEF IInv, ThreadInv, InHand
<1> QED BY <1>5, <1>9, <1>10 DEF IInv

(* A step in which the server gives k up.                                  *)
LEMMA FailKeeps ==
  ASSUME IInv, TypeOK', NEW k \in Conns, NEW C, NEW S, NEW at, CmMoves(k),
         UNCHANGED <<sent, conn, seen, failed, stolen>>,
         srv' = [srv EXCEPT ![k] = "failed"],
         \A e \in Ends \ {Server(k)} : data'[e] = data[e],
         \A j \in Conns \ {k} : idAt'[j] = idAt[j],
         idAt'[k] # "own", srv[k] # "returned", cm[k] \notin {"none", "requested"},
         main' = main \/ main' = None,
         \A i \in DOMAIN epq : ~Request(epq[i], k),
         main' # None => ~Request(main, k),
         Posted(k, C, S, at), ForClient(k, C), ForServer(k, S)
  PROVE  IInv'
<1>1. Client(k) \in Ends /\ Server(k) \in Ends /\ Client(k) # Server(k)
  BY EndsDiffer
<1>2. srv'[k] = "failed" /\ \A j \in Conns \ {k} : srv'[j] = srv[j]
  BY SMT DEF IInv, TypeOK
<1>3. Elsewhere(k)
  <2> SUFFICES ASSUME NEW j \in Conns \ {k}, NEW e \in {Client(j), Server(j)}
               PROVE  data'[e] = data[e]
    BY <1>2 DEF Elsewhere, CmMoves
  <2> QED BY SMT, EndsDiffer
<1>4. StageOK(k) /\ ServerOK(k) /\ ClientOK(k)
  BY DEF IInv
<1>5. cm'[k] \notin {"none", "requested"}
  BY DEF CmMoves
<1>6. EpInv' /\ OnceInv'
  BY <1>2, <1>3, <1>5, EpKeeps
<1>7. StageOK(k)'
  BY <1>2, <1>4, <1>5 DEF StageOK
<1>8. ServerOK(k)'
  <2>1. \A i \in DOMAIN evq'[Server(k)] :
          \/ i \in DOMAIN evq[Server(k)] /\ evq'[Server(k)][i] = evq[Server(k)][i]
          \/ evq'[Server(k)][i] \in S
    BY <1>1 DEF Posted
  <2>2. conn[Server(k)] = "none"
    BY <1>4 DEF StageOK
  <2> QED BY <1>2, <1>4, <2>1, <2>2 DEF ServerOK, ForServer
<1>9. ClientOK(k)'
  <2>1. \A i \in DOMAIN evq'[Client(k)] :
          \/ i \in DOMAIN evq[Client(k)] /\ evq'[Client(k)][i] = evq[Client(k)][i]
          \/ evq'[Client(k)][i] \in C
    BY <1>1 DEF Posted
  <2>2. data'[Client(k)] = data[Client(k)]
    BY <1>1
  <2> QED BY <1>2, <1>4, <2>1, <2>2 DEF ClientOK, ForClient, Saw
<1>10. \A j \in Conns : StageOK(j)' /\ ServerOK(j)' /\ ClientOK(j)'
  BY <1>3, <1>7, <1>8, <1>9, OthersKeep, PostedElsewhere
<1>11. ThreadInv'
  <2>1. \A j \in Conns : srv'[j] = srv[j] \/ srv'[j] = "failed"
    BY <1>2
  <2>2. InHand' \subseteq InHand
    BY <2>1 DEF InHand
  <2>3. main # None => main.k \in Conns
    BY EpqType DEF IInv
  <2>4. stolen \subseteq Conns
    BY DEF IInv, TypeOK
  <2> QED BY <2>1, <2>2, <2>3, <2>4 DEF IInv, ThreadInv
<1> QED BY <1>6, <1>10, <1>11 DEF IInv

-----------------------------------------------------------------------------
(* Events that neither ask for a connection nor confirm one.               *)
Plain == {x \in CmEvents : x.type \notin {"CONNECT_REQUEST", "ESTABLISHED"}}

CmStates == {"none", "requested", "arrived", "accepted", "unheard", "confirming", "established", "closed", "dead"}

(* Most of what the connection manager posts is plain.                     *)
LEMMA PlainIs ==
  /\ \A t \in CmTypes \ {"CONNECT_REQUEST", "ESTABLISHED"} : AtMostOne(Ev(t), Plain)
  /\ AtMostOne(<<>>, Plain)
  /\ Plain \in SUBSET CmEvents
  /\ \A k \in Conns : ForClient(k, Plain) /\ ForServer(k, Plain)
BY DEF Plain, AtMostOne, Ev, CmEvent, CmEvents, ForClient, ForServer

(* A step of the connection manager keeps the types.                       *)
LEMMA PostedType ==
  ASSUME TypeOK, NEW k \in Conns, NEW C, NEW S, NEW at, Posted(k, C, S, at),
         cm' \in [Conns -> CmStates], extra' \in [Conns -> 0..MaxExtra], tw' \subseteq Ends,
         UNCHANGED <<sent, data, epOpen, main, srv, idAt, conn, seen, failed, stolen>>
  PROVE  TypeOK'
BY DEF TypeOK, Posted, CmStates

(* The steps of the connection manager that change nothing at the ends.    *)
LEMMA SetAndPost ==
  ASSUME IInv, NEW k \in Conns, NEW C \in SUBSET CmEvents, NEW S \in SUBSET CmEvents, NEW c, NEW s,
         AtMostOne(c, C), AtMostOne(s, S), Post(k, c, s), cm' \in [Conns -> CmStates], CmMoves(k),
         ForClient(k, C), ForServer(k, S), extra' \in [Conns -> 0..MaxExtra], tw' \subseteq Ends,
         UNCHANGED <<sent, data, epOpen, main, srv, idAt, conn, seen, failed, stolen>>
  PROVE  IInv'
<1>1. TypeOK
  BY DEF IInv
<1>2. Posted(k, C, S, idAt[k])
  BY <1>1, PostAsIs DEF Post
<1>3. TypeOK'
  BY <1>1, <1>2, PostedType
<1> QED BY <1>2, <1>3, QuietKeeps

(* A change of the connection manager's state of k.                        *)
LEMMA CmSetIs ==
  ASSUME TypeOK, NEW k \in Conns, NEW from, NEW to \in CmStates, CmSet(k, from, to),
         \/ to = "dead"
         \/ from \cap {"none", "requested", "arrived", "dead"} = {} /\ to \notin {"none", "requested"}
  PROVE  cm' \in [Conns -> CmStates] /\ CmMoves(k)
BY DEF TypeOK, CmSet, CmMoves, CmStates

(* The connection manager keeps the invariant: the client learns of the    *)
(* server's answer with the private data the server has sent, after        *)
(* rdma_accept(), and the server of the confirmation.                      *)
LEMMA ManagerKeeps ==
  ASSUME IInv, NEW k \in Conns,
         \/ Unreachable(k) \/ DeliverReply(k) \/ ConnectError(k)
         \/ DeliverConfirmation(k) \/ DeviceRemoval(k) \/ AddrChange(k)
         \/ ~epOpen /\ DeliverRequest(k)
  PROVE  IInv'
<1>0. TypeOK /\ StageOK(k)
  BY DEF IInv
<1>1. extra \in [Conns -> 0..MaxExtra] /\ tw \subseteq Ends /\ cm \in [Conns -> CmStates] /\ sent \in [Ends -> Ends \cup {None}]
  BY <1>0 DEF TypeOK, CmStates
<1>2. \A t \in {"REJECTED", "UNREACHABLE", "CONNECT_ERROR", "DEVICE_REMOVAL", "ADDR_CHANGE"} : AtMostOne(Ev(t), Plain)
  BY PlainIs DEF CmTypes
<1>3. AtMostOne(<<>>, Plain) /\ Plain \in SUBSET CmEvents /\ ForClient(k, Plain) /\ ForServer(k, Plain)
  BY PlainIs
<1>4. "dead" \in CmStates /\ "confirming" \in CmStates /\ "established" \in CmStates
  BY DEF CmStates
<1>5. CASE Unreachable(k)
  <2>1. UNCHANGED <<sent, extra, tw, data, epOpen, main, srv, idAt, conn, seen, failed, stolen>>
    BY <1>5 DEF Unreachable, server, ends
  <2>2. cm' \in [Conns -> CmStates] /\ CmMoves(k)
    BY <1>0, <1>4, <1>5, CmSetIs DEF Unreachable
  <2>3. CASE Post(k, Ev("UNREACHABLE"), <<>>)
    BY <1>1, <1>2, <1>3, <2>1, <2>2, <2>3, SetAndPost
  <2>4. CASE Post(k, <<>>, Ev("UNREACHABLE"))
    BY <1>1, <1>2, <1>3, <2>1, <2>2, <2>4, SetAndPost
  <2> QED BY <1>5, <2>3, <2>4 DEF Unreachable
<1>6. CASE DeliverReply(k)
  <2> DEFINE x == CmEvent("ESTABLISHED", sent[Server(k)])
  <2>1. /\ UNCHANGED <<sent, extra, tw, data, epOpen, main, srv, idAt, conn, seen, failed, stolen>>
        /\ Post(k, <<x>>, <<>>) /\ CmSet(k, {"accepted"}, "confirming") /\ cm[k] = "accepted"
    BY <1>6 DEF DeliverReply, server, ends, CmSet
  <2>2. cm' \in [Conns -> CmStates] /\ CmMoves(k)
    BY <1>0, <1>4, <2>1, CmSetIs
  <2>3. sent[Server(k)] \in Ends \cup {None}
    BY <1>1, EndsDiffer
  <2>4. {x} \in SUBSET CmEvents /\ AtMostOne(<<x>>, {x})
    BY SMT, <2>3 DEF CmEvents, CmTypes, CmEvent, AtMostOne
  <2>5. srv[k] \notin {"none", "request"}
    BY <1>0, <2>1 DEF StageOK
  <2>6. ForClient(k, {x})
    BY SMT, <2>1, <2>5 DEF ForClient, CmEvent
  <2> HIDE DEF x
  <2> QED BY <1>1, <1>3, <2>1, <2>2, <2>4, <2>6, SetAndPost
<1>7. CASE ConnectError(k)
  <2>1. /\ UNCHANGED <<sent, extra, tw, data, epOpen, main, srv, idAt, conn, seen, failed, stolen>>
        /\ Post(k, Ev("CONNECT_ERROR"), Ev("REJECTED"))
    BY <1>7 DEF ConnectError, server, ends
  <2>2. cm' \in [Conns -> CmStates] /\ CmMoves(k)
    BY <1>0, <1>4, <1>7, CmSetIs DEF ConnectError
  <2> QED BY <1>1, <1>2, <1>3, <2>1, <2>2, SetAndPost
<1>8. CASE DeliverConfirmation(k)
  <2> DEFINE x == CmEvent("ESTABLISHED", None)
  <2>1. /\ UNCHANGED <<sent, extra, tw, data, epOpen, main, srv, idAt, conn, seen, failed, stolen>>
        /\ Post(k, <<>>, <<x>>) /\ CmSet(k, {"confirming"}, "established") /\ cm[k] = "confirming"
    BY <1>8 DEF DeliverConfirmation, server, ends, CmSet, Ev
  <2>2. cm' \in [Conns -> CmStates] /\ CmMoves(k)
    BY <1>0, <1>4, <2>1, CmSetIs
  <2>4. {x} \in SUBSET CmEvents /\ AtMostOne(<<x>>, {x})
    BY SMT DEF CmEvents, CmTypes, CmEvent, AtMostOne
  <2>5. srv[k] \notin {"none", "request"}
    BY <1>0, <2>1 DEF StageOK
  <2>6. ForServer(k, {x})
    BY SMT, <2>1, <2>5 DEF ForServer, CmEvent
  <2> HIDE DEF x
  <2> QED BY <1>1, <1>3, <2>1, <2>2, <2>4, <2>6, SetAndPost
<1>9. CASE DeviceRemoval(k)
  <2>1. /\ UNCHANGED <<sent, extra, tw, data, epOpen, main, srv, idAt, conn, seen, failed, stolen>>
        /\ Post(k, Ev("DEVICE_REMOVAL"), Ev("DEVICE_REMOVAL"))
    BY <1>9 DEF DeviceRemoval, server, ends
  <2>2. cm' \in [Conns -> CmStates] /\ CmMoves(k)
    BY <1>0, <1>4, <1>9, CmSetIs DEF DeviceRemoval
  <2> QED BY <1>1, <1>2, <1>3, <2>1, <2>2, SetAndPost
<1>10. CASE AddrChange(k)
  <2>1. /\ UNCHANGED <<cm, sent, tw, data, epOpen, main, srv, idAt, conn, seen, failed, stolen>>
        /\ Post(k, Ev("ADDR_CHANGE"), Ev("ADDR_CHANGE"))
    BY <1>10 DEF AddrChange, server, ends
  <2>2. cm' \in [Conns -> CmStates] /\ CmMoves(k)
    BY <1>1, <2>1 DEF CmMoves
  <2>3. extra' \in [Conns -> 0..MaxExtra]
    BY SMT, <1>1, <1>10, EventsAssumption DEF AddrChange
  <2> QED BY <1>1, <1>2, <1>3, <2>1, <2>2, <2>3, SetAndPost
<1>11. CASE ~epOpen /\ DeliverRequest(k)
  <2>1. /\ UNCHANGED <<sent, extra, tw, data, epOpen, main, srv, idAt, conn, seen, failed, stolen>>
        /\ Post(k, Ev("REJECTED"), <<>>)
    BY <1>11 DEF DeliverRequest, server, ends
  <2>2. cm' \in [Conns -> CmStates] /\ CmMoves(k)
    BY <1>0, <1>4, <1>11, CmSetIs DEF DeliverRequest
  <2> QED BY <1>1, <1>2, <1>3, <2>1, <2>2, SetAndPost
<1> QED BY <1>5, <1>6, <1>7, <1>8, <1>9, <1>10, <1>11

(* What rdma_disconnect() makes the connection manager post.               *)
LEMMA DisconnectPosts ==
  ASSUME TypeOK, NEW k \in Conns, NEW e \in {Client(k), Server(k)}, NEW at, RdmaDisconnect(e, at)
  PROVE  cm' \in [Conns -> CmStates] /\ CmMoves(k) /\ tw' \subseteq Ends /\ Posted(k, Plain, Plain, at)
<1>1. e[1] = k /\ Client(k) \in Ends /\ Server(k) \in Ends
  BY EndsDiffer
<1>2. cm \in [Conns -> CmStates] /\ tw \subseteq Ends
  BY DEF TypeOK, CmStates
<1>3. AtMostOne(Ev("DISCONNECTED"), Plain) /\ AtMostOne(<<>>, Plain) /\ Plain \in SUBSET CmEvents
  BY PlainIs DEF CmTypes
<1>4. cm' \in [Conns -> CmStates] /\ CmMoves(k) /\ tw' \subseteq Ends
  BY <1>1, <1>2 DEF RdmaDisconnect, CmMoves, CmStates
<1>5. PostAs(k, Ev("DISCONNECTED"), Ev("DISCONNECTED"), at) \/ PostAs(k, <<>>, <<>>, at)
  BY <1>1 DEF RdmaDisconnect
<1> QED BY <1>3, <1>4, <1>5, PostAsIs

(* What the rejection of a CM ID makes the connection manager post.        *)
LEMMA RejectPosts ==
  ASSUME TypeOK, NEW k \in Conns, RdmaReject(k)
  PROVE  cm' \in [Conns -> CmStates] /\ CmMoves(k) /\ Posted(k, Plain, Plain, idAt[k])
<1>1. cm \in [Conns -> CmStates]
  BY DEF TypeOK, CmStates
<1>2. AtMostOne(Ev("REJECTED"), Plain) /\ AtMostOne(<<>>, Plain) /\ Plain \in SUBSET CmEvents
  BY PlainIs DEF CmTypes
<1>3. cm' \in [Conns -> CmStates] /\ CmMoves(k)
  BY <1>1 DEF RdmaReject, CmMoves, CmStates
<1>4. PostAs(k, Ev("REJECTED"), <<>>, idAt[k]) \/ PostAs(k, <<>>, <<>>, idAt[k])
  BY DEF RdmaReject, Post
<1> QED BY <1>2, <1>3, <1>4, PostAsIs

(* The end of the time-wait state, and rpma_conn_disconnect().             *)
LEMMA EndStepKeeps ==
  ASSUME IInv, NEW e \in Ends, TimewaitExit(e) \/ Disconnect(e)
  PROVE  IInv'
<1>0. TypeOK
  BY DEF IInv
<1>1. PICK k \in Conns : e \in {Client(k), Server(k)} /\ e[1] = k
  BY EndsDiffer
<1>2. extra \in [Conns -> 0..MaxExtra] /\ tw \subseteq Ends /\ cm \in [Conns -> CmStates]
  BY <1>0 DEF TypeOK, CmStates
<1>3. AtMostOne(Ev("TIMEWAIT_EXIT"), Plain)
  BY PlainIs DEF CmTypes
<1>4. AtMostOne(<<>>, Plain) /\ Plain \in SUBSET CmEvents /\ ForClient(k, Plain) /\ ForServer(k, Plain)
  BY PlainIs
<1>5. CASE TimewaitExit(e)
  <2>1. /\ UNCHANGED <<cm, sent, extra, data, epOpen, main, srv, idAt, conn, seen, failed, stolen>>
        /\ Post(k, Ev("TIMEWAIT_EXIT"), <<>>) \/ Post(k, <<>>, Ev("TIMEWAIT_EXIT"))
        /\ tw' \subseteq Ends
    BY <1>1, <1>2, <1>5 DEF TimewaitExit, server, ends
  <2>2. cm' \in [Conns -> CmStates] /\ CmMoves(k) /\ extra' \in [Conns -> 0..MaxExtra]
    BY <1>2, <2>1 DEF CmMoves
  <2> QED BY <1>3, <1>4, <2>1, <2>2, SetAndPost
<1>6. CASE Disconnect(e)
  <2>1. /\ UNCHANGED <<sent, extra, data, epOpen, main, srv, idAt, conn, seen, failed, stolen>>
        /\ RdmaDisconnect(e, idAt[k])
    BY <1>1, <1>6 DEF Disconnect, server, ends
  <2>2. cm' \in [Conns -> CmStates] /\ CmMoves(k) /\ tw' \subseteq Ends /\ Posted(k, Plain, Plain, idAt[k])
    BY <1>0, <1>1, <2>1, DisconnectPosts
  <2>3. TypeOK'
    BY <1>0, <1>2, <2>1, <2>2, PostedType
  <2> QED BY <1>4, <2>1, <2>2, <2>3, QuietKeeps
<1> QED BY <1>5, <1>6

(* The request of k reaches the endpoint's channel: it is the only one.    *)
LEMMA RequestKeeps ==
  ASSUME IInv, NEW k \in Conns, epOpen, DeliverRequest(k)
  PROVE  IInv'
<1> DEFINE x == CmEvent("CONNECT_REQUEST", sent[Client(k)])
<1>0. TypeOK /\ StageOK(k) /\ ServerOK(k) /\ ClientOK(k) /\ EpInv /\ OnceInv
  BY DEF IInv
<1>1. /\ UNCHANGED <<sent, extra, tw, data, epOpen, main, srv, conn, seen, failed, stolen>>
      /\ cm[k] = "requested" /\ cm' = [cm EXCEPT ![k] = "arrived"]
      /\ idAt' = [idAt EXCEPT ![k] = "ep"] /\ PostAs(k, <<>>, <<x>>, "ep")
  BY DEF DeliverRequest, server, ends, CmSet
<1>2. Client(k) \in Ends /\ Server(k) \in Ends /\ Client(k) # Server(k)
  BY EndsDiffer
<1>3. x \in CmEvents /\ x.type = "CONNECT_REQUEST" /\ x.pdata = sent[Client(k)]
  BY <1>0, <1>2 DEF TypeOK, CmEvents, CmTypes, CmEvent
<1> HIDE DEF x
<1>4. Posted(k, {}, {x}, "ep")
  <2>1. AtMostOne(<<>>, {}) /\ AtMostOne(<<x>>, {x}) /\ {x} \in SUBSET CmEvents /\ {} \in SUBSET CmEvents
    BY <1>3 DEF AtMostOne
  <2> QED BY <1>0, <1>1, <2>1, PostAsIs
<1>5. cm \in [Conns -> CmStates] /\ idAt \in [Conns -> {"none", "ep", "own"}]
  BY <1>0 DEF TypeOK, CmStates
<1>6. /\ cm'[k] = "arrived" /\ idAt'[k] = "ep" /\ srv[k] = "none"
      /\ \A j \in Conns \ {k} : cm'[j] = cm[j] /\ idAt'[j] = idAt[j]
  BY <1>0, <1>1, <1>5 DEF StageOK
<1>7. TypeOK'
  BY <1>0, <1>1, <1>4 DEF TypeOK, Posted
<1>8. Elsewhere(k)
  BY <1>1, <1>6 DEF Elsewhere
<1>9. \A i \in DOMAIN epq : epq[i].k # k /\ epq[i].k \in Conns
  BY <1>0, <1>1, EpqType DEF EpInv, EpEventOK
<1>10. main # None => main.k # k /\ main.k \in Conns
  BY <1>0, <1>1, EpqType DEF EpInv, EpEventOK
<1>11. \A i \in DOMAIN epq' :
          \/ i \in DOMAIN epq /\ epq'[i] = epq[i]
          \/ i = Len(epq) + 1 /\ epq'[i].k = k /\ epq'[i].ev = x
  <2>1. \A i \in DOMAIN epq' : i \in DOMAIN epq \/ i = Len(epq) + 1
    <3> DEFINE y == [k |-> k, ev |-> x]
    <3>1. epq \in Seq(EpEvents) /\ epq' = epq \o [i \in DOMAIN <<x>> |-> [k |-> k, ev |-> <<x>>[i]]]
      BY <1>0, <1>1 DEF PostAs, TypeOK
    <3>2. [i \in DOMAIN <<x>> |-> [k |-> k, ev |-> <<x>>[i]]] = <<y>>
      BY SMT
    <3>3. y \in EpEvents
      BY <1>3 DEF EpEvents
    <3>4. epq' = epq \o <<y>>
      BY <3>1, <3>2
    <3> HIDE DEF y
    <3> QED BY SMT, <3>1, <3>3, <3>4
  <2> QED BY <1>4, <2>1 DEF Posted
<1>12. EpInv'
  <2>1. ASSUME NEW i \in DOMAIN epq' PROVE EpEventOK(epq[i])'
    <3>1. CASE i \in DOMAIN epq /\ epq'[i] = epq[i]
      <4>1. EpEventOK(epq[i]) /\ epq[i].k # k /\ epq[i].k \in Conns
        BY <1>0, <1>9, <3>1 DEF EpInv
      <4>2. cm'[epq[i].k] = cm[epq[i].k]
        BY <1>6, <4>1
      <4> QED BY <1>1, <3>1, <4>1, <4>2 DEF EpEventOK
    <3>2. CASE epq'[i].k = k /\ epq'[i].ev = x
      BY <1>1, <1>3, <1>6, <3>2 DEF EpEventOK
    <3> QED BY <1>11, <3>1, <3>2
  <2>2. ASSUME main' # None PROVE EpEventOK(main)'
    <3>1. EpEventOK(main) /\ main' = main
      BY <1>0, <1>1, <2>2 DEF EpInv
    <3>2. cm'[main.k] = cm[main.k]
      BY <1>1, <1>6, <1>10, <2>2
    <3> QED BY <1>1, <3>1, <3>2 DEF EpEventOK
  <2> QED BY <2>1, <2>2 DEF EpInv
<1>13. OnceInv'
  BY ZenonT(30), <1>0, <1>1, <1>9, <1>10, <1>11 DEF OnceInv, Request
<1>14. StageOK(k)'
  BY <1>0, <1>1, <1>6 DEF StageOK
<1>15. ServerOK(k)'
  <2>1. conn[Server(k)] = "none"
    BY <1>0, <1>6 DEF StageOK
  <2>2. evq'[Server(k)] = evq[Server(k)]
    BY <1>0, <1>1, <1>2 DEF PostAs, TypeOK
  <2> QED BY SMT, <1>0, <1>1, <1>6, <2>1, <2>2 DEF ServerOK
<1>16. ClientOK(k)'
  <2>1. \A i \in DOMAIN evq'[Client(k)] : i \in DOMAIN evq[Client(k)] /\ evq'[Client(k)][i] = evq[Client(k)][i]
    BY <1>2, <1>4 DEF Posted
  <2> QED BY <1>0, <1>1, <2>1 DEF ClientOK, Saw
<1>17. \A j \in Conns : StageOK(j)' /\ ServerOK(j)' /\ ClientOK(j)'
  BY <1>4, <1>8, <1>14, <1>15, <1>16, OthersKeep, PostedElsewhere
<1>18. ThreadInv'
  BY <1>1 DEF IInv, ThreadInv, InHand
<1> QED BY <1>7, <1>12, <1>13, <1>17, <1>18 DEF IInv

-----------------------------------------------------------------------------
(* A step that leaves the queues alone.                                    *)
LEMMA NothingPosted ==
  ASSUME TypeOK, NEW k \in Conns, UNCHANGED <<evq, epq>>
  PROVE  Posted(k, {}, {}, "none") /\ ForClient(k, {}) /\ ForServer(k, {})
BY DEF TypeOK, Posted, ForClient, ForServer

(* rpma_ep_next_conn_req() takes an event from the endpoint's channel.  A  *)
(* single thread has no request in hand then, so an ESTABLISHED event is   *)
(* of a connection it has given up.                                        *)
LEMMA NextConnReqKeeps ==
  ASSUME IInv, NextConnReq
  PROVE  IInv'
<1>0. TypeOK /\ EpInv /\ OnceInv /\ ThreadInv
  BY DEF IInv
<1>1. /\ UNCHANGED <<cm, sent, extra, tw, epOpen, srv, idAt, evq, conn, data, seen, failed, stolen>>
      /\ main = None /\ epq # <<>> /\ main' = Head(epq) /\ epq' = Tail(epq)
      /\ Workers \/ InHand = {}
  BY DEF NextConnReq, ends
<1>2. epq \in Seq(EpEvents)
  BY <1>0 DEF TypeOK
<1>3. /\ 1 \in DOMAIN epq /\ main' = epq[1] /\ epq[1] \in EpEvents /\ epq' \in Seq(EpEvents)
      /\ \A i \in DOMAIN epq' : i + 1 \in DOMAIN epq /\ epq'[i] = epq[i + 1] /\ i + 1 # 1 /\ i \in Int
  BY SMT, <1>1, <1>2
<1>4. TypeOK'
  BY <1>0, <1>1, <1>3 DEF TypeOK
<1>5. EpInv'
  <2>1. ASSUME NEW i \in DOMAIN epq' PROVE EpEventOK(epq[i])'
    <3>1. EpEventOK(epq[i + 1]) /\ epq'[i] = epq[i + 1]
      BY <1>0, <1>3 DEF EpInv
    <3> QED BY <1>1, <3>1 DEF EpEventOK
  <2>2. EpEventOK(main)'
    <3>1. EpEventOK(epq[1]) /\ main' = epq[1]
      BY <1>0, <1>3 DEF EpInv
    <3> QED BY <1>1, <3>1 DEF EpEventOK
  <2> QED BY <2>1, <2>2 DEF EpInv
<1>6. OnceInv'
  <2> SUFFICES ASSUME NEW k \in Conns
               PROVE  /\ \A i, j \in DOMAIN epq' : Request(epq'[i], k) /\ Request(epq'[j], k) => i = j
                      /\ Request(main', k) => \A i \in DOMAIN epq' : ~Request(epq'[i], k)
    BY DEF OnceInv, Request
  <2>1. \A i, j \in DOMAIN epq : Request(epq[i], k) /\ Request(epq[j], k) => i = j
    BY <1>0 DEF OnceInv
  <2>2. ASSUME NEW i \in DOMAIN epq', NEW j \in DOMAIN epq', Request(epq'[i], k), Request(epq'[j], k) PROVE i = j
    <3>1. i + 1 = j + 1
      BY <1>3, <2>1, <2>2
    <3> QED BY SMT, <1>3, <3>1
  <2>3. ASSUME Request(main', k), NEW i \in DOMAIN epq', Request(epq'[i], k) PROVE FALSE
    BY <1>3, <2>1, <2>3
  <2> QED BY <2>2, <2>3
<1>7. \A j \in Conns : StageOK(j)' /\ ServerOK(j)' /\ ClientOK(j)'
  BY SMT, <1>1 DEF IInv, StageOK, ServerOK, ClientOK, Saw
<1>8. ThreadInv'
  <2> SUFFICES ASSUME ~Workers
               PROVE  InHand' = {} /\ (main'.ev.type = "ESTABLISHED" => srv'[main'.k] = "failed")
    BY <1>0, <1>1 DEF ThreadInv
  <2>1. InHand = {} /\ InHand' = InHand
    BY <1>1 DEF InHand
  <2>2. EpEventOK(epq[1]) /\ epq[1].k \in Conns
    BY <1>0, <1>3, EpqType DEF EpInv
  <2>3. srv[epq[1].k] \in {"none", "request", "accepted", "migrated", "returned", "failed"}
    BY <1>0, <2>2 DEF TypeOK
  <2> QED BY <1>1, <1>3, <2>1, <2>2, <2>3 DEF EpEventOK, InHand
<1> QED BY <1>4, <1>5, <1>6, <1>7, <1>8 DEF IInv

(* It drops an event that is no connection request.                        *)
LEMMA UnexpectedKeeps ==
  ASSUME IInv, UnexpectedEvent
  PROVE  IInv'
<1>0. TypeOK /\ EpInv /\ OnceInv /\ ThreadInv
  BY DEF IInv
<1>1. /\ UNCHANGED <<cm, sent, extra, tw, epq, epOpen, srv, idAt, evq, conn, data, seen, failed>>
      /\ main # None /\ main' = None
      /\ stolen' = IF main.ev.type = "ESTABLISHED" THEN stolen \cup {main.k} ELSE stolen
  BY DEF UnexpectedEvent, ends
<1>2. main.k \in Conns
  BY <1>0, <1>1, EpqType
<1>3. TypeOK'
  BY <1>0, <1>1, <1>2 DEF TypeOK
<1>4. EpInv'
  BY <1>0, <1>1 DEF EpInv, EpEventOK
<1>5. OnceInv'
  BY SMTT(30), <1>0, <1>1 DEF OnceInv, Request
<1>6. \A j \in Conns : StageOK(j)' /\ ServerOK(j)' /\ ClientOK(j)'
  BY SMT, <1>1 DEF IInv, StageOK, ServerOK, ClientOK, Saw
<1>7. ThreadInv'
  BY <1>0, <1>1 DEF ThreadInv
<1> QED BY <1>3, <1>4, <1>5, <1>6, <1>7 DEF IInv

(* The request in main: k has no other event that matters.                 *)
LEMMA MainRequest ==
  ASSUME IInv, main # None, main.ev.type = "CONNECT_REQUEST"
  PROVE  /\ main.k \in Conns /\ srv[main.k] = "none" /\ cm[main.k] \notin {"none", "requested"}
         /\ main.ev.pdata = sent[Client(main.k)] /\ main.ev.pdata \in Ends \cup {None}
         /\ idAt[main.k] # "own" /\ conn[Server(main.k)] = "none"
         /\ \A i \in DOMAIN epq : ~Request(epq[i], main.k)
<1>1. main \in EpEvents /\ main.k \in Conns
  BY EpqType DEF IInv
<1>2. EpEventOK(main) /\ OnceInv /\ StageOK(main.k)
  BY <1>1 DEF IInv, EpInv
<1>3. srv[main.k] = "none" /\ cm[main.k] \notin {"none", "requested"} /\ main.ev.pdata = sent[Client(main.k)]
  BY <1>2 DEF EpEventOK
<1>4. main.ev.pdata \in Ends \cup {None}
  BY <1>1 DEF EpEvents, CmEvents
<1>5. idAt[main.k] # "own" /\ conn[Server(main.k)] = "none"
  BY <1>2, <1>3 DEF StageOK
<1>6. \A i \in DOMAIN epq : ~Request(epq[i], main.k)
  <2>1. Request(main, main.k)
    BY DEF Request
  <2> QED BY <1>1, <1>2, <2>1 DEF OnceInv
<1> QED BY <1>1, <1>3, <1>4, <1>5, <1>6

(* A request is made of it, with the private data of the client.           *)
LEMMA ReadyKeeps ==
  ASSUME IInv, RequestReady
  PROVE  IInv'
<1>0. TypeOK /\ ThreadInv
  BY DEF IInv
<1>1. /\ UNCHANGED <<cm, sent, extra, tw, epq, epOpen, idAt, evq, conn, seen, failed, stolen>>
      /\ main # None /\ main.ev.type = "CONNECT_REQUEST" /\ main' = None
      /\ srv' = [srv EXCEPT ![main.k] = "request"]
      /\ data' = [data EXCEPT ![Server(main.k)] = main.ev.pdata]
  BY DEF RequestReady
<1>2. PICK k \in Conns : k = main.k
  BY <1>1, MainRequest
<1>3. /\ srv[k] = "none" /\ cm[k] \notin {"none", "requested"} /\ main.ev.pdata = sent[Client(k)]
      /\ main.ev.pdata \in Ends \cup {None} /\ idAt[k] # "own" /\ conn[Server(k)] = "none"
      /\ \A i \in DOMAIN epq : ~Request(epq[i], k)
  BY <1>1, <1>2, MainRequest
<1>4. Client(k) \in Ends /\ Server(k) \in Ends /\ Client(k) # Server(k)
  BY EndsDiffer
<1>5. TypeOK'
  BY <1>0, <1>1, <1>2, <1>3, <1>4 DEF TypeOK
<1>6. /\ srv'[k] = "request" /\ \A j \in Conns \ {k} : srv'[j] = srv[j]
      /\ data'[Server(k)] = sent[Client(k)] /\ \A e \in Ends \ {Server(k)} : data'[e] = data[e]
  BY <1>0, <1>1, <1>2, <1>3, <1>4 DEF TypeOK
<1>7. Elsewhere(k)
  <2> SUFFICES ASSUME NEW j \in Conns \ {k}, NEW e \in {Client(j), Server(j)} PROVE data'[e] = data[e]
    BY <1>1, <1>6 DEF Elsewhere
  <2> QED BY SMT, <1>6, EndsDiffer
<1>8. Posted(k, {}, {}, "none") /\ ForServer(k, {})
  BY <1>0, <1>1, NothingPosted
<1>9. EpInv' /\ OnceInv'
  <2>1. cm'[k] = cm[k]
    BY <1>1
  <2> QED BY <1>1, <1>3, <1>5, <1>6, <1>7, <1>8, <2>1, EpKeeps
<1>10. StageOK(k) /\ ServerOK(k) /\ ClientOK(k)
  BY DEF IInv
<1>11. StageOK(k)'
  BY <1>1, <1>3, <1>6, <1>10 DEF StageOK
<1>12. ServerOK(k)'
  BY <1>1, <1>3, <1>6, <1>10 DEF ServerOK
<1>13. ClientOK(k)'
  BY <1>1, <1>3, <1>4, <1>6, <1>10 DEF ClientOK, Saw
<1>14. \A j \in Conns : StageOK(j)' /\ ServerOK(j)' /\ ClientOK(j)'
  BY <1>7, <1>8, <1>11, <1>12, <1>13, OthersKeep, PostedElsewhere
<1>15. ThreadInv'
  <2>1. stolen \subseteq Conns
    BY <1>0 DEF TypeOK
  <2> QED BY <1>0, <1>1, <1>3, <1>6, <2>1 DEF ThreadInv
<1> QED BY <1>5, <1>9, <1>14, <1>15 DEF IInv

(* A connection that the server has not returned yet, and has answered or  *)
(* has in hand, waits for no request of its own.                           *)
LEMMA InHandFacts ==
  ASSUME IInv, NEW k \in Conns, srv[k] \in {"request", "accepted", "migrated"}
  PROVE  /\ \A i \in DOMAIN epq : ~Request(epq[i], k)
         /\ main # None => ~Request(main, k)
         /\ cm[k] \notin {"none", "requested"}
         /\ srv[k] \in {"request", "accepted"} => idAt[k] # "own"
         /\ conn[Server(k)] = "none"
         /\ ~Workers => k \notin stolen /\ main = None
<1>1. EpInv /\ StageOK(k) /\ ThreadInv
  BY DEF IInv
<1>2. \A i \in DOMAIN epq : ~Request(epq[i], k)
  BY <1>1 DEF EpInv, EpEventOK, Request
<1>3. main # None => ~Request(main, k)
  BY <1>1 DEF EpInv, EpEventOK, Request
<1>4. cm[k] \notin {"none", "requested"} /\ conn[Server(k)] = "none" /\ (srv[k] \in {"request", "accepted"} => idAt[k] # "own")
  BY <1>1 DEF StageOK
<1>5. ~Workers => k \notin stolen /\ main = None
  BY <1>1 DEF ThreadInv, InHand
<1> QED BY <1>2, <1>3, <1>4, <1>5

(* rpma_ep_next_conn_req() fails.                                          *)
LEMMA RequestFailsKeeps ==
  ASSUME IInv, RequestFails
  PROVE  IInv'
<1>0. TypeOK
  BY DEF IInv
<1>1. /\ UNCHANGED <<sent, extra, tw, epOpen, conn, data, seen, failed, stolen>>
      /\ main # None /\ main.ev.type = "CONNECT_REQUEST" /\ main' = None
      /\ srv' = [srv EXCEPT ![main.k] = "failed"]
  BY DEF RequestFails, ends
<1>2. PICK k \in Conns : k = main.k
  BY <1>1, MainRequest
<1>3. /\ srv[k] = "none" /\ cm[k] \notin {"none", "requested"} /\ idAt[k] # "own"
      /\ \A i \in DOMAIN epq : ~Request(epq[i], k)
  BY <1>1, <1>2, MainRequest
<1>4. \/ UNCHANGED <<cm, evq, epq>> /\ UNCHANGED idAt
      \/ RdmaReject(k) /\ (UNCHANGED idAt \/ idAt' = [idAt EXCEPT ![k] = "none"])
  BY <1>2 DEF RequestFails
<1>5. cm \in [Conns -> CmStates] /\ idAt \in [Conns -> {"none", "ep", "own"}]
  BY <1>0 DEF TypeOK, CmStates
<1>6. /\ idAt' \in [Conns -> {"none", "ep", "own"}] /\ idAt'[k] # "own"
      /\ \A j \in Conns \ {k} : idAt'[j] = idAt[j]
  BY <1>3, <1>4, <1>5
<1>7. PICK C \in {{}, Plain}, at \in {"none", idAt[k]} :
         cm' \in [Conns -> CmStates] /\ CmMoves(k) /\ Posted(k, C, C, at) /\ ForClient(k, C) /\ ForServer(k, C)
  <2>1. CASE UNCHANGED <<cm, evq, epq>>
    <3>1. cm' \in [Conns -> CmStates] /\ CmMoves(k)
      BY <1>5, <2>1 DEF CmMoves
    <3>2. Posted(k, {}, {}, "none") /\ ForClient(k, {}) /\ ForServer(k, {})
      BY <1>0, <2>1, NothingPosted
    <3> QED BY <3>1, <3>2
  <2>2. CASE RdmaReject(k)
    BY <1>0, <2>2, RejectPosts, PlainIs
  <2> QED BY <1>4, <2>1, <2>2
<1>8. TypeOK'
  BY <1>0, <1>1, <1>2, <1>6, <1>7 DEF TypeOK, Posted, CmStates
<1> QED BY <1>1, <1>2, <1>3, <1>6, <1>7, <1>8, FailKeeps

(* rpma_conn_req_delete(), and the failures of rpma_conn_req_connect().    *)
LEMMA GiveUpKeeps ==
  ASSUME IInv, NEW k \in Conns, ReqDelete(k) \/ ConnectFails(k)
  PROVE  IInv'
<1>0. TypeOK
  BY DEF IInv
<1>1. /\ UNCHANGED <<sent, extra, epOpen, main, conn, seen, failed, stolen>>
      /\ srv' = [srv EXCEPT ![k] = "failed"] /\ data' = [data EXCEPT ![Server(k)] = None]
      /\ srv[k] \in {"request", "accepted", "migrated"}
  BY DEF ReqDelete, ConnectFails
<1>2. Client(k) \in Ends /\ Server(k) \in Ends /\ Client(k) # Server(k)
  BY EndsDiffer
<1>3. /\ \A i \in DOMAIN epq : ~Request(epq[i], k)
      /\ main' # None => ~Request(main, k)
      /\ cm[k] \notin {"none", "requested"}
      /\ srv[k] \in {"request", "accepted"} => idAt[k] # "own"
  BY <1>1, InHandFacts
<1>4. \/ UNCHANGED <<cm, tw, evq, epq>> /\ UNCHANGED idAt /\ srv[k] = "request"
      \/ RdmaReject(k) /\ UNCHANGED idAt /\ UNCHANGED tw /\ srv[k] = "request"
      \/ RdmaDisconnect(Server(k), idAt[k]) /\ UNCHANGED idAt /\ srv[k] = "accepted"
      \/ RdmaDisconnect(Server(k), "none") /\ idAt' = [idAt EXCEPT ![k] = "none"]
  BY DEF ReqDelete, ConnectFails
<1>5. cm \in [Conns -> CmStates] /\ idAt \in [Conns -> {"none", "ep", "own"}] /\ tw \subseteq Ends
  BY <1>0 DEF TypeOK, CmStates
<1>6. /\ idAt' \in [Conns -> {"none", "ep", "own"}] /\ idAt'[k] # "own"
      /\ \A j \in Conns \ {k} : idAt'[j] = idAt[j]
  BY <1>3, <1>4, <1>5
<1>7. PICK C \in {{}, Plain}, at \in {"none", idAt[k]} :
         /\ cm' \in [Conns -> CmStates] /\ CmMoves(k) /\ tw' \subseteq Ends
         /\ Posted(k, C, C, at) /\ ForClient(k, C) /\ ForServer(k, C)
  <2>1. CASE UNCHANGED <<cm, tw, evq, epq>>
    <3>1. cm' \in [Conns -> CmStates] /\ CmMoves(k) /\ tw' \subseteq Ends
      BY <1>5, <2>1 DEF CmMoves
    <3>2. Posted(k, {}, {}, "none") /\ ForClient(k, {}) /\ ForServer(k, {})
      BY <1>0, <2>1, NothingPosted
    <3> QED BY <3>1, <3>2
  <2>2. CASE RdmaReject(k) /\ UNCHANGED tw
    BY <1>0, <1>5, <2>2, RejectPosts, PlainIs
  <2>3. ASSUME NEW at \in {"none", idAt[k]}, RdmaDisconnect(Server(k), at)
        PROVE  /\ cm' \in [Conns -> CmStates] /\ CmMoves(k) /\ tw' \subseteq Ends
               /\ Posted(k, Plain, Plain, at) /\ ForClient(k, Plain) /\ ForServer(k, Plain)
    BY <1>0, <2>3, DisconnectPosts, PlainIs
  <2> QED BY <1>4, <2>1, <2>2, <2>3
<1>8. TypeOK'
  BY <1>0, <1>1, <1>2, <1>6, <1>7 DEF TypeOK, Posted, CmStates
<1>9. \A e \in Ends \ {Server(k)} : data'[e] = data[e]
  BY <1>0, <1>1 DEF TypeOK
<1>10. srv[k] # "returned"
  BY <1>1
<1> QED BY <1>1, <1>3, <1>6, <1>7, <1>8, <1>9, <1>10, FailKeeps

(* rdma_accept(): the client cannot have heard of the server before.       *)
LEMMA AcceptKeeps ==
  ASSUME IInv, NEW k \in Conns, NEW d \in PData(Server(k)), Accept(k, d)
  PROVE  IInv'
<1>0. TypeOK /\ ThreadInv /\ StageOK(k) /\ ServerOK(k) /\ ClientOK(k)
  BY DEF IInv
<1>1. /\ UNCHANGED <<extra, tw, epq, epOpen, main, idAt, evq, conn, data, seen, failed, stolen>>
      /\ srv[k] = "request" /\ srv' = [srv EXCEPT ![k] = "accepted"]
      /\ cm' = [cm EXCEPT ![k] = IF cm[k] = "arrived" THEN "accepted" ELSE "unheard"]
      /\ sent' = [sent EXCEPT ![Server(k)] = d]
  BY <1>0 DEF Accept, ends, TypeOK
<1>2. Client(k) \in Ends /\ Server(k) \in Ends /\ Client(k) # Server(k)
  BY EndsDiffer
<1>3. /\ \A i \in DOMAIN epq : ~Request(epq[i], k)
      /\ main' # None => ~Request(main, k)
      /\ conn[Server(k)] = "none"
      /\ ~Workers => k \notin stolen /\ main = None
  BY <1>1, InHandFacts
<1>4. d \in Ends \cup {None}
  BY <1>2 DEF PData
<1>5. TypeOK'
  BY <1>0, <1>1, <1>2, <1>4 DEF TypeOK
<1>6. /\ srv'[k] = "accepted" /\ cm'[k] \in {"accepted", "unheard"}
      /\ \A j \in Conns \ {k} : srv'[j] = srv[j] /\ cm'[j] = cm[j]
      /\ \A e \in Ends \ {Server(k)} : sent'[e] = sent[e]
  BY <1>0, <1>1, <1>2 DEF TypeOK
<1>7. Elsewhere(k)
  <2> SUFFICES ASSUME NEW j \in Conns \ {k}, NEW e \in {Client(j), Server(j)} PROVE sent'[e] = sent[e]
    BY <1>1, <1>6 DEF Elsewhere
  <2> QED BY SMT, <1>6, EndsDiffer
<1>8. Posted(k, {}, {}, "none") /\ ForServer(k, {})
  BY <1>0, <1>1, NothingPosted
<1>9. EpInv' /\ OnceInv'
  BY <1>1, <1>3, <1>5, <1>6, <1>7, <1>8, EpKeeps
<1>11. StageOK(k)'
  BY <1>0, <1>1, <1>3, <1>6 DEF StageOK
<1>12. ServerOK(k)'
  BY <1>0, <1>1, <1>2, <1>3, <1>6 DEF ServerOK
<1>13. ClientOK(k)'
  BY <1>0, <1>1, <1>2, <1>6 DEF ClientOK, Saw
<1>14. \A j \in Conns : StageOK(j)' /\ ServerOK(j)' /\ ClientOK(j)'
  BY <1>7, <1>8, <1>11, <1>12, <1>13, OthersKeep, PostedElsewhere
<1>15. ThreadInv'
  <2>1. stolen \subseteq Conns
    BY <1>0 DEF TypeOK
  <2> QED BY <1>0, <1>1, <1>3, <1>6, <2>1 DEF ThreadInv
<1> QED BY <1>5, <1>9, <1>14, <1>15 DEF IInv

(* The endpoint's channel when it has no event of k.                       *)
LEMMA EpUntouched ==
  ASSUME IInv, NEW k \in Conns, Elsewhere(k), UNCHANGED <<epq, main>>,
         \A i \in DOMAIN epq : epq[i].k # k, main # None => main.k # k
  PROVE  EpInv' /\ OnceInv'
<1>0. TypeOK /\ EpInv /\ OnceInv
  BY DEF IInv
<1>1. ASSUME NEW i \in DOMAIN epq' PROVE EpEventOK(epq[i])'
  <2>1. EpEventOK(epq[i]) /\ epq[i].k \in Conns \ {k} /\ epq' = epq
    BY <1>0, EpqType DEF EpInv
  <2>2. cm'[epq[i].k] = cm[epq[i].k] /\ srv'[epq[i].k] = srv[epq[i].k] /\ sent'[Client(epq[i].k)] = sent[Client(epq[i].k)]
    BY <2>1 DEF Elsewhere
  <2> QED BY <2>1, <2>2 DEF EpEventOK
<1>2. ASSUME main' # None PROVE EpEventOK(main)'
  <2>1. EpEventOK(main) /\ main.k \in Conns \ {k} /\ main' = main
    BY <1>0, <1>2, EpqType DEF EpInv
  <2>2. cm'[main.k] = cm[main.k] /\ srv'[main.k] = srv[main.k] /\ sent'[Client(main.k)] = sent[Client(main.k)]
    BY <2>1 DEF Elsewhere
  <2> QED BY <2>1, <2>2 DEF EpEventOK
<1>3. EpInv'
  BY <1>1, <1>2 DEF EpInv
<1>4. OnceInv'
  BY <1>0 DEF OnceInv, Request
<1> QED BY <1>3, <1>4

(* The client asks for a connection: nothing of it is anywhere yet.        *)
LEMMA ConnectActiveKeeps ==
  ASSUME IInv, NEW k \in Conns, NEW d \in PData(Client(k)), ConnectActive(k, d)
  PROVE  IInv'
<1>0. TypeOK /\ ThreadInv /\ StageOK(k) /\ ServerOK(k) /\ ClientOK(k) /\ EpInv
  BY DEF IInv
<1>1. /\ UNCHANGED <<extra, tw, epq, epOpen, main, srv, idAt, evq, data, seen, failed, stolen>>
      /\ conn[Client(k)] = "none" /\ cm[k] = "none" /\ cm' = [cm EXCEPT ![k] = "requested"]
      /\ conn' = [conn EXCEPT ![Client(k)] = "open"] /\ sent' = [sent EXCEPT ![Client(k)] = d]
  BY DEF ConnectActive, CmSet, server
<1>2. Client(k) \in Ends /\ Server(k) \in Ends /\ Client(k) # Server(k)
  BY EndsDiffer
<1>3. srv[k] = "none" /\ idAt[k] = "none" /\ conn[Server(k)] = "none"
  BY <1>0, <1>1 DEF StageOK
<1>4. (\A i \in DOMAIN epq : epq[i].k # k) /\ (main # None => main.k # k)
  BY <1>0, <1>1 DEF EpInv, EpEventOK
<1>5. d \in Ends \cup {None}
  BY <1>2 DEF PData
<1>6. TypeOK'
  BY <1>0, <1>1, <1>2, <1>5 DEF TypeOK
<1>7. /\ cm'[k] = "requested" /\ conn'[Client(k)] = "open" /\ \A j \in Conns \ {k} : cm'[j] = cm[j]
      /\ \A e \in Ends \ {Client(k)} : sent'[e] = sent[e] /\ conn'[e] = conn[e]
  BY <1>0, <1>1, <1>2 DEF TypeOK
<1>8. Elsewhere(k)
  <2> SUFFICES ASSUME NEW j \in Conns \ {k}, NEW e \in {Client(j), Server(j)}
               PROVE  sent'[e] = sent[e] /\ conn'[e] = conn[e]
    BY <1>1, <1>7 DEF Elsewhere
  <2> QED BY SMT, <1>7, EndsDiffer
<1>9. EpInv' /\ OnceInv'
  BY <1>1, <1>4, <1>8, EpUntouched
<1>10. Posted(k, {}, {}, "none")
  BY <1>0, <1>1, NothingPosted
<1>11. StageOK(k)'
  BY <1>1, <1>2, <1>3, <1>7 DEF StageOK
<1>12. ServerOK(k)'
  BY <1>0, <1>1, <1>2, <1>3, <1>7 DEF ServerOK
<1>13. ClientOK(k)'
  BY <1>0, <1>1, <1>2, <1>3, <1>7 DEF ClientOK, Saw
<1>14. \A j \in Conns : StageOK(j)' /\ ServerOK(j)' /\ ClientOK(j)'
  BY <1>8, <1>10, <1>11, <1>12, <1>13, OthersKeep, PostedElsewhere
<1>15. ThreadInv'
  BY <1>0, <1>1 DEF ThreadInv, InHand
<1> QED BY <1>6, <1>9, <1>14, <1>15 DEF IInv

(* rpma_conn_req_connect() returns the connection object of the server.    *)
LEMMA ConnReadyKeeps ==
  ASSUME IInv, NEW k \in Conns, ConnReady(k)
  PROVE  IInv'
<1>0. TypeOK /\ ThreadInv /\ StageOK(k) /\ ServerOK(k) /\ ClientOK(k) /\ EpInv
  BY DEF IInv
<1>1. /\ UNCHANGED <<cm, sent, extra, tw, epq, epOpen, main, idAt, evq, data, seen, failed, stolen>>
      /\ srv[k] = "migrated" /\ srv' = [srv EXCEPT ![k] = "returned"]
      /\ conn' = [conn EXCEPT ![Server(k)] = "open"]
  BY DEF ConnReady
<1>2. Client(k) \in Ends /\ Server(k) \in Ends /\ Client(k) # Server(k)
  BY EndsDiffer
<1>3. idAt[k] = "own" /\ cm[k] \notin {"none", "requested"} /\ (~Workers => k \notin stolen /\ main = None)
  BY <1>0, <1>1, InHandFacts DEF StageOK
<1>4. (\A i \in DOMAIN epq : epq[i].k # k) /\ (main # None => main.k # k)
  BY <1>0, <1>1 DEF EpInv, EpEventOK
<1>6. TypeOK'
  BY <1>0, <1>1, <1>2 DEF TypeOK
<1>7. /\ srv'[k] = "returned" /\ conn'[Server(k)] = "open" /\ \A j \in Conns \ {k} : srv'[j] = srv[j]
      /\ \A e \in Ends \ {Server(k)} : conn'[e] = conn[e]
  BY <1>0, <1>1, <1>2 DEF TypeOK
<1>8. Elsewhere(k)
  <2> SUFFICES ASSUME NEW j \in Conns \ {k}, NEW e \in {Client(j), Server(j)} PROVE conn'[e] = conn[e]
    BY <1>1, <1>7 DEF Elsewhere
  <2> QED BY SMT, <1>7, EndsDiffer
<1>9. EpInv' /\ OnceInv'
  BY <1>1, <1>4, <1>8, EpUntouched
<1>10. Posted(k, {}, {}, "none")
  BY <1>0, <1>1, NothingPosted
<1>11. StageOK(k)'
  BY <1>1, <1>3, <1>7 DEF StageOK
<1>12. ServerOK(k)'
  BY <1>0, <1>1, <1>7 DEF ServerOK
<1>13. ClientOK(k)'
  BY <1>0, <1>1, <1>2, <1>7 DEF ClientOK, Saw
<1>14. \A j \in Conns : StageOK(j)' /\ ServerOK(j)' /\ ClientOK(j)'
  BY <1>8, <1>10, <1>11, <1>12, <1>13, OthersKeep, PostedElsewhere
<1>15. ThreadInv'
  <2>1. stolen \subseteq Conns
    BY <1>0 DEF TypeOK
  <2> QED BY <1>0, <1>1, <1>3, <1>7, <2>1 DEF ThreadInv
<1> QED BY <1>6, <1>9, <1>14, <1>15 DEF IInv

(* rdma_migrate_id() takes every event of k from the endpoint's channel to *)
(* the channel of its own.                                                 *)
LEMMA MigrateKeeps ==
  ASSUME IInv, NEW k \in Conns, Migrate(k)
  PROVE  IInv'
<1> DEFINE mine == {i \in DOMAIN epq : epq[i].k = k}
           rest == DOMAIN epq \ mine
<1>0. TypeOK /\ ThreadInv /\ StageOK(k) /\ ServerOK(k) /\ ClientOK(k) /\ EpInv /\ OnceInv
  BY DEF IInv
<1>a. PICK g \in Ascending(mine), f \in Ascending(rest) :
         /\ evq' = [evq EXCEPT ![Server(k)] = [j \in DOMAIN g |-> epq[g[j]].ev]]
         /\ epq' = [j \in DOMAIN f |-> epq[f[j]]]
  BY DEF Migrate
<1> DEFINE moved == [j \in DOMAIN g |-> epq[g[j]].ev]
           kept == [j \in DOMAIN f |-> epq[f[j]]]
<1>1. /\ UNCHANGED <<cm, sent, extra, tw, epOpen, main, conn, data, seen, failed, stolen>>
      /\ srv[k] = "accepted" /\ srv' = [srv EXCEPT ![k] = "migrated"]
      /\ ~(main # None /\ main.k = k /\ main.ev.type # "CONNECT_REQUEST")
      /\ idAt' = [idAt EXCEPT ![k] = "own"]
      /\ evq' = [evq EXCEPT ![Server(k)] = moved]
      /\ epq' = kept
  BY <1>a DEF Migrate, ends
<1>2. Client(k) \in Ends /\ Server(k) \in Ends /\ Client(k) # Server(k)
  BY EndsDiffer
<1>3. /\ cm[k] \notin {"none", "requested"} /\ conn[Server(k)] = "none"
      /\ main # None => main.k # k
      /\ ~Workers => k \notin stolen /\ main = None
  BY <1>1, InHandFacts DEF Request
<1>4. /\ epq \in Seq(EpEvents) /\ mine \in SUBSET DOMAIN epq /\ rest \in SUBSET DOMAIN epq
      /\ \A i \in DOMAIN epq : epq[i] \in EpEvents /\ epq[i].ev \in CmEvents /\ EpEventOK(epq[i])
  <2>1. epq \in Seq(EpEvents)
    BY <1>0 DEF TypeOK
  <2>2. \A i \in DOMAIN epq : epq[i] \in EpEvents
    BY SMT, <2>1
  <2>3. \A i \in DOMAIN epq : epq[i].ev \in CmEvents
    BY SMT, <2>2 DEF EpEvents
  <2> QED BY <1>0, <2>1, <2>2, <2>3 DEF EpInv
<1>5. /\ \E n \in Nat : g \in [1..n -> mine]
      /\ \A j \in DOMAIN g : g[j] \in mine
  <2> HIDE DEF mine
  <2> QED BY <1>4, AscendingIs
<1>6. /\ \E n \in Nat : f \in [1..n -> rest]
      /\ \A j \in DOMAIN f : f[j] \in rest
      /\ \A j, m \in DOMAIN f : f[j] = f[m] => j = m
  <2> HIDE DEF rest
  <2> QED BY <1>4, AscendingIs
<1>7. kept \in Seq(EpEvents)
  <2>1. PICK n \in Nat : DOMAIN f = 1..n
    BY <1>6
  <2>2. \A j \in DOMAIN f : epq[f[j]] \in EpEvents
    BY <1>4, <1>6
  <2> QED BY SMT, <2>1, <2>2
<1>8. \A j \in DOMAIN moved : moved[j] \in CmEvents /\ (moved[j].type = "ESTABLISHED" => moved[j].pdata = None)
  BY <1>4, <1>5 DEF EpEventOK
<1>9. \A j \in DOMAIN kept : f[j] \in DOMAIN epq /\ kept[j] = epq[f[j]] /\ epq[f[j]].k # k
  BY <1>6
<1>b. DOMAIN kept = DOMAIN f
  OBVIOUS
<1>10. moved \in Seq(CmEvents)
  <2>1. PICK n \in Nat : DOMAIN moved = 1..n
    BY <1>5
  <2> QED BY SMT, <1>8, <2>1
<1> HIDE DEF mine, rest, moved, kept
<1>11. TypeOK'
  BY <1>0, <1>1, <1>2, <1>7, <1>10 DEF TypeOK
<1>12. /\ srv'[k] = "migrated" /\ idAt'[k] = "own"
       /\ \A j \in Conns \ {k} : srv'[j] = srv[j] /\ idAt'[j] = idAt[j]
       /\ evq'[Server(k)] = moved
       /\ \A e \in Ends \ {Server(k)} : evq'[e] = evq[e]
  BY <1>0, <1>1, <1>2 DEF TypeOK
<1>13. Elsewhere(k)
  BY <1>1, <1>12 DEF Elsewhere
<1>14. EpInv'
  <2>1. ASSUME NEW j \in DOMAIN epq' PROVE EpEventOK(epq[j])'
    <3>1. epq'[j] = epq[f[j]] /\ f[j] \in DOMAIN epq /\ epq[f[j]].k \in Conns \ {k} /\ EpEventOK(epq[f[j]])
      BY <1>0, <1>1, <1>9, EpqType DEF EpInv
    <3>2. srv'[epq[f[j]].k] = srv[epq[f[j]].k]
      BY <1>12, <3>1
    <3> QED BY <1>1, <3>1, <3>2 DEF EpEventOK
  <2>2. ASSUME main' # None PROVE EpEventOK(main)'
    <3>1. EpEventOK(main) /\ main.k \in Conns \ {k} /\ main' = main
      BY <1>0, <1>1, <1>3, <2>2, EpqType DEF EpInv
    <3>2. srv'[main.k] = srv[main.k]
      BY <1>12, <3>1
    <3> QED BY <1>1, <3>1, <3>2 DEF EpEventOK
  <2> QED BY <2>1, <2>2 DEF EpInv
<1>15. OnceInv'
  <2> SUFFICES ASSUME NEW c \in Conns
               PROVE  /\ \A i, j \in DOMAIN kept : Request(kept[i], c) /\ Request(kept[j], c) => i = j
                      /\ main # None /\ Request(main, c) => \A i \in DOMAIN kept : ~Request(kept[i], c)
    BY ZenonT(30), <1>1 DEF OnceInv, Request
  <2>1. /\ \A i, j \in DOMAIN epq : Request(epq[i], c) /\ Request(epq[j], c) => i = j
        /\ main # None /\ Request(main, c) => \A i \in DOMAIN epq : ~Request(epq[i], c)
    BY <1>0 DEF OnceInv
  <2>2. ASSUME NEW i \in DOMAIN kept, NEW j \in DOMAIN kept, Request(kept[i], c), Request(kept[j], c) PROVE i = j
    <3>1. f[i] = f[j]
      BY <1>9, <2>1, <2>2
    <3> QED BY <1>6, <1>b, <3>1
  <2> QED BY <1>9, <2>1, <2>2
<1>16. StageOK(k)'
  BY <1>1, <1>3, <1>12 DEF StageOK
<1>17. ServerOK(k)'
  BY SMTT(30), <1>0, <1>1, <1>3, <1>8, <1>12 DEF ServerOK
<1>18. ClientOK(k)'
  BY SMTT(30), <1>0, <1>1, <1>2, <1>12 DEF ClientOK, Saw
<1>19. ASSUME NEW j \in Conns \ {k} PROVE NoNewEvents(Client(j)) /\ NoNewEvents(Server(j))
  BY SMT, <1>12, EndsDiffer DEF NoNewEvents
<1>20. \A j \in Conns : StageOK(j)' /\ ServerOK(j)' /\ ClientOK(j)'
  BY <1>13, <1>16, <1>17, <1>18, <1>19, OthersKeep
<1>21. ThreadInv'
  <2>1. stolen \subseteq Conns
    BY <1>0 DEF TypeOK
  <2> QED BY <1>0, <1>1, <1>3, <1>12, <2>1 DEF ThreadInv
<1> QED BY <1>11, <1>14, <1>15, <1>20, <1>21 DEF IInv

-----------------------------------------------------------------------------
RpmaEvents == {"RPMA_CONN_ESTABLISHED", "RPMA_CONN_LOST", "RPMA_CONN_CLOSED",
               "RPMA_CONN_REJECTED", "RPMA_CONN_UNREACHABLE"}

(* rpma_conn_next_event() reports RPMA_CONN_ESTABLISHED for ESTABLISHED    *)
(* events only, and events of the API only.                                *)
LEMMA ConnEventIs ==
  ASSUME NEW t \in CmTypes
  PROVE  /\ ConnEvent(t) = "RPMA_CONN_ESTABLISHED" <=> t = "ESTABLISHED"
         /\ ConnEvent(t) \in RpmaEvents \cup {"RPMA_E_UNKNOWN"}
         /\ "RPMA_E_UNKNOWN" \notin RpmaEvents
BY DEF ConnEvent, CmTypes, RpmaEvents

(* What an end has seen after one more event.                              *)
LEMMA SawAppend ==
  ASSUME NEW s \in Seq(RpmaEvents), NEW x \in RpmaEvents, NEW y
  PROVE  (\E i \in DOMAIN Append(s, x) : Append(s, x)[i] = y) <=> (\E i \in DOMAIN s : s[i] = y) \/ y = x
<1>1. DOMAIN s = 1..Len(s) /\ Len(s) \in Nat
  BY SMT
<1>2. DOMAIN Append(s, x) = 1..(Len(s) + 1) /\ Append(s, x)[Len(s) + 1] = x /\ \A i \in 1..Len(s) : Append(s, x)[i] = s[i]
  BY SMT
<1> QED BY SMT, <1>1, <1>2

(* The queue of an end after it has taken an event.                        *)
LEMMA EventTaken ==
  ASSUME TypeOK, NEW e \in Ends, evq[e] # <<>>, evq' = [evq EXCEPT ![e] = Tail(evq[e])]
  PROVE  /\ evq' \in [Ends -> Seq(CmEvents)]
         /\ \A a \in Ends : NoNewEvents(a)
         /\ 1 \in DOMAIN evq[e] /\ Head(evq[e]) = evq[e][1] /\ Head(evq[e]) \in CmEvents
<1>1. evq \in [Ends -> Seq(CmEvents)]
  BY DEF TypeOK
<1>2. evq[e] \in Seq(CmEvents)
  BY <1>1
<1>3. /\ Tail(evq[e]) \in Seq(CmEvents) /\ 1 \in DOMAIN evq[e] /\ Head(evq[e]) = evq[e][1] /\ Head(evq[e]) \in CmEvents
      /\ \A i \in DOMAIN Tail(evq[e]) : i + 1 \in DOMAIN evq[e] /\ Tail(evq[e])[i] = evq[e][i + 1]
  BY SMT, <1>2
<1>4. evq' \in [Ends -> Seq(CmEvents)]
  BY <1>1, <1>3
<1>5. ASSUME NEW a \in Ends PROVE NoNewEvents(a)
  <2>1. CASE a = e
    <3>1. evq'[a] = Tail(evq[a])
      BY <1>1, <2>1
    <3>2. \A i \in DOMAIN Tail(evq[a]) : i + 1 \in DOMAIN evq[a] /\ Tail(evq[a])[i] = evq[a][i + 1]
      BY <1>3, <2>1
    <3> QED BY <3>1, <3>2 DEF NoNewEvents
  <2>2. CASE a # e
    <3>1. evq'[a] = evq[a]
      BY <1>1, <2>2
    <3> QED BY <3>1 DEF NoNewEvents
  <2> QED BY <2>1, <2>2
<1> QED BY <1>3, <1>4, <1>5

(* What is left when an end takes an event: its own data, what it has seen *)
(* and whether it has failed are to be checked.                            *)
LEMMA TakeKeeps ==
  ASSUME IInv, TypeOK', NEW k \in Conns, NEW e \in {Client(k), Server(k)}, conn[e] = "open",
         UNCHANGED <<cm, sent, epq, main, srv, idAt, conn, stolen>>,
         \A a \in Ends : NoNewEvents(a),
         \A a \in Ends \ {e} : data'[a] = data[a] /\ seen'[a] = seen[a] /\ (a \in failed' <=> a \in failed),
         e = Client(k) =>
            /\ srv[k] \in {"none", "request"} => data'[e] = None /\ ~Saw(e, "RPMA_CONN_ESTABLISHED")'
            /\ data'[e] \in {None, sent[Server(k)]}
            /\ e \notin failed' /\ Saw(e, "RPMA_CONN_ESTABLISHED")' => data'[e] = sent[Server(k)],
         e = Server(k) =>
            /\ data'[e] \in {None, sent[Client(k)]}
            /\ e \notin failed' => data'[e] = sent[Client(k)]
  PROVE  IInv'
<1>0. ThreadInv /\ StageOK(k) /\ ServerOK(k) /\ ClientOK(k) /\ EpInv /\ OnceInv
  BY DEF IInv
<1>1. Client(k) \in Ends /\ Server(k) \in Ends /\ Client(k) # Server(k)
  BY EndsDiffer
<1>2. Elsewhere(k)
  <2> SUFFICES ASSUME NEW j \in Conns \ {k}, NEW a \in {Client(j), Server(j)}
               PROVE  data'[a] = data[a] /\ seen'[a] = seen[a] /\ (a \in failed' <=> a \in failed)
    BY DEF Elsewhere
  <2>1. a \in Ends \ {e}
    BY SMT, EndsDiffer
  <2> QED BY <2>1
<1>3. EpInv' /\ OnceInv'
  <2>1. EpInv'
    BY <1>0 DEF EpInv, EpEventOK
  <2>2. OnceInv'
    BY ZenonT(30), <1>0 DEF OnceInv, Request
  <2> QED BY <2>1, <2>2
<1>4. StageOK(k)'
  BY <1>0 DEF StageOK
<1>5. ServerOK(k)'
  <2>1. \A i \in DOMAIN evq'[Server(k)] : \E h \in DOMAIN evq[Server(k)] : evq'[Server(k)][i] = evq[Server(k)][h]
    BY <1>1 DEF NoNewEvents
  <2>2. CASE e = Server(k)
    BY SMTT(30), <1>0, <2>1, <2>2 DEF ServerOK, StageOK
  <2>3. CASE e = Client(k)
    <3>1. data'[Server(k)] = data[Server(k)] /\ (Server(k) \in failed' <=> Server(k) \in failed)
      BY <1>1, <2>3
    <3> QED BY SMT, <1>0, <2>1, <3>1 DEF ServerOK
  <2> QED BY <2>2, <2>3
<1>6. ClientOK(k)'
  <2>1. \A i \in DOMAIN evq'[Client(k)] : \E h \in DOMAIN evq[Client(k)] : evq'[Client(k)][i] = evq[Client(k)][h]
    BY <1>1 DEF NoNewEvents
  <2>2. CASE e = Client(k)
    BY ZenonT(30), <1>0, <2>1, <2>2 DEF ClientOK
  <2>3. CASE e = Server(k)
    <3>1. data'[Client(k)] = data[Client(k)] /\ seen'[Client(k)] = seen[Client(k)] /\ (Client(k) \in failed' <=> Client(k) \in failed)
      BY <1>1, <2>3
    <3> QED BY SMT, <1>0, <2>1, <3>1 DEF ClientOK, Saw
  <2> QED BY <2>2, <2>3
<1>7. \A j \in Conns : StageOK(j)' /\ ServerOK(j)' /\ ClientOK(j)'
  <2>1. \A j \in Conns : NoNewEvents(Client(j)) /\ NoNewEvents(Server(j))
    BY EndsDiffer
  <2> QED BY <1>2, <1>4, <1>5, <1>6, <2>1, OthersKeep
<1>8. ThreadInv'
  BY <1>0 DEF ThreadInv, InHand
<1> QED BY <1>3, <1>7, <1>8 DEF IInv

(* rpma_conn_next_event(): the client's ESTABLISHED event brings the data  *)
(* of the server, the server's brings none.                                *)
LEMMA NextEventKeeps ==
  ASSUME IInv, NEW e \in Ends, NextEvent(e)
  PROVE  IInv'
<1> DEFINE ev == Head(evq[e])
           event == ConnEvent(ev.type)
<1>0. TypeOK
  BY DEF IInv
<1>1. /\ UNCHANGED <<cm, sent, extra, tw, epq, idAt, epOpen, main, srv, conn, failed, stolen>>
      /\ conn[e] = "open" /\ evq[e] # <<>>
      /\ evq' = [evq EXCEPT ![e] = Tail(evq[e])]
      /\ data' = IF Stores(e, ev) THEN [data EXCEPT ![e] = ev.pdata] ELSE data
      /\ seen' = IF event = "RPMA_E_UNKNOWN" THEN seen ELSE [seen EXCEPT ![e] = Append(seen[e], event)]
  BY <1>0 DEF NextEvent, server, TypeOK
<1>2. PICK k \in Conns : e \in {Client(k), Server(k)}
  BY SMT, EndsDiffer
<1>3. StageOK(k) /\ ServerOK(k) /\ ClientOK(k)
  BY DEF IInv
<1>4. /\ evq' \in [Ends -> Seq(CmEvents)] /\ \A a \in Ends : NoNewEvents(a)
      /\ 1 \in DOMAIN evq[e] /\ ev = evq[e][1] /\ ev \in CmEvents
  BY <1>0, <1>1, EventTaken
<1> HIDE DEF ev
<1>5. ev.type \in CmTypes /\ ev.pdata \in Ends \cup {None}
  BY <1>4 DEF CmEvents
<1>6. /\ event = "RPMA_CONN_ESTABLISHED" <=> ev.type = "ESTABLISHED"
      /\ event \in RpmaEvents \cup {"RPMA_E_UNKNOWN"}
      /\ "RPMA_E_UNKNOWN" \notin RpmaEvents
  BY <1>5, ConnEventIs
<1> HIDE DEF event
<1>7. data \in [Ends -> Ends \cup {None}] /\ seen \in [Ends -> Seq(RpmaEvents)]
  BY <1>0 DEF TypeOK, RpmaEvents
<1>8. /\ data' \in [Ends -> Ends \cup {None}] /\ \A a \in Ends \ {e} : data'[a] = data[a]
      /\ data'[e] = IF Stores(e, ev) THEN ev.pdata ELSE data[e]
  BY <1>1, <1>5, <1>7
<1>9. seen' \in [Ends -> Seq(RpmaEvents)] /\ \A a \in Ends \ {e} : seen'[a] = seen[a]
  <2>1. event \in RpmaEvents => Append(seen[e], event) \in Seq(RpmaEvents)
    BY SMT, <1>7
  <2> QED BY <1>1, <1>6, <1>7, <2>1
<1>10. Saw(e, "RPMA_CONN_ESTABLISHED")' <=> Saw(e, "RPMA_CONN_ESTABLISHED") \/ ev.type = "ESTABLISHED"
  <2>1. CASE event = "RPMA_E_UNKNOWN"
    BY <1>1, <1>6, <2>1 DEF Saw
  <2>2. CASE event \in RpmaEvents
    <3>1. seen'[e] = Append(seen[e], event) /\ seen[e] \in Seq(RpmaEvents)
      BY <1>1, <1>6, <1>7, <2>2
    <3>2. (\E i \in DOMAIN Append(seen[e], event) : Append(seen[e], event)[i] = "RPMA_CONN_ESTABLISHED")
             <=> Saw(e, "RPMA_CONN_ESTABLISHED") \/ "RPMA_CONN_ESTABLISHED" = event
      BY SMTT(30), <2>2, <3>1, SawAppend DEF Saw
    <3> QED BY <1>6, <3>1, <3>2 DEF Saw
  <2> QED BY <1>6, <2>1, <2>2
<1>11. TypeOK'
  BY <1>0, <1>1, <1>4, <1>8, <1>9 DEF TypeOK, RpmaEvents
<1>12. e = Client(k) =>
            /\ srv[k] \in {"none", "request"} => data'[e] = None /\ ~Saw(e, "RPMA_CONN_ESTABLISHED")'
            /\ data'[e] \in {None, sent[Server(k)]}
            /\ e \notin failed' /\ Saw(e, "RPMA_CONN_ESTABLISHED")' => data'[e] = sent[Server(k)]
  <2> SUFFICES ASSUME e = Client(k)
               PROVE  /\ srv[k] \in {"none", "request"} => data'[e] = None /\ ~Saw(e, "RPMA_CONN_ESTABLISHED")'
                      /\ data'[e] \in {None, sent[Server(k)]}
                      /\ e \notin failed' /\ Saw(e, "RPMA_CONN_ESTABLISHED")' => data'[e] = sent[Server(k)]
    OBVIOUS
  <2>1. ev.type = "ESTABLISHED" => srv[k] \notin {"none", "request"} /\ ev.pdata = sent[Server(k)]
    BY <1>3, <1>4 DEF ClientOK
  <2>2. /\ srv[k] \in {"none", "request"} => data[e] = None /\ ~Saw(e, "RPMA_CONN_ESTABLISHED")
        /\ data[e] \in {None, sent[Server(k)]}
        /\ e \notin failed /\ Saw(e, "RPMA_CONN_ESTABLISHED") => data[e] = sent[Server(k)]
    BY <1>1, <1>3 DEF ClientOK
  <2> QED BY <1>1, <1>8, <1>10, <2>1, <2>2 DEF Stores
<1>13. e = Server(k) =>
            /\ data'[e] \in {None, sent[Client(k)]}
            /\ e \notin failed' => data'[e] = sent[Client(k)]
  BY <1>1, <1>3, <1>4, <1>8 DEF ServerOK, Stores
<1>14. \A a \in Ends \ {e} : data'[a] = data[a] /\ seen'[a] = seen[a] /\ (a \in failed' <=> a \in failed)
  BY <1>1, <1>8, <1>9
<1> QED BY <1>1, <1>2, <1>4, <1>11, <1>12, <1>13, <1>14, TakeKeeps

(* rpma_conn_next_event() fails: the end has failed from then on.          *)
LEMMA NextEventFailsKeeps ==
  ASSUME IInv, NEW e \in Ends, NextEventFails(e)
  PROVE  IInv'
<1>0. TypeOK
  BY DEF IInv
<1>1. /\ UNCHANGED <<cm, sent, extra, tw, epq, idAt, epOpen, main, srv, conn, seen, stolen>>
      /\ conn[e] = "open" /\ evq[e] # <<>>
      /\ evq' = [evq EXCEPT ![e] = Tail(evq[e])]
      /\ data' = data \/ data' = [data EXCEPT ![e] = None]
      /\ failed' = failed \cup {e}
  BY <1>0 DEF NextEventFails, server, TypeOK
<1>2. PICK k \in Conns : e \in {Client(k), Server(k)}
  BY SMT, EndsDiffer
<1>3. StageOK(k) /\ ServerOK(k) /\ ClientOK(k)
  BY DEF IInv
<1>4. evq' \in [Ends -> Seq(CmEvents)] /\ \A a \in Ends : NoNewEvents(a)
  BY <1>0, <1>1, EventTaken
<1>5. data \in [Ends -> Ends \cup {None}]
  BY <1>0 DEF TypeOK
<1>6. /\ data' \in [Ends -> Ends \cup {None}] /\ (data'[e] = data[e] \/ data'[e] = None)
      /\ \A a \in Ends \ {e} : data'[a] = data[a] /\ seen'[a] = seen[a] /\ (a \in failed' <=> a \in failed)
  BY <1>1, <1>5
<1>7. TypeOK'
  BY <1>0, <1>1, <1>4, <1>6 DEF TypeOK
<1>8. Saw(e, "RPMA_CONN_ESTABLISHED")' <=> Saw(e, "RPMA_CONN_ESTABLISHED")
  BY <1>1 DEF Saw
<1>9. e \in failed'
  BY <1>1
<1>10. e = Client(k) =>
            /\ srv[k] \in {"none", "request"} => data'[e] = None /\ ~Saw(e, "RPMA_CONN_ESTABLISHED")'
            /\ data'[e] \in {None, sent[Server(k)]}
            /\ e \notin failed' /\ Saw(e, "RPMA_CONN_ESTABLISHED")' => data'[e] = sent[Server(k)]
  BY <1>1, <1>3, <1>6, <1>8, <1>9 DEF ClientOK
<1>11. e = Server(k) =>
            /\ data'[e] \in {None, sent[Client(k)]}
            /\ e \notin failed' => data'[e] = sent[Client(k)]
  BY <1>1, <1>3, <1>6, <1>9 DEF ServerOK
<1> QED BY <1>1, <1>2, <1>4, <1>6, <1>7, <1>10, <1>11, TakeKeeps

(* rpma_conn_delete() of the client: the server hears of it where its CM   *)
(* ID is.                                                                  *)
LEMMA ClientDeleteKeeps ==
  ASSUME IInv, NEW k \in Conns, ConnDelete(Client(k))
  PROVE  IInv'
<1> DEFINE e == Client(k)
           p == Server(k)
<1>0. TypeOK /\ ThreadInv /\ StageOK(k) /\ ServerOK(k) /\ ClientOK(k)
  BY DEF IInv
<1>1. e \in Ends /\ p \in Ends /\ e # p /\ e[1] = k /\ Peer(e) = p
  BY EndsDiffer
<1>2. PICK tell : /\ AtMostOne(tell, Plain)
                  /\ evq' = [evq EXCEPT ![e] = <<>>,
                                        ![p] = IF conn[p] = "open" \/ idAt[k] = "own" THEN evq[p] \o tell ELSE evq[p]]
                  /\ epq' = IF idAt[k] = "ep" THEN epq \o [i \in DOMAIN tell |-> [k |-> k, ev |-> tell[i]]] ELSE epq
  <2> DEFINE tell == CASE cm[k] = "established" \/ (cm[k] = "confirming" /\ e = Client(k)) -> Ev("DISCONNECTED")
                       [] cm[k] \in {"accepted", "confirming"} /\ e = Server(k) -> Ev("REJECTED")
                       [] OTHER -> <<>>
  <2>1. AtMostOne(Ev("DISCONNECTED"), Plain) /\ AtMostOne(Ev("REJECTED"), Plain) /\ AtMostOne(<<>>, Plain)
    BY PlainIs DEF CmTypes
  <2>2. AtMostOne(tell, Plain)
    BY <1>1, <2>1
  <2>3. /\ evq' = [evq EXCEPT ![e] = <<>>,
                              ![p] = IF conn[p] = "open" \/ idAt[k] = "own" THEN evq[p] \o tell ELSE evq[p]]
        /\ epq' = IF idAt[k] = "ep" THEN epq \o [i \in DOMAIN tell |-> [k |-> k, ev |-> tell[i]]] ELSE epq
    BY <1>0, <1>1 DEF ConnDelete, TypeOK
  <2> QED BY <2>2, <2>3
<1>3. /\ UNCHANGED <<sent, extra, epOpen, main, srv, seen, failed, stolen>>
      /\ conn[e] = "open" /\ conn' = [conn EXCEPT ![e] = "deleted"] /\ data' = [data EXCEPT ![e] = None]
      /\ cm' = [cm EXCEPT ![k] = IF cm[k] = "accepted" THEN "unheard" ELSE "dead"]
      /\ tw' = tw \ {e} /\ idAt' = [idAt EXCEPT ![k] = idAt[k]]
  BY <1>0, <1>1 DEF ConnDelete, TypeOK, server
<1>4. evq \in [Ends -> Seq(CmEvents)] /\ epq \in Seq(EpEvents) /\ Plain \in SUBSET CmEvents
  BY <1>0, PlainIs DEF TypeOK
<1>5. Posted(k, Plain, Plain, idAt[k])
  <2> DEFINE es == Tagged(k, tell)
             pq == IF conn[p] = "open" \/ idAt[k] = "own" THEN evq[p] \o tell ELSE evq[p]
  <2>0. evq[p] \in Seq(CmEvents) /\ <<>> \in Seq(CmEvents)
    BY SMT, <1>1, <1>4
  <2>1. pq \in Seq(CmEvents) /\ \A i \in DOMAIN pq : (i \in DOMAIN evq[p] /\ pq[i] = evq[p][i]) \/ pq[i] \in Plain
    <3> HIDE DEF p
    <3>1. /\ evq[p] \o tell \in Seq(CmEvents)
          /\ \A i \in DOMAIN (evq[p] \o tell) : \/ i \in DOMAIN evq[p] /\ (evq[p] \o tell)[i] = evq[p][i]
                                                \/ i \notin DOMAIN evq[p] /\ (evq[p] \o tell)[i] \in Plain
      BY <1>2, <1>4, <2>0, AppendOne
    <3> QED BY <2>0, <3>1
  <2>2. /\ epq \o es \in Seq(EpEvents)
        /\ \A i \in DOMAIN (epq \o es) : \/ i \in DOMAIN epq /\ (epq \o es)[i] = epq[i]
                                         \/ /\ i \notin DOMAIN epq
                                            /\ (epq \o es)[i].k = k /\ (epq \o es)[i].ev \in Plain
    BY <1>2, <1>4, EpAppend
  <2>3. epq' = (IF idAt[k] = "ep" THEN epq \o es ELSE epq) /\ evq' = [evq EXCEPT ![e] = <<>>, ![p] = pq]
    BY <1>2 DEF Tagged
  <2> HIDE DEF es, pq, e, p
  <2>4. evq'[e] = <<>> /\ evq'[p] = pq /\ \A a \in Ends \ {e, p} : evq'[a] = evq[a]
    BY <1>1, <1>4, <2>3
  <2>5. evq' \in [Ends -> Seq(CmEvents)] /\ epq' \in Seq(EpEvents)
    BY <1>1, <1>4, <2>0, <2>1, <2>2, <2>3
  <2>6. \A a \in Ends : \A i \in DOMAIN evq'[a] :
          \/ i \in DOMAIN evq[a] /\ evq'[a][i] = evq[a][i]
          \/ a = p /\ evq'[a][i] \in Plain
    BY SMT, <2>1, <2>4
  <2>7. \A i \in DOMAIN epq' :
          \/ i \in DOMAIN epq /\ epq'[i] = epq[i]
          \/ idAt[k] = "ep" /\ i \notin DOMAIN epq /\ epq'[i].k = k /\ epq'[i].ev \in Plain
    BY <2>2, <2>3
  <2> QED BY <2>5, <2>6, <2>7 DEF Posted, p
<1>6. /\ cm'[k] \in {"unheard", "dead"} /\ (cm'[k] = "unheard" => cm[k] = "accepted")
      /\ idAt' = idAt /\ conn'[e] = "deleted" /\ data'[e] = None
      /\ \A j \in Conns \ {k} : cm'[j] = cm[j]
      /\ \A a \in Ends \ {e} : conn'[a] = conn[a] /\ data'[a] = data[a]
  BY <1>0, <1>1, <1>3 DEF TypeOK
<1>7. TypeOK'
  BY <1>0, <1>1, <1>3, <1>5, <1>6 DEF TypeOK, Posted
<1>8. Elsewhere(k)
  <2> SUFFICES ASSUME NEW j \in Conns \ {k}, NEW a \in {Client(j), Server(j)}
               PROVE  conn'[a] = conn[a] /\ data'[a] = data[a]
    BY <1>3, <1>6 DEF Elsewhere
  <2>1. a \in Ends \ {e}
    BY SMT, EndsDiffer
  <2> QED BY <1>6, <2>1
<1>9. EpInv' /\ OnceInv'
  <2>1. ForServer(k, Plain)
    BY PlainIs
  <2>2. idAt[k] = "ep" => cm'[k] \notin {"none", "requested"} /\ srv'[k] \notin {"migrated", "returned"}
    BY <1>0, <1>3, <1>6 DEF StageOK
  <2>3. /\ cm'[k] = cm[k] \/ cm'[k] \notin {"none", "requested"}
        /\ srv'[k] = srv[k] /\ sent'[Client(k)] = sent[Client(k)] /\ main' = main
    BY <1>3, <1>6
  <2> QED BY <1>5, <1>7, <1>8, <2>1, <2>2, <2>3, EpKeeps
<1>10. StageOK(k)'
  BY <1>0, <1>1, <1>3, <1>6 DEF StageOK
<1>11. ServerOK(k)'
  <2>1. \A i \in DOMAIN evq'[Server(k)] :
          \/ i \in DOMAIN evq[Server(k)] /\ evq'[Server(k)][i] = evq[Server(k)][i]
          \/ evq'[Server(k)][i] \in Plain
    BY <1>1, <1>5 DEF Posted
  <2>2. \A x \in Plain : x.type # "ESTABLISHED"
    BY DEF Plain
  <2>3. conn'[p] = conn[p] /\ data'[p] = data[p]
    BY <1>1, <1>6
  <2> QED BY <1>0, <1>3, <2>1, <2>2, <2>3 DEF ServerOK
<1>12. ClientOK(k)'
  <2>1. evq'[e] = <<>>
    BY <1>1, <1>2, <1>4
  <2>2. seen'[e] = seen[e]
    BY <1>3
  <2> QED BY SMT, <1>0, <1>3, <1>6, <2>1, <2>2 DEF ClientOK, Saw
<1>13. \A j \in Conns : StageOK(j)' /\ ServerOK(j)' /\ ClientOK(j)'
  BY <1>5, <1>8, <1>10, <1>11, <1>12, OthersKeep, PostedElsewhere
<1>14. ThreadInv'
  BY <1>0, <1>3 DEF ThreadInv, InHand
<1> QED BY <1>7, <1>9, <1>13, <1>14 DEF IInv

(* rpma_conn_delete() of the server: the endpoint's channel has nothing of *)
(* the connection.                                                         *)
LEMMA ServerDeleteKeeps ==
  ASSUME IInv, NEW k \in Conns, ConnDelete(Server(k))
  PROVE  IInv'
<1> DEFINE e == Server(k)
           p == Client(k)
<1>0. TypeOK /\ ThreadInv /\ StageOK(k) /\ ServerOK(k) /\ ClientOK(k) /\ EpInv
  BY DEF IInv
<1>1. e \in Ends /\ p \in Ends /\ e # p /\ e[1] = k /\ Peer(e) = p
  BY EndsDiffer
<1>2. PICK tell : /\ AtMostOne(tell, Plain)
                  /\ evq' = [evq EXCEPT ![e] = <<>>, ![p] = IF conn[p] = "open" THEN evq[p] \o tell ELSE evq[p]]
  <2> DEFINE tell == CASE cm[k] = "established" \/ (cm[k] = "confirming" /\ e = Client(k)) -> Ev("DISCONNECTED")
                       [] cm[k] \in {"accepted", "confirming"} /\ e = Server(k) -> Ev("REJECTED")
                       [] OTHER -> <<>>
  <2>1. AtMostOne(Ev("DISCONNECTED"), Plain) /\ AtMostOne(Ev("REJECTED"), Plain) /\ AtMostOne(<<>>, Plain)
    BY PlainIs DEF CmTypes
  <2>2. AtMostOne(tell, Plain)
    BY <1>1, <2>1
  <2>3. evq' = [evq EXCEPT ![e] = <<>>, ![p] = IF conn[p] = "open" THEN evq[p] \o tell ELSE evq[p]]
    BY <1>0, <1>1 DEF ConnDelete, TypeOK
  <2> HIDE DEF tell
  <2> QED BY <2>2, <2>3
<1>3. /\ UNCHANGED <<sent, extra, epOpen, main, srv, seen, failed, stolen>>
      /\ conn[e] = "open" /\ conn' = [conn EXCEPT ![e] = "deleted"] /\ data' = [data EXCEPT ![e] = None]
      /\ cm' = [cm EXCEPT ![k] = "dead"]
      /\ tw' = tw \ {e} /\ idAt' = [idAt EXCEPT ![k] = "none"] /\ epq' = epq
  BY <1>0, <1>1 DEF ConnDelete, TypeOK, server
<1>4. evq \in [Ends -> Seq(CmEvents)] /\ epq \in Seq(EpEvents) /\ Plain \in SUBSET CmEvents
  BY <1>0, PlainIs DEF TypeOK
<1>5. Posted(k, Plain, Plain, "none")
  <2> DEFINE pq == IF conn[p] = "open" THEN evq[p] \o tell ELSE evq[p]
  <2>0. evq[p] \in Seq(CmEvents) /\ <<>> \in Seq(CmEvents)
    BY SMT, <1>1, <1>4
  <2>1. pq \in Seq(CmEvents) /\ \A i \in DOMAIN pq : (i \in DOMAIN evq[p] /\ pq[i] = evq[p][i]) \/ pq[i] \in Plain
    <3> HIDE DEF p
    <3>1. /\ evq[p] \o tell \in Seq(CmEvents)
          /\ \A i \in DOMAIN (evq[p] \o tell) : \/ i \in DOMAIN evq[p] /\ (evq[p] \o tell)[i] = evq[p][i]
                                                \/ i \notin DOMAIN evq[p] /\ (evq[p] \o tell)[i] \in Plain
      BY <1>2, <1>4, <2>0, AppendOne
    <3> QED BY <2>0, <3>1
  <2>3. evq' = [evq EXCEPT ![e] = <<>>, ![p] = pq]
    BY <1>2
  <2> HIDE DEF pq, e, p
  <2>4. evq'[e] = <<>> /\ evq'[p] = pq /\ \A a \in Ends \ {e, p} : evq'[a] = evq[a]
    BY <1>1, <1>4, <2>3
  <2>5. evq' \in [Ends -> Seq(CmEvents)] /\ epq' \in Seq(EpEvents)
    BY <1>1, <1>3, <1>4, <2>0, <2>1, <2>3
  <2>6. \A a \in Ends : \A i \in DOMAIN evq'[a] :
          \/ i \in DOMAIN evq[a] /\ evq'[a][i] = evq[a][i]
          \/ a = p /\ evq'[a][i] \in Plain
    BY SMT, <2>1, <2>4
  <2> QED BY <1>3, <2>5, <2>6 DEF Posted, p
<1>6. /\ cm'[k] = "dead" /\ idAt'[k] = "none" /\ conn'[e] = "deleted" /\ data'[e] = None
      /\ \A j \in Conns \ {k} : cm'[j] = cm[j] /\ idAt'[j] = idAt[j]
      /\ \A a \in Ends \ {e} : conn'[a] = conn[a] /\ data'[a] = data[a]
  BY <1>0, <1>1, <1>3 DEF TypeOK
<1>7. TypeOK'
  BY <1>0, <1>1, <1>3, <1>5, <1>6 DEF TypeOK, Posted
<1>8. Elsewhere(k)
  <2> SUFFICES ASSUME NEW j \in Conns \ {k}, NEW a \in {Client(j), Server(j)}
               PROVE  conn'[a] = conn[a] /\ data'[a] = data[a]
    BY <1>3, <1>6 DEF Elsewhere
  <2>1. a \in Ends \ {e}
    BY SMT, EndsDiffer
  <2> QED BY <1>6, <2>1
<1>9. srv[k] = "returned"
  BY <1>0, <1>3 DEF StageOK
<1>10. EpInv' /\ OnceInv'
  <2>1. (\A i \in DOMAIN epq : epq[i].k # k) /\ (main # None => main.k # k)
    BY <1>0, <1>9 DEF EpInv, EpEventOK
  <2> QED BY <1>3, <1>8, <2>1, EpUntouched
<1>11. StageOK(k)'
  BY <1>3, <1>6, <1>9 DEF StageOK
<1>12. ServerOK(k)'
  <2>1. evq'[e] = <<>>
    BY <1>1, <1>2, <1>4
  <2> QED BY SMT, <1>3, <1>6, <1>9, <2>1 DEF ServerOK
<1>13. ClientOK(k)'
  <2>1. \A i \in DOMAIN evq'[Client(k)] :
          \/ i \in DOMAIN evq[Client(k)] /\ evq'[Client(k)][i] = evq[Client(k)][i]
          \/ evq'[Client(k)][i] \in Plain
    BY <1>1, <1>5 DEF Posted
  <2>2. \A x \in Plain : x.type # "ESTABLISHED"
    BY DEF Plain
  <2>3. conn'[p] = conn[p] /\ data'[p] = data[p]
    BY <1>1, <1>6
  <2> QED BY <1>0, <1>3, <2>1, <2>2, <2>3 DEF ClientOK, Saw
<1>14. \A j \in Conns : StageOK(j)' /\ ServerOK(j)' /\ ClientOK(j)'
  BY <1>5, <1>8, <1>11, <1>12, <1>13, OthersKeep, PostedElsewhere
<1>15. ThreadInv'
  BY <1>0, <1>3 DEF ThreadInv, InHand
<1> QED BY <1>7, <1>10, <1>14, <1>15 DEF IInv

(* rpma_ep_shutdown(): what is left on the endpoint's channel is of no     *)
(* open connection.                                                        *)
LEMMA ShutdownKeeps ==
  ASSUME IInv, Shutdown
  PROVE  IInv'
<1>0. TypeOK /\ EpInv /\ OnceInv /\ ThreadInv
  BY DEF IInv
<1>1. /\ UNCHANGED <<sent, extra, main, srv, conn, data, seen, failed, stolen>>
      /\ epOpen' = FALSE /\ epq' = <<>> /\ main = None /\ tw' \subseteq tw
  BY DEF Shutdown, ends
<1>2. \A k \in Conns : /\ idAt[k] = "ep" => cm'[k] = "dead" /\ idAt'[k] = "none"
                       /\ idAt[k] # "ep" => cm'[k] = cm[k] /\ idAt'[k] = idAt[k]
  BY DEF Shutdown
<1>3. \A k \in Conns : AtMostOne(Farewell(k), Plain)
  <2> SUFFICES ASSUME NEW k \in Conns PROVE AtMostOne(Farewell(k), Plain)
    OBVIOUS
  <2>1. AtMostOne(Ev("DISCONNECTED"), Plain) /\ AtMostOne(Ev("REJECTED"), Plain) /\ AtMostOne(<<>>, Plain)
    BY PlainIs DEF CmTypes
  <2> QED BY <2>1 DEF Farewell
<1>4. \A e \in Ends :
         /\ evq'[e] \in Seq(CmEvents)
         /\ \A i \in DOMAIN evq'[e] : \/ i \in DOMAIN evq[e] /\ evq'[e][i] = evq[e][i]
                                      \/ e[2] = "client" /\ evq'[e][i] \in Plain
  <2> TAKE e \in Ends
  <2>1. evq[e] \in Seq(CmEvents) /\ e[1] \in Conns /\ Plain \in SUBSET CmEvents
    BY <1>0, EndsDiffer, PlainIs DEF TypeOK
  <2>2. /\ evq[e] \o Farewell(e[1]) \in Seq(CmEvents)
        /\ \A i \in DOMAIN (evq[e] \o Farewell(e[1])) :
              \/ i \in DOMAIN evq[e] /\ (evq[e] \o Farewell(e[1]))[i] = evq[e][i]
              \/ i \notin DOMAIN evq[e] /\ (evq[e] \o Farewell(e[1]))[i] \in Plain
    BY <1>3, <2>1, AppendOne
  <2>3. evq'[e] = evq[e] \/ (e[2] = "client" /\ evq'[e] = evq[e] \o Farewell(e[1]))
    BY DEF Shutdown
  <2> QED BY <2>1, <2>2, <2>3
<1>5. TypeOK'
  <2>1. evq' \in [Ends -> Seq(CmEvents)]
    <3>1. evq' = [e \in Ends |-> evq'[e]]
      BY DEF Shutdown
    <3> QED BY <1>4, <3>1
  <2>2. /\ cm' \in [Conns -> {"none", "requested", "arrived", "accepted", "unheard", "confirming",
                              "established", "closed", "dead"}]
        /\ idAt' \in [Conns -> {"none", "ep", "own"}]
    BY <1>0 DEF Shutdown, TypeOK
  <2>3. epq' \in Seq(EpEvents)
    BY SMT, <1>1
  <2> QED BY <1>0, <1>1, <2>1, <2>2, <2>3 DEF TypeOK
<1>6. EpInv' /\ OnceInv' /\ ThreadInv'
  <2>1. DOMAIN epq' = {}
    BY SMT, <1>1
  <2> QED BY <1>0, <1>1, <2>1 DEF EpInv, OnceInv, ThreadInv, InHand
<1>7. ASSUME NEW k \in Conns PROVE StageOK(k)' /\ ServerOK(k)' /\ ClientOK(k)'
  <2>0. StageOK(k) /\ ServerOK(k) /\ ClientOK(k)
    BY DEF IInv
  <2>1. Client(k) \in Ends /\ Server(k) \in Ends /\ Server(k)[2] # "client"
    BY SMT, EndsDiffer
  <2>2. \A x \in Plain : x.type # "ESTABLISHED"
    BY DEF Plain
  <2>3. StageOK(k)'
    <3>0. srv'[k] = srv[k] /\ conn'[Server(k)] = conn[Server(k)]
      BY <1>1
    <3>1. CASE idAt[k] = "ep"
      <4>1. cm'[k] = "dead" /\ idAt'[k] = "none"
        BY <1>2, <3>1
      <4> QED BY <2>0, <3>0, <3>1, <4>1 DEF StageOK
    <3>2. CASE idAt[k] # "ep"
      <4>1. cm'[k] = cm[k] /\ idAt'[k] = idAt[k]
        BY <1>2, <3>2
      <4> QED BY <2>0, <3>0, <4>1 DEF StageOK
    <3> QED BY <3>1, <3>2
  <2>4. ServerOK(k)'
    BY <1>1, <1>4, <2>0, <2>1 DEF ServerOK
  <2>5. ClientOK(k)'
    BY <1>1, <1>4, <2>0, <2>1, <2>2 DEF ClientOK, Saw
  <2> QED BY <2>3, <2>4, <2>5
<1> QED BY <1>5, <1>6, <1>7 DEF IInv

-----------------------------------------------------------------------------
(* Every step of the program and of the connection manager keeps the       *)
(* inductive invariant.                                                    *)
LEMMA NextInv == IInv /\ [Next]_vars => IInv'
<1> SUFFICES ASSUME IInv, [Next]_vars PROVE IInv'
  OBVIOUS
<1>1. CASE UNCHANGED vars
  <2>1. UNCHANGED <<cm, sent, extra, tw, epq, epOpen, main, srv, idAt, evq, conn, data, seen, failed, stolen>>
    BY <1>1 DEF vars
  <2>2. TypeOK'
    BY <2>1 DEF IInv, TypeOK
  <2>3. EpInv' /\ OnceInv' /\ ThreadInv'
    BY ZenonT(30), <2>1 DEF IInv, EpInv, EpEventOK, OnceInv, Request, ThreadInv, InHand
  <2>4. \A j \in Conns : StageOK(j)' /\ ServerOK(j)' /\ ClientOK(j)'
    <3> TAKE j \in Conns
    <3>1. StageOK(j) /\ ServerOK(j) /\ ClientOK(j)
      BY DEF IInv
    <3>2. StageOK(j)' /\ ServerOK(j)'
      BY <2>1, <3>1 DEF StageOK, ServerOK
    <3>3. ClientOK(j)'
      BY <2>1, <3>1 DEF ClientOK, Saw
    <3> QED BY <3>2, <3>3
  <2> QED BY <2>2, <2>3, <2>4 DEF IInv
<1>2. CASE ConnectionManager
  <2>1. ASSUME NEW k \in Conns, DeliverRequest(k) PROVE IInv'
    BY <2>1, RequestKeeps, ManagerKeeps
  <2>2. ASSUME NEW k \in Conns,
               \/ Unreachable(k) \/ DeliverReply(k) \/ ConnectError(k)
               \/ DeliverConfirmation(k) \/ DeviceRemoval(k) \/ AddrChange(k)
        PROVE  IInv'
    BY <2>2, ManagerKeeps
  <2>3. ASSUME NEW e \in Ends, TimewaitExit(e) PROVE IInv'
    BY <2>3, EndStepKeeps
  <2> QED BY <1>2, <2>1, <2>2, <2>3 DEF ConnectionManager
<1>3. CASE ServerThread
  <2>1. CASE NextConnReq \/ UnexpectedEvent \/ RequestReady \/ RequestFails
    BY <2>1, NextConnReqKeeps, UnexpectedKeeps, ReadyKeeps, RequestFailsKeeps
  <2>2. ASSUME NEW k \in Conns, ReqDelete(k) \/ Migrate(k) \/ ConnReady(k) \/ ConnectFails(k) PROVE IInv'
    BY <2>2, GiveUpKeeps, MigrateKeeps, ConnReadyKeeps
  <2>3. ASSUME NEW k \in Conns, NEW d \in PData(Server(k)), Accept(k, d) PROVE IInv'
    BY <2>3, AcceptKeeps
  <2> QED BY <1>3, <2>1, <2>2, <2>3 DEF ServerThread
<1>4. CASE Shutdown
  BY <1>4, ShutdownKeeps
<1>5. ASSUME NEW k \in Conns, NEW d \in PData(Client(k)), ConnectActive(k, d) PROVE IInv'
  BY <1>5, ConnectActiveKeeps
<1>6. ASSUME NEW e \in Ends, NextEvent(e) \/ NextEventFails(e) \/ Disconnect(e) PROVE IInv'
  BY <1>6, NextEventKeeps, NextEventFailsKeeps, EndStepKeeps
<1>7. ASSUME NEW e \in Ends, ConnDelete(e) PROVE IInv'
  <2>1. PICK k \in Conns : e = Client(k) \/ e = Server(k)
    BY SMT, EndsDiffer
  <2> QED BY <1>7, <2>1, ClientDeleteKeeps, ServerDeleteKeeps
<1> QED BY <1>1, <1>2, <1>3, <1>4, <1>5, <1>6, <1>7 DEF Next

(* The inductive invariant holds always: for any number of connections,    *)
(* any faults, and one thread or many at the endpoint.                     *)
THEOREM Invariance == Spec => []IInv
BY InitInv, NextInv, PTL DEF Spec

(* An open connection holds the private data its peer gave                 *)
(* rpma_conn_req_connect(), whatever fails on the way.                     *)
THEOREM DataTheorem == Spec => []DataDelivered
BY Invariance, InvImplies, PTL

(* rdma_migrate_id() in rpma_conn_new() leaves no event of a returned      *)
(* connection on the endpoint's channel, and none comes later.             *)
THEOREM OutliveTheorem == Spec => []ConnsOutliveEndpoint
BY Invariance, InvImplies, PTL

(* With one thread that connects or deletes each request before it asks    *)
(* for the next, rpma_ep_next_conn_req() takes no ESTABLISHED event of a   *)
(* connection that rpma_conn_req_connect() returns.                        *)
THEOREM OneThreadTheorem ==
  ASSUME ~Workers
  PROVE  Spec => []EstablishedReachesConnection
<1>1. IInv => EstablishedReachesConnection
  BY InvImplies
<1> QED BY <1>1, Invariance, PTL
=============================================================================
