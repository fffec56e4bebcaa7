------------------------------ MODULE MultiConn ------------------------------
(* The server of examples/06-multiple-connections and its clients.  One      *)
(* thread handles the events of an epoll instance one by one: connection     *)
(* requests of the endpoint, connection events and completions of each       *)
(* client's slot.  For each client the server reads its name into the slot's *)
(* part of one buffer, prints it and disconnects.  A handler runs to its end *)
(* before the next event is taken, so it is one action.                      *)
EXTENDS Integers, Sequences, FiniteSets

CONSTANTS
  Clients,      \* the clients; a client also stands for its connection.  The
                \*   other properties are for no more clients than slots
  None,         \* no client
  ClientMax,    \* CLIENT_MAX
  Failing       \* the clients for which library calls of the server may fail

ASSUME ClientMaxAssumption == ClientMax \in Nat \ {0} /\ None \notin Clients

VARIABLES
  reqs,         \* the clients whose connection requests are waiting
  link,         \* per client: the state of its connection in the network
  seen,         \* per client: what the client has learnt of it
  slot,         \* clients[i].conn, as the client it leads to, or None
  epoll,        \* the slots' descriptors in epoll, and whose they are
  conns,        \* the connections that the server has and not deleted
  events,       \* per connection: events not taken yet
  cqe,          \* per connection: its completion, if any
  reading,      \* per connection: the slot that its read goes to, or 0
  buf,          \* per slot: the name in its part of dst_ptr
  printed,      \* the names printed, with the clients they were printed for
  running,      \* whether the server is in its epoll loop
  ignored       \* the clients that a failed rpma_conn_disconnect left connected

vars == <<reqs, link, seen, slot, epoll, conns, events, cqe, reading, buf,
          printed, running, ignored>>

Slots == 1 .. ClientMax

Init ==
  /\ reqs = {}
  /\ link = [c \in Clients |-> "none"] /\ seen = [c \in Clients |-> "start"]
  /\ slot = [s \in Slots |-> None] /\ epoll = {} /\ conns = {}
  /\ events = [c \in Clients |-> <<>>] /\ cqe = [c \in Clients |-> "none"]
  /\ reading = [c \in Clients |-> 0] /\ buf = slot
  /\ printed = {} /\ running = TRUE /\ ignored = {}

------------------------------------------------------------------------------
(* A client asks for a connection, and waits until it is closed. *)
Request(c) ==
  /\ seen[c] = "start"
  /\ seen' = [seen EXCEPT ![c] = "asked"]
  /\ reqs' = reqs \cup {c}
  /\ UNCHANGED <<link, slot, epoll, conns, events, cqe, reading, buf, printed, running, ignored>>

(* Nobody listens any more, or the server has rejected the request. *)
Rejected(c) ==
  /\ seen[c] = "asked" /\ (link[c] = "rejected" \/ (~running /\ c \in reqs))
  /\ seen' = [seen EXCEPT ![c] = "done"]
  /\ reqs' = reqs \ {c}
  /\ UNCHANGED <<link, slot, epoll, conns, events, cqe, reading, buf, printed, running, ignored>>

Raise(c, e) == events' = [events EXCEPT ![c] = IF c \in conns THEN Append(@, e) ELSE @]

Establish(c) ==
  /\ link[c] = "accepted"
  /\ link' = [link EXCEPT ![c] = "up"]
  /\ seen' = [seen EXCEPT ![c] = "connected"]
  /\ Raise(c, "ESTABLISHED")
  /\ UNCHANGED <<reqs, slot, epoll, conns, cqe, reading, buf, printed, running, ignored>>

(* The connection ends: the client has died or the link is lost, or one end  *)
(* has disconnected.                                                         *)
Close(c) ==
  /\ link[c] \in {"accepted", "up", "closing"}
  /\ link' = [link EXCEPT ![c] = "down"]
  /\ seen' = [seen EXCEPT ![c] = "done"]
  /\ Raise(c, "CLOSED")
  /\ UNCHANGED <<reqs, slot, epoll, conns, cqe, reading, buf, printed, running, ignored>>

(* The read ends, with the client's name in the buffer if the link is up. *)
ReadEnds(c) ==
  /\ reading[c] # 0
  /\ \/ /\ link[c] = "up"
        /\ buf' = [buf EXCEPT ![reading[c]] = c]
        /\ cqe' = [cqe EXCEPT ![c] = "ok"]
     \/ /\ link[c] # "up"
        /\ cqe' = [cqe EXCEPT ![c] = "error"]
        /\ UNCHANGED buf
  /\ reading' = [reading EXCEPT ![c] = 0]
  /\ UNCHANGED <<reqs, link, seen, slot, epoll, conns, events, printed, running, ignored>>

------------------------------------------------------------------------------
(* rpma_conn_disconnect.  The server ignores its result: when it fails, the  *)
(* connection stays.                                                         *)
Connected(c) == link[c] \in {"accepted", "up"}
Disconnect(c) ==
  \/ /\ link' = [link EXCEPT ![c] = IF Connected(c) THEN "closing" ELSE @]
     /\ UNCHANGED ignored
  \/ /\ c \in Failing /\ Connected(c)
     /\ ignored' = ignored \cup {c}
     /\ UNCHANGED link

(* client_new: the first free slot -- or, when none is free, the last one:   *)
(* its loop ends with clnt at the last slot, and never returns NULL.         *)
ClientNew(s) ==
  \/ slot[s] = None /\ \A r \in 1 .. s - 1 : slot[r] # None
  \/ s = ClientMax /\ \A r \in Slots : slot[r] # None

Descriptors(s, c) == {<<s, "event", c>>, <<s, "completion", c>>}

(* client_add_to_epoll: both descriptors or, on failure, none of them and    *)
(* the connection is disconnected, if that does not fail too.  Then nobody   *)
(* takes its events before the end of the loop.                              *)
AddToEpoll(s, c) ==
  \/ /\ epoll' = epoll \cup Descriptors(s, c)
     /\ link' = [link EXCEPT ![c] = "accepted"]
     /\ UNCHANGED ignored
  \/ /\ c \in Failing
     /\ \/ link' = [link EXCEPT ![c] = "closing"] /\ UNCHANGED ignored
        \/ link' = [link EXCEPT ![c] = "accepted"] /\ ignored' = ignored \cup {c}
     /\ UNCHANGED epoll

(* server_handle_incoming_client *)
Incoming(c) ==
  /\ running /\ c \in reqs
  /\ reqs' = reqs \ {c}
  /\ \/ \E s \in Slots :
          /\ ClientNew(s)
          /\ slot' = [slot EXCEPT ![s] = c]
          /\ conns' = conns \cup {c}
          /\ AddToEpoll(s, c)
     \/ /\ c \in Failing
        /\ link' = [link EXCEPT ![c] = "rejected"]
        /\ UNCHANGED <<slot, epoll, conns, ignored>>
  /\ UNCHANGED <<seen, events, cqe, reading, buf, printed, running>>

(* Mutant of FetchName: every read goes to the first part of the buffer.     *)
FetchNameFirstPart(s, c) ==
  reading' = [reading EXCEPT ![c] = 1] /\ UNCHANGED <<link, ignored>>

(* client_fetch_name and, if it fails, the disconnection of                  *)
(* client_handle_is_ready.                                                   *)
FetchName(s, c) ==
  \/ reading' = [reading EXCEPT ![c] = s] /\ UNCHANGED <<link, ignored>>
  \/ c \in Failing /\ Disconnect(c) /\ UNCHANGED reading

Deleted(C) ==
  /\ conns' = conns \ C
  /\ events' = [c \in Clients |-> IF c \in C THEN <<>> ELSE events[c]]
  /\ cqe' = [c \in Clients |-> IF c \in C THEN "none" ELSE cqe[c]]
  /\ reading' = [c \in Clients |-> IF c \in C THEN 0 ELSE reading[c]]

(* Mutant of ClientDelete: one of the descriptors stays in the epoll set.    *)
ClientDeleteOneFd(s, c) ==
  /\ epoll' = epoll \ {<<s, "event", c>>}
  /\ slot' = [slot EXCEPT ![s] = None]
  /\ Deleted({c})

(* client_delete: rpma_conn_delete takes the QP and the CQ away, with the    *)
(* read and the completion.                                                  *)
ClientDelete(s, c) ==
  /\ epoll' = epoll \ Descriptors(s, c)
  /\ slot' = [slot EXCEPT ![s] = None]
  /\ Deleted({c})

ConnReady(s) == \E c \in conns : <<s, "event", c>> \in epoll /\ events[c] # <<>>
CmplReady(s) == \E c \in conns : <<s, "completion", c>> \in epoll /\ cqe[c] # "none"

(* client_handle_connection_event for an event of the slot's descriptor: it  *)
(* looks for the event at the slot's connection.  If rpma_conn_next_event    *)
(* fails, the event is still there, or it is lost: there was no memory for   *)
(* its private data, or the acknowledgement failed.                          *)
ConnectionEvent(s) ==
  LET c == slot[s]
  IN  /\ running /\ ConnReady(s) /\ c # None /\ events[c] # <<>>
      /\ \/ /\ Head(events[c]) = "ESTABLISHED"
            /\ events' = [events EXCEPT ![c] = Tail(@)]
            /\ FetchName(s, c)
            /\ UNCHANGED <<slot, epoll, conns, cqe>>
         \/ /\ Head(events[c]) = "CLOSED"
            /\ ClientDelete(s, c)
            /\ UNCHANGED <<link, ignored>>
         \/ /\ c \in Failing
            /\ UNCHANGED events \/ events' = [events EXCEPT ![c] = Tail(@)]
            /\ Disconnect(c)
            /\ UNCHANGED <<slot, epoll, conns, cqe, reading>>
      /\ UNCHANGED <<reqs, seen, buf, printed, running>>

(* Mutant of Completion: the client is not disconnected afterwards.          *)
CompletionStaysOpen(s) ==
  LET c == slot[s]
  IN  /\ running /\ CmplReady(s) /\ c # None /\ cqe[c] # "none"
      /\ \/ cqe[c] = "ok" /\ printed' = printed \cup {<<c, buf[s]>>} /\ Disconnect(c)
         \/ UNCHANGED <<printed, link, ignored>>
      /\ cqe' = [cqe EXCEPT ![c] = "none"]
      /\ UNCHANGED <<reqs, seen, slot, epoll, conns, events, reading, buf, running>>

(* client_handle_completion: whatever it finds, it disconnects.  If          *)
(* rpma_cq_wait or rpma_cq_get_wc fails the completion may stay.  (If there  *)
(* is no event after all, as also in ConnectionEvent, nothing happens.)      *)
Completion(s) ==
  LET c == slot[s]
  IN  /\ running /\ CmplReady(s) /\ c # None /\ cqe[c] # "none"
      /\ \/ /\ cqe[c] = "ok" /\ printed' = printed \cup {<<c, buf[s]>>}
            /\ cqe' = [cqe EXCEPT ![c] = "none"]
         \/ /\ cqe[c] = "error" \/ c \in Failing
            /\ cqe' = [cqe EXCEPT ![c] = "none"]
            /\ UNCHANGED printed
         \/ c \in Failing /\ UNCHANGED <<cqe, printed>>
      /\ Disconnect(c)
      /\ UNCHANGED <<reqs, seen, slot, epoll, conns, events, reading, buf, running>>

Held == {slot[s] : s \in Slots} \ {None}

(* Mutant of Timeout: the clients are dropped, not deleted.                  *)
TimeoutWithoutDelete ==
  /\ running /\ reqs = {} /\ \A s \in Slots : ~ConnReady(s) /\ ~CmplReady(s)
  /\ running' = FALSE
  /\ slot' = [s \in Slots |-> None] /\ epoll' = {}
  /\ UNCHANGED <<reqs, conns, link, seen, events, cqe, reading, buf, printed, ignored>>

(* epoll_wait times out or fails: all remaining clients are disconnected and *)
(* deleted, which ends a connection that could not be disconnected, the      *)
(* endpoint is shut down and the buffer freed.                               *)
Timeout ==
  /\ running
  /\ Failing # {} \/ (reqs = {} /\ \A s \in Slots : ~ConnReady(s) /\ ~CmplReady(s))
  /\ running' = FALSE
  /\ link' = [c \in Clients |-> IF c \in Held /\ Connected(c) THEN "closing" ELSE link[c]]
  /\ slot' = [s \in Slots |-> None] /\ epoll' = {}
  /\ Deleted(Held)
  /\ UNCHANGED <<reqs, seen, buf, printed, ignored>>

(* All is over. *)
Terminated ==
  /\ ~running /\ \A c \in Clients : seen[c] = "done"
  /\ UNCHANGED vars

ClientStep == \E c \in Clients : Request(c) \/ Rejected(c)
Network == \E c \in Clients : Establish(c) \/ Close(c) \/ ReadEnds(c)
Server ==
  \/ \E c \in Clients : Incoming(c)
  \/ \E s \in Slots : ConnectionEvent(s) \/ Completion(s)
  \/ Timeout

Next == ClientStep \/ Network \/ Server \/ Terminated

Spec == Init /\ [][Next]_vars

(* Requests that are waiting are answered, the network delivers what has     *)
(* been sent and the loop takes every event that is ready.                   *)
FairSpec ==
  /\ Spec
  /\ \A c \in Clients :
       /\ WF_vars(Rejected(c)) /\ WF_vars(Incoming(c))
       /\ WF_vars(Establish(c)) /\ WF_vars(ReadEnds(c))
       /\ WF_vars(link[c] = "closing" /\ Close(c))
  /\ \A s \in Slots : WF_vars(ConnectionEvent(s)) /\ WF_vars(Completion(s))

------------------------------------------------------------------------------
(* Every variable has the values that server.c can give it; a read in flight *)
(* goes to the part of a slot.                                               *)
TypeOK ==
  /\ reqs \subseteq Clients
  /\ link \in [Clients -> {"none", "accepted", "up", "closing", "down", "rejected"}]
  /\ seen \in [Clients -> {"start", "asked", "connected", "done"}]
  /\ slot \in [Slots -> Clients \cup {None}]
  /\ epoll \subseteq Slots \X {"event", "completion"} \X Clients
  /\ conns \subseteq Clients
  /\ events \in [Clients -> Seq({"ESTABLISHED", "CLOSED"})]
  /\ cqe \in [Clients -> {"none", "ok", "error"}]
  /\ reading \in [Clients -> 0 .. ClientMax]
  /\ buf \in [Slots -> Clients \cup {None}]
  /\ printed \subseteq Clients \X (Clients \cup {None})
  /\ running \in BOOLEAN /\ ignored \subseteq Clients

(* The descriptors in epoll are those of the slot's own connection, so that  *)
(* no handler is called for a connection that is gone, and none for another  *)
(* client's (client_add_to_epoll, client_delete).                            *)
HandlersMatch == \A e \in epoll : slot[e[1]] = e[3]

(* A name is printed for the client whose name it is, although slots and     *)
(* their parts of the buffer are used again (client_handle_name).            *)
NamesRight == \A p \in printed : p[1] = p[2]

(* Only the connection of a slot reads into the slot's part of the buffer;   *)
(* so nothing is written to the buffer after server_fini has freed it.       *)
BufferHasOneWriter ==
  \A c \in Clients : reading[c] # 0 => running /\ slot[reading[c]] = c

(* Every client that asks is released in the end: it is rejected, or         *)
(* disconnected after its name is read or after any failure, without waiting *)
(* for the server's end.  The exception are clients for which                *)
(* rpma_conn_disconnect failed: no handler looks at its result (server.c:219 *)
(* and the others), and the server may have no further event of such a       *)
(* client.  They too are released when the loop ends.                        *)
ClientsReleased ==
  \A c \in Clients :
    /\ seen[c] = "asked" ~> seen[c] = "done" \/ c \in ignored
    /\ ~running /\ seen[c] # "start" ~> seen[c] = "done"
===============================================================================
