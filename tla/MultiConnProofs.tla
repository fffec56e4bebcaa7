--------------------------- MODULE MultiConnProofs ---------------------------
(* Proofs about MultiConn, for any number of clients and slots and whichever *)
(* calls fail.                                                               *)
EXTENDS MultiConn, FiniteSetTheorems, TLAPS

(* There is a slot for every client that comes.  (With more of them          *)
(* client_new hands out a slot that is in use, and the theorems fail.)       *)
EnoughSlots == IsFiniteSet(Clients) /\ Cardinality(Clients) <= ClientMax

(* No connection is in two slots, and the connections are those in slots;    *)
(* none is left when the loop has ended.                                     *)
OneSlot ==
  /\ \A r, s \in Slots : slot[r] = slot[s] /\ slot[r] # None => r = s
  /\ conns = Held
  /\ running \/ conns = {}

(* A client asks once: one that has not asked, or waits for an answer, has   *)
(* no slot.                                                                  *)
FreshInv ==
  /\ \A c \in reqs : seen[c] # "start" /\ c \notin conns
  /\ \A c \in Clients : seen[c] = "start" => c \notin conns

(* What is not a connection of the server has no read and no completion.     *)
IdleInv == \A c \in Clients : c \notin conns => cqe[c] = "none" /\ reading[c] = 0

(* As long as a completion says that a name was read, the name is there.     *)
NameInv == \A s \in Slots : slot[s] # None /\ cqe[slot[s]] = "ok" => buf[s] = slot[s]

IInv ==
  /\ TypeOK
  /\ OneSlot /\ FreshInv /\ IdleInv /\ NameInv
  /\ HandlersMatch /\ NamesRight /\ BufferHasOneWriter

------------------------------------------------------------------------------
(* The loop starts without clients.                                          *)
LEMMA InitInv == Init => IInv
<1> SUFFICES ASSUME Init PROVE IInv OBVIOUS
<1> USE ClientMaxAssumption DEF Init
<1>1. TypeOK
  BY DEF TypeOK, Slots
<1>2. OneSlot /\ FreshInv /\ IdleInv /\ NameInv
  BY DEF OneSlot, FreshInv, IdleInv, NameInv, Held, Slots
<1>3. HandlersMatch /\ NamesRight /\ BufferHasOneWriter
  BY DEF HandlersMatch, NamesRight, BufferHasOneWriter
<1> QED BY <1>1, <1>2, <1>3 DEF IInv

(* A client without a slot finds a free one, so that client_new never hands  *)
(* out a slot in use: otherwise the slots would hold as many other clients   *)
(* as there are clients at all.                                              *)
LEMMA FreeSlot ==
  ASSUME EnoughSlots, TypeOK, OneSlot, NEW c \in Clients, c \notin conns
  PROVE  \E s \in Slots : slot[s] = None
<1> SUFFICES ASSUME \A s \in Slots : slot[s] # None PROVE FALSE
  OBVIOUS
<1>1. slot \in [Slots -> Clients \ {c}]
  BY DEF TypeOK, OneSlot, Held
<1>2. slot \in Injection(Slots, Clients \ {c})
  BY <1>1 DEF OneSlot, Injection, IsInjective
<1>3. /\ IsFiniteSet(Clients \ {c})
      /\ Cardinality(Clients \ {c}) = Cardinality(Clients) - 1
  BY FS_RemoveElement DEF EnoughSlots
<1>4. Cardinality(Slots) <= Cardinality(Clients \ {c})
  BY <1>2, <1>3, FS_Injection
<1>5. Cardinality(Slots) = ClientMax
  BY ClientMaxAssumption, FS_Interval DEF Slots
<1>6. Cardinality(Clients) \in Nat
  BY FS_CardinalityType DEF EnoughSlots
<1> QED BY <1>3, <1>4, <1>5, <1>6, ClientMaxAssumption DEF EnoughSlots

(* server_handle_incoming_client fills an empty slot.                        *)
LEMMA ClientNewFree ==
  ASSUME EnoughSlots, IInv, NEW c \in Clients, c \notin conns,
         NEW s \in Slots, ClientNew(s)
  PROVE  slot[s] = None
BY FreeSlot DEF IInv, ClientNew

------------------------------------------------------------------------------
(* The clients and the network touch no slot.                                *)
LEMMA ClientStepKeeps ==
  ASSUME IInv, ClientStep
  PROVE  IInv'
<1>1. PICK c \in Clients : Request(c) \/ Rejected(c)
  BY DEF ClientStep
<1>2. UNCHANGED <<link, slot, epoll, conns, events, cqe, reading, buf, printed, running,
                  ignored>>
  BY <1>1 DEF Request, Rejected
<1>3. TypeOK'
  BY Zenon, <1>1, <1>2 DEF IInv, TypeOK, Slots, Request, Rejected
<1>4. FreshInv'
  BY <1>1, <1>2 DEF IInv, TypeOK, FreshInv, Request, Rejected
<1>5. OneSlot' /\ IdleInv' /\ NameInv' /\ HandlersMatch' /\ NamesRight' /\ BufferHasOneWriter'
  BY <1>2 DEF IInv, OneSlot, Held, Slots, IdleInv, NameInv, HandlersMatch, NamesRight,
              BufferHasOneWriter
<1> QED BY <1>3, <1>4, <1>5 DEF IInv

(* The network establishes or closes a connection.                         *)
LEMMA LinkKeeps ==
  ASSUME IInv, NEW c \in Clients, Establish(c) \/ Close(c)
  PROVE  IInv'
<1>1. UNCHANGED <<reqs, slot, epoll, conns, cqe, reading, buf, printed, running, ignored>>
  BY DEF Establish, Close
<1>2. TypeOK'
  <2>1. events' \in [Clients -> Seq({"ESTABLISHED", "CLOSED"})]
    <3>1. PICK e \in {"ESTABLISHED", "CLOSED"} : Raise(c, e)
      BY DEF Establish, Close
    <3>2. Append(events[c], e) \in Seq({"ESTABLISHED", "CLOSED"})
      BY DEF IInv, TypeOK
    <3> QED BY <3>1, <3>2 DEF IInv, TypeOK, Raise
  <2>2. link' \in [Clients -> {"none", "accepted", "up", "closing", "down", "rejected"}]
    BY ZenonT(30) DEF IInv, TypeOK, Establish, Close
  <2>3. seen' \in [Clients -> {"start", "asked", "connected", "done"}]
    BY Zenon DEF IInv, TypeOK, Establish, Close
  <2> QED BY SMTT(30), <1>1, <2>1, <2>2, <2>3 DEF IInv, TypeOK, Slots
<1>3. FreshInv'
  BY <1>1 DEF IInv, TypeOK, FreshInv, Establish, Close
<1>4. OneSlot' /\ IdleInv' /\ NameInv' /\ HandlersMatch' /\ NamesRight' /\ BufferHasOneWriter'
  BY <1>1 DEF IInv, OneSlot, Held, Slots, IdleInv, NameInv, HandlersMatch, NamesRight,
              BufferHasOneWriter
<1> QED BY <1>2, <1>3, <1>4 DEF IInv

(* A read ends in the part of the slot whose connection reads.               *)
LEMMA ReadEndsKeeps ==
  ASSUME IInv, NEW c \in Clients, ReadEnds(c)
  PROVE  IInv'
<1>1. UNCHANGED <<reqs, link, seen, slot, epoll, conns, events, printed, running, ignored>>
  BY DEF ReadEnds
<1>2. reading[c] \in Slots /\ slot[reading[c]] = c
  BY ClientMaxAssumption DEF IInv, TypeOK, BufferHasOneWriter, ReadEnds, Slots
<1>3. TypeOK'
  <2>1. buf' \in [Slots -> Clients \cup {None}]
    BY Zenon, <1>2 DEF IInv, TypeOK, ReadEnds
  <2>2. cqe' \in [Clients -> {"none", "ok", "error"}] /\ reading' \in [Clients -> 0 .. ClientMax]
    <3>1. PICK v \in {"ok", "error"} : cqe' = [cqe EXCEPT ![c] = v]
      BY Zenon DEF ReadEnds
    <3>2. reading' = [reading EXCEPT ![c] = 0] /\ 0 \in 0 .. ClientMax
      BY ClientMaxAssumption DEF ReadEnds
    <3> QED BY <3>1, <3>2 DEF IInv, TypeOK
  <2> QED BY <1>1, <2>1, <2>2 DEF IInv, TypeOK, Slots
<1>4. NameInv'
  <2> SUFFICES ASSUME NEW s \in Slots, slot[s] # None, cqe'[slot[s]] = "ok"
               PROVE  buf'[s] = slot[s]
    BY <1>1 DEF NameInv, Slots
  <2>1. slot[s] \in Clients
    BY DEF IInv, TypeOK
  <2>2. CASE s = reading[c]
    BY <1>2, <2>1, <2>2 DEF IInv, TypeOK, ReadEnds
  <2>3. CASE s # reading[c]
    <3>1. slot[s] # c
      BY <1>2, <2>1, <2>3 DEF IInv, OneSlot
    <3> QED BY <2>1, <2>3, <3>1 DEF IInv, TypeOK, NameInv, ReadEnds
  <2> QED BY <2>2, <2>3
<1>5. IdleInv' /\ BufferHasOneWriter'
  <2>1. c \in conns
    BY <1>2, ClientMaxAssumption DEF IInv, OneSlot, Held
  <2> QED BY <1>1, <2>1 DEF IInv, TypeOK, IdleInv, BufferHasOneWriter, ReadEnds
<1>6. OneSlot' /\ FreshInv' /\ HandlersMatch' /\ NamesRight'
  BY <1>1 DEF IInv, OneSlot, Held, Slots, FreshInv, HandlersMatch, NamesRight
<1> QED BY <1>3, <1>4, <1>5, <1>6 DEF IInv

------------------------------------------------------------------------------
(* A new connection comes into an empty slot, with nothing left in it.       *)
LEMMA IncomingKeeps ==
  ASSUME EnoughSlots, IInv, NEW c \in Clients, Incoming(c)
  PROVE  IInv'
<1>1. UNCHANGED <<seen, events, cqe, reading, buf, printed, running>> /\ reqs' = reqs \ {c}
  BY DEF Incoming
<1>2. c \in reqs /\ c \notin conns
  BY DEF IInv, FreshInv, Incoming
<1>3. CASE /\ link' = [link EXCEPT ![c] = "rejected"]
           /\ UNCHANGED <<slot, epoll, conns, ignored>>
  <2>1. TypeOK'
    BY <1>1, <1>3 DEF IInv, TypeOK, Slots
  <2> QED BY <1>1, <1>3, <2>1 DEF IInv, OneSlot, Held, Slots, FreshInv, IdleInv, NameInv,
                                  HandlersMatch, NamesRight, BufferHasOneWriter
<1>4. ASSUME NEW s \in Slots, ClientNew(s), slot' = [slot EXCEPT ![s] = c],
             conns' = conns \cup {c}, AddToEpoll(s, c)
      PROVE  IInv'
  <2>1. slot[s] = None
    BY <1>2, <1>4, ClientNewFree
  <2>2. /\ slot \in [Slots -> Clients \cup {None}] /\ None \notin Clients
        /\ \A r \in Slots : slot[r] # c
    BY <1>2, ClientMaxAssumption DEF IInv, TypeOK, OneSlot, Held
  <2>3. slot'[s] = c /\ \A r \in Slots : r # s => slot'[r] = slot[r]
    BY <1>4, <2>2
  <2>4. epoll' \subseteq epoll \cup Descriptors(s, c)
    BY <1>4 DEF AddToEpoll
  <2>5. TypeOK'
    <3>1. epoll' \subseteq Slots \X {"event", "completion"} \X Clients
      BY <2>4 DEF IInv, TypeOK, Descriptors
    <3>2. link' \in [Clients -> {"none", "accepted", "up", "closing", "down", "rejected"}]
      <4>1. PICK v \in {"accepted", "closing"} : link' = [link EXCEPT ![c] = v]
        BY Zenon, <1>4 DEF AddToEpoll
      <4> QED BY <4>1 DEF IInv, TypeOK
    <3>3. ignored' \subseteq Clients
      BY <1>4 DEF IInv, TypeOK, AddToEpoll
    <3> QED BY <1>1, <1>4, <3>1, <3>2, <3>3 DEF IInv, TypeOK, Slots
  <2>6. OneSlot'
    <3>1. \A r, q \in Slots : slot'[r] = slot'[q] /\ slot'[r] # None => r = q
      BY <2>2, <2>3 DEF IInv, OneSlot
    <3>2. Held' = Held \cup {c}
      BY <2>1, <2>2, <2>3 DEF Held, Slots
    <3>3. running'
      BY <1>1 DEF Incoming
    <3> QED BY <1>4, <3>1, <3>2, <3>3 DEF IInv, OneSlot, Slots
  <2>7. FreshInv' /\ IdleInv'
    BY <1>1, <1>2, <1>4 DEF IInv, FreshInv, IdleInv, TypeOK
  <2>8. NameInv'
    <3>1. cqe[c] = "none"
      BY <1>2 DEF IInv, IdleInv
    <3> QED BY <1>1, <2>3, <3>1 DEF IInv, NameInv, Slots
  <2>9. HandlersMatch'
    <3> SUFFICES ASSUME NEW e \in epoll' PROVE slot'[e[1]] = e[3]
      BY DEF HandlersMatch
    <3>1. CASE e \in Descriptors(s, c)
      BY <2>3, <3>1 DEF Descriptors
    <3>2. CASE e \in epoll
      <4>1. e[1] \in Slots /\ e[3] \in Clients /\ slot[e[1]] = e[3]
        BY <3>2 DEF IInv, TypeOK, HandlersMatch
      <4> QED BY <2>1, <2>2, <2>3, <4>1
    <3> QED BY <2>4, <3>1, <3>2
  <2>10. NamesRight' /\ BufferHasOneWriter'
    <3>1. \A d \in Clients : reading[d] # 0 => reading[d] \in Slots /\ slot[reading[d]] = d
      BY ClientMaxAssumption DEF IInv, TypeOK, BufferHasOneWriter, Slots
    <3> QED BY <1>1, <2>1, <2>2, <2>3, <3>1 DEF IInv, NamesRight, BufferHasOneWriter
  <2> QED BY <2>5, <2>6, <2>7, <2>8, <2>9, <2>10 DEF IInv
<1> QED BY <1>3, <1>4 DEF Incoming

(* rpma_conn_disconnect, whether it fails or not, changes the connection in  *)
(* the network only.                                                         *)
LEMMA DisconnectType ==
  ASSUME TypeOK, NEW c \in Clients, Disconnect(c)
  PROVE  /\ link' \in [Clients -> {"none", "accepted", "up", "closing", "down", "rejected"}]
         /\ ignored' \subseteq Clients
<1>1. CASE UNCHANGED link /\ ignored' = ignored \cup {c}
  BY <1>1 DEF TypeOK
<1>2. CASE /\ link' = [link EXCEPT ![c] = IF Connected(c) THEN "closing" ELSE @]
           /\ UNCHANGED ignored
  BY <1>2 DEF TypeOK
<1> QED BY <1>1, <1>2 DEF Disconnect

(* client_delete empties the slot and takes out both descriptors, so nothing *)
(* of the connection is left when the slot is used again.                    *)
LEMMA ClientDeleteKeeps ==
  ASSUME IInv, NEW s \in Slots, NEW c \in Clients, slot[s] = c, ClientDelete(s, c),
         UNCHANGED <<reqs, seen, link, buf, printed, running, ignored>>
  PROVE  IInv'
<1> USE DEF ClientDelete, Deleted
<1>1. slot \in [Slots -> Clients \cup {None}] /\ None \notin Clients
  BY ClientMaxAssumption DEF IInv, TypeOK
<1>2. slot'[s] = None /\ \A r \in Slots : r # s => slot'[r] = slot[r] /\ slot[r] # c
  BY <1>1 DEF IInv, OneSlot
<1>3. TypeOK'
  <2>1. events' \in [Clients -> Seq({"ESTABLISHED", "CLOSED"})]
    BY DEF IInv, TypeOK
  <2>2. cqe' \in [Clients -> {"none", "ok", "error"}] /\ reading' \in [Clients -> 0 .. ClientMax]
    BY ClientMaxAssumption DEF IInv, TypeOK
  <2> QED BY <2>1, <2>2 DEF IInv, TypeOK, Slots
<1>4. OneSlot'
  <2>1. Held' = Held \ {c}
    BY <1>1, <1>2 DEF Held, Slots
  <2> QED BY <1>1, <1>2, <2>1 DEF IInv, OneSlot, Slots
<1>5. FreshInv' /\ IdleInv' /\ NamesRight'
  BY DEF IInv, TypeOK, FreshInv, IdleInv, NamesRight
<1>6. NameInv'
  BY <1>1, <1>2 DEF IInv, NameInv, Slots
<1>7. HandlersMatch'
  <2> SUFFICES ASSUME NEW e \in epoll' PROVE slot'[e[1]] = e[3]
    BY DEF HandlersMatch
  <2>1. /\ e = <<e[1], e[2], e[3]>> /\ e[1] \in Slots /\ e[2] \in {"event", "completion"}
        /\ slot[e[1]] = e[3]
    BY DEF IInv, TypeOK, HandlersMatch
  <2>2. e[1] # s
    BY <2>1 DEF Descriptors
  <2> QED BY <1>2, <2>1, <2>2
<1>8. BufferHasOneWriter'
  <2>0. running'
    BY <1>1 DEF IInv, OneSlot, Held
  <2> SUFFICES ASSUME NEW d \in Clients, reading'[d] # 0 PROVE slot'[reading'[d]] = d
    BY <2>0 DEF BufferHasOneWriter
  <2>1. d # c /\ reading'[d] = reading[d] /\ slot[reading[d]] = d /\ reading[d] \in Slots
    BY ClientMaxAssumption DEF IInv, TypeOK, BufferHasOneWriter, Slots
  <2> QED BY <1>2, <2>1
<1> QED BY <1>3, <1>4, <1>5, <1>6, <1>7, <1>8 DEF IInv

(* client_handle_connection_event either starts the read of the slot's own   *)
(* client, into the slot's part, or deletes it, or disconnects it.           *)
LEMMA ConnectionEventKeeps ==
  ASSUME IInv, NEW s \in Slots, ConnectionEvent(s)
  PROVE  IInv'
<1> DEFINE c == slot[s]
<1>1. c \in Clients /\ c \in conns /\ events[c] # <<>>
  BY DEF IInv, TypeOK, OneSlot, Held, ConnectionEvent
<1>2. UNCHANGED <<reqs, seen, buf, printed, running>>
  BY DEF ConnectionEvent
<1>3. CASE ClientDelete(s, c) /\ UNCHANGED <<link, ignored>>
  BY <1>1, <1>2, <1>3, ClientDeleteKeeps
<1>4. CASE /\ UNCHANGED <<slot, epoll, conns, cqe>>
           /\ UNCHANGED events \/ events' = [events EXCEPT ![c] = Tail(@)]
           /\ Disconnect(c) \/ UNCHANGED <<link, ignored>>
           /\ UNCHANGED reading \/ reading' = [reading EXCEPT ![c] = s]
  <2>1. events' \in [Clients -> Seq({"ESTABLISHED", "CLOSED"})]
    <3>1. Tail(events[c]) \in Seq({"ESTABLISHED", "CLOSED"})
      BY <1>1 DEF IInv, TypeOK
    <3> QED BY ZenonT(30), <1>4, <3>1 DEF IInv, TypeOK
  <2>2. /\ link' \in [Clients -> {"none", "accepted", "up", "closing", "down", "rejected"}]
        /\ ignored' \subseteq Clients
    BY SMTT(30), <1>1, <1>4, DisconnectType DEF IInv, TypeOK
  <2>3. reading' \in [Clients -> 0 .. ClientMax]
    <3>1. s \in 0 .. ClientMax /\ reading \in [Clients -> 0 .. ClientMax]
      BY ClientMaxAssumption DEF IInv, TypeOK, Slots
    <3> QED BY <1>1, <1>4, <3>1
  <2>4. TypeOK'
    BY SMTT(30), <1>2, <1>4, <2>1, <2>2, <2>3 DEF IInv, TypeOK, Slots
  <2>5. IdleInv' /\ BufferHasOneWriter'
    <3>1. \A d \in Clients : d # c => reading'[d] = reading[d]
      BY <1>4 DEF IInv, TypeOK
    <3>2. reading'[c] \in {reading[c], s}
      BY <1>1, <1>4 DEF IInv, TypeOK
    <3>3. IdleInv'
      BY <1>1, <1>4, <3>1 DEF IInv, IdleInv
    <3>4. BufferHasOneWriter'
      <4>1. running'
        BY SMTT(30), <1>2 DEF ConnectionEvent
      <4> QED BY <1>4, <3>1, <3>2, <4>1 DEF IInv, BufferHasOneWriter
    <3> QED BY <3>3, <3>4
  <2>6. OneSlot' /\ FreshInv' /\ NameInv' /\ HandlersMatch' /\ NamesRight'
    BY <1>2, <1>4 DEF IInv, OneSlot, Held, Slots, FreshInv, NameInv, HandlersMatch, NamesRight
  <2> QED BY <2>4, <2>5, <2>6 DEF IInv
<1> QED BY <1>3, <1>4 DEF ConnectionEvent, FetchName

(* client_handle_completion prints the name in the slot's part, which is the *)
(* one of the slot's client as long as the completion is there.              *)
LEMMA CompletionKeeps ==
  ASSUME IInv, NEW s \in Slots, Completion(s)
  PROVE  IInv'
<1> DEFINE c == slot[s]
<1>1. c \in Clients
  BY DEF IInv, TypeOK, Completion
<1>2. /\ UNCHANGED <<reqs, seen, slot, epoll, conns, events, reading, buf, running>>
      /\ Disconnect(c)
      /\ UNCHANGED cqe \/ cqe' = [cqe EXCEPT ![c] = "none"]
  BY DEF Completion
<1>3. printed' \subseteq printed \cup {<<c, c>>}
  BY DEF IInv, NameInv, Completion
<1>4. TypeOK'
  <2>1. /\ link' \in [Clients -> {"none", "accepted", "up", "closing", "down", "rejected"}]
        /\ ignored' \subseteq Clients
    BY <1>1, <1>2, DisconnectType DEF IInv
  <2> QED BY SMTT(30), <1>1, <1>2, <1>3, <2>1 DEF IInv, TypeOK, Slots
<1>5. NamesRight'
  BY <1>3 DEF IInv, NamesRight
<1>6. IdleInv' /\ NameInv'
  <2>1. \A d \in Clients : cqe'[d] \in {cqe[d], "none"}
    BY <1>2 DEF IInv, TypeOK
  <2>2. IdleInv'
    BY <1>2, <2>1 DEF IInv, IdleInv
  <2>3. NameInv'
    BY <1>2, <2>1 DEF IInv, TypeOK, NameInv, Slots
  <2> QED BY <2>2, <2>3
<1>7. OneSlot' /\ FreshInv' /\ HandlersMatch' /\ BufferHasOneWriter'
  BY <1>2 DEF IInv, OneSlot, Held, Slots, FreshInv, HandlersMatch, BufferHasOneWriter
<1> QED BY <1>4, <1>5, <1>6, <1>7 DEF IInv

(* When the loop ends every client is deleted, as by client_delete.          *)
LEMMA TimeoutKeeps ==
  ASSUME IInv, Timeout
  PROVE  IInv'
<1> USE DEF Timeout, Deleted
<1>1. conns' = {} /\ Held' = {}
  BY DEF IInv, OneSlot, Held, Slots
<1>2. \A c \in Clients : cqe'[c] = "none" /\ reading'[c] = 0
  BY DEF IInv, OneSlot, IdleInv
<1>3. TypeOK'
  <2>1. events' \in [Clients -> Seq({"ESTABLISHED", "CLOSED"})]
    BY DEF IInv, TypeOK
  <2>2. cqe' \in [Clients -> {"none", "ok", "error"}] /\ reading' \in [Clients -> 0 .. ClientMax]
    BY ClientMaxAssumption DEF IInv, TypeOK
  <2>3. link' \in [Clients -> {"none", "accepted", "up", "closing", "down", "rejected"}]
    BY DEF IInv, TypeOK
  <2> QED BY Zenon, <1>1, <2>1, <2>2, <2>3 DEF IInv, TypeOK, Slots
<1>4. OneSlot' /\ FreshInv' /\ IdleInv' /\ NameInv'
  BY <1>1, <1>2 DEF IInv, OneSlot, FreshInv, IdleInv, NameInv, Slots
<1>5. HandlersMatch' /\ NamesRight' /\ BufferHasOneWriter'
  BY <1>2 DEF IInv, HandlersMatch, NamesRight, BufferHasOneWriter
<1> QED BY <1>3, <1>4, <1>5 DEF IInv

(* Every step keeps IInv.                                                    *)
LEMMA NextInv == EnoughSlots /\ IInv /\ [Next]_vars => IInv'
<1> SUFFICES ASSUME EnoughSlots, IInv, [Next]_vars PROVE IInv' OBVIOUS
<1>1. CASE ClientStep
  BY <1>1, ClientStepKeeps
<1>2. CASE Network
  BY <1>2, LinkKeeps, ReadEndsKeeps DEF Network
<1>3. CASE Server
  BY <1>3, IncomingKeeps, ConnectionEventKeeps, CompletionKeeps, TimeoutKeeps DEF Server
<1>4. CASE UNCHANGED vars
  <2>1. TypeOK'
    BY <1>4 DEF IInv, TypeOK, Slots, vars
  <2>2. OneSlot' /\ FreshInv' /\ IdleInv' /\ NameInv'
    BY <1>4 DEF IInv, OneSlot, Held, FreshInv, IdleInv, NameInv, Slots, vars
  <2>3. HandlersMatch' /\ NamesRight' /\ BufferHasOneWriter'
    BY <1>4 DEF IInv, HandlersMatch, NamesRight, BufferHasOneWriter, vars
  <2> QED BY <2>1, <2>2, <2>3 DEF IInv
<1> QED BY <1>1, <1>2, <1>3, <1>4 DEF Next, Terminated

(* IInv always holds.                                                        *)
THEOREM Invariance ==
  ASSUME EnoughSlots
  PROVE  Spec => []IInv
<1>1. IInv /\ [Next]_vars => IInv'
  BY NextInv
<1> QED BY <1>1, InitInv, PTL DEF Spec

(* With a slot for each client, no handler of the server of example 06 is    *)
(* ever called for a connection that is gone or is another client's.         *)
THEOREM HandlersTheorem ==
  ASSUME EnoughSlots
  PROVE  Spec => []HandlersMatch
<1>1. IInv => HandlersMatch BY DEF IInv
<1> QED BY <1>1, Invariance, PTL

(* With a slot for each client, each name is printed for the client it was   *)
(* read from (client_handle_name).                                           *)
THEOREM NamesTheorem ==
  ASSUME EnoughSlots
  PROVE  Spec => []NamesRight
<1>1. IInv => NamesRight BY DEF IInv
<1> QED BY <1>1, Invariance, PTL

(* With a slot for each client, only the connection of a slot reads into the *)
(* slot's part of the buffer, and nobody does once the server has ended.     *)
THEOREM BufferTheorem ==
  ASSUME EnoughSlots
  PROVE  Spec => []BufferHasOneWriter
<1>1. IInv => BufferHasOneWriter BY DEF IInv
<1> QED BY <1>1, Invariance, PTL
===============================================================================
