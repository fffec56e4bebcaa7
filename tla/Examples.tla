------------------------------ MODULE Examples ------------------------------
(* The examples of the library at work: the client and the server of one     *)
(* example run, connect, exchange data over RDMA and clean up, while any     *)
(* call may fail and a process may be killed (at most MaxFaults times).      *)
(*                                                                           *)
(* A process is the program counter of its program, the resources it owns    *)
(* and its memory.  A connection has two ends, <<k, p>> for the processes    *)
(* p = 0 and p = k: the events queued for it, its QP, the work posted to the *)
(* two queues of the QP, the completions not yet taken from its CQs, the CQs *)
(* armed for an event and the events not yet taken from their channels.      *)
EXTENDS ExamplePrograms, FiniteSets

CONSTANTS
  Chosen,       \* the examples to run
  Rounds,       \* the argument <rounds> of 08 and 12, and the tries of 01
  MaxFaults     \* how many calls fail or processes are killed, at most

ASSUME ExamplesAssumption == Chosen \subseteq DOMAIN Programs /\ Rounds \in Nat \ {0}

VARIABLES
  ex,       \* the example that runs
  proc,     \* what each process is doing and owns
  mem,      \* the memory of each process
  dur,      \* what a power failure would leave of it
  net,      \* each connection, as the connection manager sees it
  end,      \* the ends of the connections
  wire,     \* writes that arrived at the peer and are not in its memory yet
  faults    \* faults still to come

vars == <<ex, proc, mem, dur, net, end, wire, faults>>

------------------------------------------------------------------------------
Procs == DOMAIN proc
Servers == Procs \ {0}
Cells == {"src", "dst", "dst2", "raw", "sig", "direct", "word", "used", "d1", "d2",
          "send", "recv", "cntr", "imm", "exp"}
Pmem == {"e03", "e04", "e05", "e07", "e09", "e09s"}
Garbage == 7      \* what an unformatted file holds
Greeting == 2     \* the client's file holds a later greeting than the first
Imm == 3

Ends == {<<k, p>> : k \in Servers, p \in Procs} \ {<<1, 2>>, <<2, 1>>}
Peer(e) == <<e[1], IF e[2] = 0 THEN e[1] ELSE 0>>
MyEnd(p, k) == <<IF p = 0 THEN k ELSE p, p>>
MyConn(e) == IF e[2] = 0 THEN Conn(e[1]) ELSE "conn"

Queues == {"cq", "rcq"}
NoQP == [ev |-> <<>>, qp |-> "none", sq |-> <<>>, rq |-> <<>>,
         cq |-> [q \in Queues |-> <<>>], armed |-> Queues, chan |-> <<>>]

FirstMemory(p, direct, formatted) ==
  [c \in Cells |-> CASE p = 0 /\ c = "src" -> Greeting
                     [] p = 0 /\ c = "imm" -> Imm
                     [] p # 0 /\ c = "direct" -> direct
                     [] p # 0 /\ c = "sig" -> formatted
                     [] p # 0 /\ formatted = 0 /\ c \in {"dst", "used"} -> Garbage
                     [] OTHER -> 0]

Init ==
  /\ ex \in Chosen
  /\ proc = [p \in DOMAIN Programs[ex] |-> [pc |-> 1, failed |-> FALSE, own |-> {},
                                            done |-> FALSE, rounds |-> Rounds, got |-> {},
                                            cq |-> "cq", met |-> ""]]
  /\ \E direct \in (IF ex = "e05" THEN {0, 1} ELSE {1}),
        formatted \in (IF ex \in Pmem THEN {0, 1} ELSE {1}) :
       mem = [p \in Procs |-> FirstMemory(p, direct, formatted)]
  /\ dur = mem
  /\ net = [k \in Servers |-> "idle"]
  /\ end = [e \in Ends |-> NoQP]
  /\ wire = [k \in Servers |-> <<>>]
  /\ faults = MaxFaults

------------------------------------------------------------------------------
(* Running a program: its instructions without the labels, each with the     *)
(* places that it goes to on failure and, if it has a label for it, on a     *)
(* rejected connection; after the last comes the end of main.                *)

IsInstr(i) == i.op # "label"
Position(code, l) ==
  LET at == CHOOSE n \in DOMAIN code : ~IsInstr(code[n]) /\ code[n].l = l
  IN 1 + Len(SelectSeq(SubSeq(code, 1, at), IsInstr))
Assemble(code) ==
  LET instrs == SelectSeq(code, IsInstr)
      place(n, l) == CASE l = "" -> n + 1
                       [] l = "return" -> Len(instrs) + 1
                       [] OTHER -> Position(code, l)
      label(n, which) == IF which \in DOMAIN instrs[n] THEN instrs[n][which] ELSE ""
  IN Append([n \in DOMAIN instrs |->
               instrs[n] @@ [to |-> place(n, label(n, "l")), reject |-> place(n, label(n, "rej"))]],
            [op |-> "exit"])
Code == [x \in DOMAIN Programs |-> [p \in DOMAIN Programs[x] |-> Assemble(Programs[x][p])]]

Alive(p) == proc[p].pc # 0
Current(p) == {Code[ex][p][n] : n \in {proc[p].pc} \ {0}}
Owns(p, r) == Alive(p) /\ r \in proc[p].own

(* The process after the current instruction i: carrying on, or failing.     *)
(* For the properties, "met" keeps what else it has met: a check that leaves *)
(* ret alone, an empty CQ, or a completion that it did not expect.           *)
Onward(p) == [proc[p] EXCEPT !.pc = @ + 1]
At(p, n) == [proc[p] EXCEPT !.pc = n]
Failing(p, i) == [At(p, i.to) EXCEPT !.failed = @ \/ "silent" \notin DOMAIN i, !.got = {}]

Become(p, state) == proc' = [proc EXCEPT ![p] = state]
MayFail == faults > 0 /\ faults' = faults - 1
Alone == UNCHANGED <<mem, dur, net, end, wire>>

------------------------------------------------------------------------------
(* Ends of connections *)

(* Completions enter the RCQ, if there is one, or the CQ; if it was armed,   *)
(* it is no longer, and an event is raised.                                  *)
Receives == {"recv", "recv_imm"}
QueueOf(c) == IF ex \in {"e09", "e09s", "e12", "e12s"} /\ c.kind \in Receives THEN "rcq" ELSE "cq"
Completed(d, completions) ==
  LET entering(q) == SelectSeq(completions, LAMBDA c : QueueOf(c) = q)
      raises(q) == q \in d.armed /\ entering(q) # <<>>
  IN [d EXCEPT !.cq = [q \in Queues |-> d.cq[q] \o entering(q)],
               !.armed = {q \in @ : ~raises(q)},
               !.chan = @ \o SelectSeq(<<"cq", "rcq">>, raises)]

Error(work) == [kind |-> work.kind, ok |-> FALSE]
Flushed(d) ==
  Completed([d EXCEPT !.qp = "error", !.sq = <<>>, !.rq = <<>>],
            [n \in DOMAIN d.sq |-> Error(d.sq[n])]
              \o [n \in DOMAIN d.rq |-> [kind |-> "recv", ok |-> FALSE]])
Told(d, event) == [d EXCEPT !.ev = Append(@, event)]

(* rdma_disconnect at e; and the end of the connection, if it is still up,   *)
(* because e is destroyed.                                                   *)
Disconnected(e) ==
  [end EXCEPT ![e] = IF net[e[1]] = "up" THEN Told(Flushed(@), "closed") ELSE Flushed(@),
              ![Peer(e)] = IF net[e[1]] = "up" THEN Told(@, "closed") ELSE @]
Destroyed(es) ==
  [e \in Ends |->
     IF e \in es THEN NoQP
     ELSE IF Peer(e) \in es /\ net[e[1]] = "up" THEN Told(end[e], "closed") ELSE end[e]]
Closes(es) ==
  net' = [k \in Servers |-> IF \E e \in es : e[1] = k /\ net[k] = "up" THEN "down" ELSE net[k]]

------------------------------------------------------------------------------
(* Instructions.  Each has a way to succeed, and a way to fail that uses up  *)
(* a fault.                                                                  *)

GetStep(p, i) ==
  /\ i.op = "get"
  /\ \/ /\ Become(p, [Onward(p) EXCEPT !.own = @ \cup ({i.r} \ {""})])
        /\ UNCHANGED faults
     \/ /\ MayFail
        /\ Become(p, [Failing(p, i) EXCEPT !.own = @ \ i.also])
  /\ Alone /\ UNCHANGED ex

TryStep(p, i) ==
  /\ i.op = "try" \/ i.op = "unless"
  /\ \/ Become(p, Onward(p)) /\ UNCHANGED faults
     \/ /\ MayFail
        /\ Become(p, IF i.op = "try" THEN Failing(p, i)
                     ELSE [Failing(p, i) EXCEPT !.met = "check"])
  /\ Alone /\ UNCHANGED ex

(* Deleting a connection destroys its end, and so does deleting a request    *)
(* of a server.                                                              *)
EndsOf(p, r) == {e \in Ends : e[2] = p /\ (r = MyConn(e) \/ (r = "req" /\ p # 0))}
Held(p, r) == IF r \in proc[p].own THEN EndsOf(p, r) ELSE {}

RelStep(p, i) ==
  /\ i.op = "rel" \/ i.op = "relor"
  /\ LET r == i.r IN
       /\ \/ Become(p, [Onward(p) EXCEPT !.own = @ \ {r}]) /\ UNCHANGED faults
          \/ /\ i.op = "relor"
             /\ MayFail
             /\ Become(p, [Failing(p, i) EXCEPT !.own = @ \ {r}])
       /\ end' = Destroyed(Held(p, r))
       /\ Closes(Held(p, r))
  /\ UNCHANGED <<ex, mem, dur, wire>>

(* while (--rounds) *)
LastRound(p) == proc[p].rounds = 1

ControlStep(p, i) ==
  /\ \/ i.op = "goto" /\ Become(p, At(p, i.to))
     \/ i.op = "iffailed" /\ Become(p, IF proc[p].failed THEN At(p, i.to) ELSE Onward(p))
     \/ i.op = "forget" /\ Become(p, [Onward(p) EXCEPT !.failed = FALSE])
     \/ i.op = "done" /\ Become(p, [Onward(p) EXCEPT !.done = ~proc[p].failed])
     \/ i.op = "ifis" /\ Become(p, IF mem[p][i.a] = i.v THEN At(p, i.to) ELSE Onward(p))
     \/ i.op = "check" /\ Become(p, IF mem[p][i.a] = mem[p][i.b] THEN Onward(p) ELSE Failing(p, i))
     \/ /\ i.op = "rounds"
        /\ Become(p, [(IF LastRound(p) THEN At(p, i.to) ELSE Onward(p))
                        EXCEPT !.rounds = @ - 1])
  /\ Alone /\ UNCHANGED <<ex, faults>>

MemoryStep(p, i) ==
  /\ \/ /\ i.op = "put"
        /\ mem' = [mem EXCEPT ![p][i.a] = i.v]
        /\ UNCHANGED dur
     \/ /\ i.op = "copy"
        /\ mem' = [mem EXCEPT ![p][i.a] = mem[p][i.b] + i.n]
        /\ UNCHANGED dur
     \/ /\ i.op = "pdata"
        /\ mem' = [mem EXCEPT ![p][i.a] = mem[1 - p][i.b]]
        /\ UNCHANGED dur
     \/ /\ i.op = "persist"
        /\ dur' = [dur EXCEPT ![p][i.a] = mem[p][i.a]]
        /\ UNCHANGED mem
  /\ Become(p, Onward(p))
  /\ UNCHANGED <<ex, net, end, wire, faults>>

------------------------------------------------------------------------------
(* Connecting *)

Connect(p, i) ==
  /\ i.op = "connect"
  /\ LET k == i.k
     IN \/ /\ Become(p, [Onward(p) EXCEPT !.own = (@ \ {"req"}) \cup {Conn(k)}])
           /\ net' = [net EXCEPT ![k] = IF Owns(k, "ep") THEN "requested" ELSE "refused"]
           /\ UNCHANGED faults
        \/ /\ MayFail
           /\ Become(p, [Failing(p, i) EXCEPT !.own = @ \ {"req"}])
           /\ UNCHANGED net
  /\ UNCHANGED <<ex, mem, dur, end, wire>>

NextConnReq(p, i) ==
  /\ i.op = "nextreq"
  /\ \/ /\ net[p] = "requested"
        /\ Become(p, [Onward(p) EXCEPT !.own = @ \cup {"req"}])
        /\ net' = [net EXCEPT ![p] = "taken"]
        /\ UNCHANGED faults
     \/ MayFail /\ Become(p, Failing(p, i)) /\ UNCHANGED net
  /\ UNCHANGED <<ex, mem, dur, end, wire>>

ConnReqRecv(p, i) ==
  /\ i.op = "reqrecv"
  /\ \/ /\ Become(p, Onward(p))
        /\ end' = [end EXCEPT ![<<p, p>>].rq = Append(@, i.a)]
        /\ UNCHANGED faults
     \/ /\ MayFail
        /\ Become(p, [Failing(p, i) EXCEPT !.own = IF i.drop THEN @ \ {"req"} ELSE @])
        /\ UNCHANGED end
  /\ UNCHANGED <<ex, mem, dur, net, wire>>

AcceptStep(p, i) ==
  /\ i.op = "accept"
  /\ \/ /\ Become(p, [Onward(p) EXCEPT !.own = (@ \ {"req"}) \cup {"conn"}])
        /\ net' = [net EXCEPT ![p] = "accepted"]
        /\ UNCHANGED <<faults, end>>
     \/ /\ MayFail
        /\ Become(p, [Failing(p, i) EXCEPT !.own = @ \ {"req"}])
        /\ end' = Destroyed({<<p, p>>})
        /\ UNCHANGED net
  /\ UNCHANGED <<ex, mem, dur, wire>>

(* rpma_conn_next_event and what is made of the event.                       *)
Unexpected(p, i) ==
  CASE i.other = "ignore" -> Onward(p)
    [] i.other = "silent" -> [At(p, i.to) EXCEPT !.met = "check"]
    [] OTHER -> Failing(p, i)
AfterEvent(p, i, event) ==
  CASE event = i.want -> Onward(p)
    [] event = "rejected" /\ i.rej # "" -> [At(p, i.reject) EXCEPT !.met = "check"]
    [] OTHER -> Unexpected(p, i)
Deleted(i, event) == i.del /\ event # i.want

NextEvent(p, i) ==
  /\ i.op = "event"
  /\ LET e == MyEnd(p, i.k)
         lost == {Conn(i.k)}
     IN \/ /\ end[e].ev # <<>>
           /\ LET event == Head(end[e].ev) IN
                IF Deleted(i, event)
                  THEN /\ Become(p, [AfterEvent(p, i, event) EXCEPT !.own = @ \ lost])
                       /\ end' = Destroyed({e}) /\ Closes({e})
                  ELSE /\ Become(p, AfterEvent(p, i, event))
                       /\ end' = [end EXCEPT ![e].ev = Tail(@)]
                       /\ UNCHANGED net
           /\ UNCHANGED faults
        \/ /\ MayFail
           /\ Become(p, [Failing(p, i) EXCEPT !.own = IF i.del THEN @ \ lost ELSE @])
           /\ end' = IF i.del THEN Destroyed({e}) ELSE end
           /\ IF i.del THEN Closes({e}) ELSE UNCHANGED net
  /\ UNCHANGED <<ex, mem, dur, wire>>

(* rpma_conn_disconnect fails on a connection that never was established.    *)
DisconnectStep(p, i) ==
  /\ i.op = "disconnect"
  /\ LET e == MyEnd(p, i.k)
         connected == Conn(i.k) \in proc[p].own /\ net[e[1]] \in {"up", "down"}
     IN \/ /\ connected
           /\ Become(p, Onward(p))
           /\ end' = Disconnected(e) /\ Closes({e})
           /\ UNCHANGED faults
        \/ /\ IF connected THEN MayFail ELSE UNCHANGED faults
           /\ Become(p, Failing(p, i))
           /\ UNCHANGED <<end, net>>
  /\ UNCHANGED <<ex, mem, dur, wire>>

------------------------------------------------------------------------------
(* Working *)

Kind(w) ==
  CASE w \in {"write", "atomic_write", "write_imm"} -> "write"
    [] w \in {"send", "send_imm"} -> "send"
    [] w \in {"flush", "persist"} -> "flush"
    [] OTHER -> w

(* An atomic write takes its value when it is posted (it is sent inline).    *)
Posted(p, i) ==
  [w |-> i.w, kind |-> Kind(i.w), a |-> i.a, b |-> i.b, signalled |-> i.signalled,
   v |-> IF i.w = "atomic_write" THEN mem[p][i.a] ELSE 0, executed |-> FALSE]

PostStep(p, i) ==
  /\ i.op = "post" \/ i.op = "recv"
  /\ LET e == MyEnd(p, i.k)
         d == IF i.op = "recv" THEN [end[e] EXCEPT !.rq = Append(@, i.a)]
                               ELSE [end[e] EXCEPT !.sq = Append(@, Posted(p, i))]
     IN \/ /\ Become(p, Onward(p))
           /\ end' = [end EXCEPT ![e] = IF @.qp = "up" THEN d ELSE Flushed(d)]
           /\ UNCHANGED faults
        \/ MayFail /\ Become(p, Failing(p, i)) /\ UNCHANGED end
  /\ UNCHANGED <<ex, mem, dur, net, wire>>

(* rpma_cq_wait and, if q is "any", rpma_conn_wait on a shared channel: the  *)
(* event is taken and the CQ that it is of is armed again.  A completion in  *)
(* between raises no event, like one just before it.  After a failure nobody *)
(* waits for the CQ again, so it does not matter if the event was taken.     *)
FirstEvent(q, chan) ==
  {n \in DOMAIN chan : q \in {"any", chan[n]} /\ \A m \in 1..(n - 1) : q \notin {"any", chan[m]}}
Without(s, n) == SubSeq(s, 1, n - 1) \o SubSeq(s, n + 1, Len(s))

WaitStep(p, i) ==
  /\ i.op = "wait"
  /\ LET e == MyEnd(p, i.k)
     IN \/ /\ \E n \in FirstEvent(i.q, end[e].chan) :
                LET q == end[e].chan[n]
                IN /\ Become(p, [Onward(p) EXCEPT !.cq = q])
                   /\ end' = [end EXCEPT ![e].chan = Without(@, n), ![e].armed = @ \cup {q}]
           /\ UNCHANGED faults
        \/ MayFail /\ Become(p, Failing(p, i)) /\ UNCHANGED end
  /\ UNCHANGED <<ex, mem, dur, net, wire>>

(* rpma_cq_get_wc on the CQ of the event, and the check of what it returned. *)
AfterGetWc(p, i, taken) ==
  LET kinds == {taken[n].kind : n \in DOMAIN taken}
      got == proc[p].got \cup kinds
  IN CASE taken = <<>> -> [Failing(p, i) EXCEPT !.met = "empty"]
       [] \E n \in DOMAIN taken : ~taken[n].ok -> Failing(p, i)
       [] ~(kinds \subseteq i.kinds) -> [Failing(p, i) EXCEPT !.met = "other"]
       [] got = i.kinds -> [Onward(p) EXCEPT !.got = {}]
       [] OTHER -> [At(p, proc[p].pc - 1) EXCEPT !.got = got]

GetWcStep(p, i) ==
  /\ i.op = "getwc"
  /\ LET e == MyEnd(p, i.k)
         q == proc[p].cq
         cq == end[e].cq[q]
         n == IF Len(cq) < i.n THEN Len(cq) ELSE i.n
     IN \/ /\ Become(p, AfterGetWc(p, i, SubSeq(cq, 1, n)))
           /\ end' = [end EXCEPT ![e].cq[q] = SubSeq(@, n + 1, Len(@))]
           /\ UNCHANGED faults
        \/ MayFail /\ Become(p, Failing(p, i)) /\ UNCHANGED end
  /\ UNCHANGED <<ex, mem, dur, net, wire>>

(* Returning from main, and being killed: the system closes what is open.    *)
ExitStep(p, i) ==
  /\ LET mine == {e \in Ends : e[2] = p} IN
       /\ \/ i.op = "exit" /\ Become(p, [proc[p] EXCEPT !.pc = 0]) /\ UNCHANGED faults
          \/ MayFail /\ Become(p, [proc[p] EXCEPT !.pc = 0, !.failed = TRUE, !.own = {}])
       /\ end' = Destroyed(mine) /\ Closes(mine)
  /\ UNCHANGED <<ex, mem, dur, wire>>

Process(p, i) ==
  \/ GetStep(p, i) \/ TryStep(p, i) \/ RelStep(p, i) \/ ControlStep(p, i) \/ MemoryStep(p, i)
  \/ Connect(p, i) \/ NextConnReq(p, i) \/ ConnReqRecv(p, i) \/ AcceptStep(p, i) \/ NextEvent(p, i)
  \/ DisconnectStep(p, i) \/ PostStep(p, i) \/ WaitStep(p, i) \/ GetWcStep(p, i)
  \/ ExitStep(p, i)

------------------------------------------------------------------------------
(* The connection manager *)

Establish(k) ==
  /\ net[k] = "accepted" /\ Owns(0, Conn(k)) /\ Owns(k, "conn")
  /\ net' = [net EXCEPT ![k] = "up"]
  /\ end' = [e \in Ends |-> IF e[1] = k THEN [Told(end[e], "established") EXCEPT !.qp = "up"]
                                        ELSE end[e]]
  /\ UNCHANGED <<ex, proc, mem, dur, wire, faults>>

(* Nobody listens, or the server gave up on the request.                     *)
Refuse(k) ==
  /\ Owns(0, Conn(k)) /\ end[<<k, 0>>].ev = <<>>
  /\ \/ net[k] = "refused"
     \/ net[k] = "requested" /\ ~Owns(k, "ep")
     \/ net[k] = "taken" /\ ~Owns(k, "req")
     \/ net[k] = "accepted" /\ ~Owns(k, "conn")
  /\ net' = [net EXCEPT ![k] = "failed"]
  /\ end' = [end EXCEPT ![<<k, 0>>] = Told(@, "rejected")]
  /\ UNCHANGED <<ex, proc, mem, dur, wire, faults>>

Abandon(k) ==
  /\ net[k] = "accepted" /\ Owns(k, "conn") /\ ~Owns(0, Conn(k))
  /\ net' = [net EXCEPT ![k] = "failed"]
  /\ end' = [end EXCEPT ![<<k, k>>] = Told(@, "lost")]
  /\ UNCHANGED <<ex, proc, mem, dur, wire, faults>>

------------------------------------------------------------------------------
(* The adapters.  The work of a queue is executed in order.  Writes reach    *)
(* the memory of the peer later, in any order, but before the answer to a    *)
(* read and before a message that follows them.                              *)

Pushed(p, k) ==
  [c \in Cells |->
     LET at == {n \in DOMAIN wire[k] : wire[k][n].c = c}
     IN IF at = {} THEN mem[p][c] ELSE wire[k][CHOOSE n \in at : \A m \in at : m <= n].v]

IsSignalled(work) == work.signalled
Completions(sq) ==
  [n \in DOMAIN SelectSeq(sq, IsSignalled) |->
     [kind |-> SelectSeq(sq, IsSignalled)[n].kind, ok |-> TRUE]]

NextToExecute(sq) == {n \in DOMAIN sq : ~sq[n].executed /\ \A m \in 1..(n - 1) : sq[m].executed}

Execute(e) ==
  LET k == e[1]
      p == e[2]
      o == Peer(e)[2]
  IN \E n \in NextToExecute(end[e].sq) :
     LET work == end[e].sq[n]
         sent == [end[e] EXCEPT !.sq[n].executed = TRUE]
         answered == Completed([end[e] EXCEPT !.sq = SubSeq(@, n + 1, Len(@))],
                               Completions(SubSeq(end[e].sq, 1, n)))
         pushed == Pushed(o, k)
     IN
     /\ end[e].qp = "up" /\ end[Peer(e)].qp = "up"
     /\ \/ /\ work.w \in {"write", "atomic_write"}
           /\ wire' = [wire EXCEPT ![k] =
                         Append(@, [c |-> work.b,
                                    v |-> IF work.w = "write" THEN mem[p][work.a] ELSE work.v])]
           /\ end' = [end EXCEPT ![e] = sent]
           /\ UNCHANGED <<mem, dur>>
        \/ /\ work.kind \in {"read", "flush"}
           /\ mem' = IF work.w = "read"
                       THEN [mem EXCEPT ![o] = pushed, ![p][work.a] = pushed[work.b]]
                       ELSE [mem EXCEPT ![o] = pushed]
           /\ dur' = IF work.w = "persist" THEN [dur EXCEPT ![o] = pushed] ELSE dur
           /\ wire' = [wire EXCEPT ![k] = <<>>]
           /\ end' = [end EXCEPT ![e] = answered]
        \/ /\ work.w \in {"send", "send_imm", "write_imm"}
           /\ end[Peer(e)].rq # <<>>
           /\ LET to == IF work.w = "write_imm" THEN work.b ELSE Head(end[Peer(e)].rq)
                  got == [pushed EXCEPT ![to] = mem[p][work.a]]
                  kind == IF work.w = "write_imm" THEN "recv_imm" ELSE "recv"
              IN /\ mem' = [mem EXCEPT ![o] = IF work.w = "send" THEN got
                                              ELSE [got EXCEPT !.imm = mem[p]["imm"]]]
                 /\ end' = [end EXCEPT ![e] = sent,
                              ![Peer(e)] = Completed([@ EXCEPT !.rq = Tail(@)],
                                                     <<[kind |-> kind, ok |-> TRUE]>>)]
           /\ wire' = [wire EXCEPT ![k] = <<>>]
           /\ UNCHANGED dur
     /\ UNCHANGED <<ex, proc, net, faults>>

(* The acknowledgement of a write or a send arrives.                         *)
Acknowledge(e) ==
  /\ end[e].sq # <<>> /\ Head(end[e].sq).executed
  /\ end' = [end EXCEPT ![e] = Completed([@ EXCEPT !.sq = Tail(@)],
                                         Completions(<<Head(end[e].sq)>>))]
  /\ UNCHANGED <<ex, proc, mem, dur, net, wire, faults>>

(* No answer from the peer: the QP breaks down with all work on it.  It is a *)
(* fault if the peer did answer and the acknowledgement got lost.            *)
Break(e) ==
  /\ end[e].qp = "up" /\ end[e].sq # <<>> /\ end[Peer(e)].qp # "up"
  /\ IF Head(end[e].sq).executed THEN MayFail ELSE UNCHANGED faults
  /\ end' = [end EXCEPT ![e] = Flushed(@)]
  /\ UNCHANGED <<ex, proc, mem, dur, net, wire>>

Land(k) ==
  /\ \E n \in DOMAIN wire[k] :
       /\ \A m \in 1..(n - 1) : wire[k][m].c # wire[k][n].c
       /\ mem' = [mem EXCEPT ![k][wire[k][n].c] = wire[k][n].v]
       /\ wire' = [wire EXCEPT ![k] = Without(@, n)]
  /\ UNCHANGED <<ex, proc, dur, net, end, faults>>

(* A line of the cache is written back.                                      *)
Evict(k) ==
  /\ \E c \in {"dst", "sig", "used", "d1", "d2"} :
       /\ dur[k][c] # mem[k][c]
       /\ dur' = [dur EXCEPT ![k][c] = mem[k][c]]
  /\ UNCHANGED <<ex, proc, mem, net, end, wire, faults>>

Hardware == \/ \E k \in Servers : Establish(k) \/ Refuse(k) \/ Abandon(k) \/ Land(k) \/ Evict(k)
            \/ \E e \in Ends : Execute(e) \/ Acknowledge(e) \/ Break(e)

Next == Hardware \/ \E p \in Procs : \E i \in Current(p) : Process(p, i)

Spec == Init /\ [][Next]_vars

------------------------------------------------------------------------------
(* Properties *)

Exited(p) == ~Alive(p)
Unfaulted == faults = MaxFaults
Kinds == {"read", "write", "send", "flush"}

(* Every variable has the values that the programs can give it; in particular*)
(* the rounds never wrap around.                                             *)
TypeOK ==
  /\ ex \in Chosen
  /\ \A p \in Procs : /\ proc[p].pc \in 0..Len(Code[ex][p])
                      /\ proc[p].rounds \in 0..Rounds
                      /\ proc[p].got \subseteq Kinds \cup Receives
                      /\ proc[p].met \in {"", "check", "empty", "other"}
  /\ mem \in [Procs -> [Cells -> Nat]] /\ dur \in [Procs -> [Cells -> Nat]]
  /\ net \in [Servers -> {"idle", "refused", "requested", "taken", "accepted", "up", "down",
                          "failed"}]
  /\ \A e \in Ends : end[e].qp \in {"none", "up", "error"}
  /\ faults \in 0..MaxFaults

(* What a resource of the example depends on: a connection, an endpoint, a   *)
(* request and a registration on the peer, a registration on its buffer.     *)
Buffer(r) ==
  CASE ex = "e02" /\ r = "mr2" -> "mem2"
    [] ex = "e04" /\ r = "mr2" -> "raw"
    [] ex \in {"e08", "e12", "e12s"} -> IF r = "mr" THEN "recv" ELSE "send"
    [] ex \in {"e09", "e09s"} /\ r = "mr2" -> "msg"
    [] ex = "e11" /\ r = "mr2" -> "recv"
    [] OTHER -> "mem"
PeerOf(p, r) == IF ex = "e02" /\ p = 0 /\ r \in {"mr2", "conn2"} THEN "peer2" ELSE "peer"

(* Whose memory the peer reads or writes, and the registration of a cell.    *)
Exposes(p) ==
  IF p = 0 THEN ex = "e03" ELSE ex \in {"e02", "e04", "e05", "e07", "e09", "e09s", "e11", "hash"}
Registration(c) ==
  CASE ex = "e02" -> IF c = "dst2" THEN "mr2" ELSE "mr"
    [] ex = "e04" -> IF c = "raw" THEN "mr2" ELSE "mr"
    [] ex \in {"e08", "e12", "e12s"} -> IF c = "send" THEN "mr2" ELSE "mr"
    [] ex \in {"e09", "e09s"} -> IF c \in {"send", "recv"} THEN "mr2" ELSE "mr"
    [] ex = "e11" -> IF c = "recv" THEN "mr2" ELSE "mr"
    [] OTHER -> "mr"

(* The local cells of unfinished work; a flush has none, and an atomic write *)
(* is sent inline.                                                           *)
SendQueue(e) == {end[e].sq[n] : n \in DOMAIN end[e].sq}
InUse(e) ==
  {work.a : work \in {w \in SendQueue(e) : w.kind # "flush" /\ w.w # "atomic_write"}}
    \cup {end[e].rq[n] : n \in DOMAIN end[e].rq}

(* Every program releases its resources in an order that never leaves one    *)
(* without what it depends on, on every path to every label: the peer and    *)
(* the buffer of a registration outlive it, and the peer outlives its        *)
(* requests, connections and endpoint.  And as long as a connection can      *)
(* carry work, the memory that the peer process may use, and the memory that *)
(* posted work reads from or that a posted receive is to fill, is still      *)
(* registered.  After a failure some programs break this.  The client of two *)
(* servers frees a registered buffer when the second registration fails (02  *)
(* client.c:119).  The clients of 04, 05, 07, 09 and 09s deregister their    *)
(* memory before they disconnect, with work or a receive still posted if     *)
(* they gave up in the middle (04 client.c:218-222, 05 client.c:221-224, 07  *)
(* client.c:215-221, 09 client.c:280-285).                                   *)
HastyAfterFailure ==
  {<<"e04", 0>>, <<"e05", 0>>, <<"e07", 0>>, <<"e09", 0>>, <<"e09s", 0>>}
Clean == Unfaulted /\ \A k \in Servers : net[k] # "failed"
DependenciesOutlive ==
  /\ \A p \in Procs : Alive(p) /\ (<<ex, p>> = <<"e02", 0>> => Clean) =>
       \A r \in proc[p].own :
         /\ r \in {"mr", "mr2", "ep", "req", "conn", "conn2"} => PeerOf(p, r) \in proc[p].own
         /\ r \in {"mr", "mr2"} => Buffer(r) \in proc[p].own
  /\ \A e \in Ends : end[e].qp = "up" /\ end[Peer(e)].qp = "up" =>
       LET p == e[2] IN
         /\ Exposes(p) => "mr" \in proc[p].own
         /\ (<<ex, p>> \in HastyAfterFailure => ~proc[p].failed /\ proc[p].met = "")
              => \A c \in InUse(e) : Registration(c) \in proc[p].own

(* A program that returns has released everything it got, but for the client *)
(* of two servers and the server of the hash table, whose returns in the     *)
(* middle and jumps past the cleanup of the other connection leave some      *)
(* behind (02 client.c:89 and :130, hashserver.c:85).                        *)
Leaky == {<<"e02", 0>>, <<"hash", 1>>}

(* A program that returns 0 has done its work.  Some programs do not hold    *)
(* this, and only because a check of their own went to a label with ret      *)
(* still 0: on an unexpected event (01), on private data that is missing or  *)
(* too short (04 client.c:130, 05 client.c:111, 07 client.c:94, 09           *)
(* client.c:141, singlehashclient.c:177), on a region or a message of the    *)
(* wrong size or content (05 client.c:144, 09 client.c:157, :179 and :249,   *)
(* 09 server.c:222 and :244).  The servers of 08 and 12 have such a check    *)
(* too, but then fail to disconnect, and say so.  Two programs may return 0  *)
(* after any failure: the client of two servers returns what became of the   *)
(* first (02), and the server of 03 overwrites ret in its cleanup (03        *)
(* server.c:184).                                                            *)
ChecksQuietly ==
  {<<"e01", 0>>, <<"e01", 1>>, <<"e04", 0>>, <<"e05", 0>>, <<"e07", 0>>, <<"e09", 0>>,
   <<"e09", 1>>, <<"e09s", 0>>, <<"e09s", 1>>, <<"hash", 0>>}
SuccessMeansDone ==
  \A p \in Procs : Exited(p) /\ ~proc[p].failed /\ ~proc[p].done =>
    \/ <<ex, p>> \in ChecksQuietly /\ proc[p].met = "check"
    \/ <<ex, p>> \in {<<"e02", 0>>, <<"e03", 1>>}

(* Where nothing fails and nobody is refused, every program succeeds, in     *)
(* whatever order events and completions come, unless it meets one of two    *)
(* things.  In 08 a completion may come between rpma_cq_wait, which armed    *)
(* the CQ, and rpma_cq_get_wc, which takes it along with the first: its      *)
(* event is then an extra one, and the wait of the next round leads to an    *)
(* empty CQ and RPMA_E_NO_COMPLETION.  And where the CQs share a channel, in *)
(* 09s and 12s, the answer may come before the acknowledgement of the        *)
(* request, and wait_and_validate_completion takes that for an error.        *)
CleanRunSucceeds ==
  Clean =>
    /\ \A p \in Procs : /\ proc[p].met = "empty" => ex = "e08"
                        /\ proc[p].met = "other" => ex \in {"e09s", "e12s"}
    /\ (\A p \in Procs : proc[p].met = "")
         => \A p \in Procs : ~proc[p].failed /\ (Exited(p) => proc[p].done)

(* What a program says it has done, is done: the bytes read are those of the *)
(* server, what was written and read back is visible, what was flushed or    *)
(* persisted on request is durable, no message of the exchange is lost or    *)
(* taken twice, and the immediate data is the one that was sent.             *)
DoneMeansDelivered ==
  /\ proc[0].done =>
       CASE ex = "e02" -> mem[0]["dst"] = 1 /\ mem[0]["dst2"] = 1
         [] ex = "hash" -> mem[0]["dst"] = 1
         [] ex = "e04" -> mem[1]["dst"] = Greeting
         [] ex = "e05" -> /\ mem[1]["dst"] = Greeting
                          /\ mem[1]["direct"] = 1 => dur[1]["dst"] = Greeting
         [] ex \in {"e09", "e09s"} -> dur[1]["dst"] = Greeting
         [] ex = "e07" -> dur[1]["used"] = 2 /\ dur[1]["d1"] = 1 /\ dur[1]["d2"] = 2
         [] ex \in {"e08", "e12", "e12s"} -> mem[0]["cntr"] = Rounds - 1
         [] OTHER -> TRUE
  /\ proc[1].done =>
       CASE ex = "e03" -> dur[1]["dst"] = Greeting
         [] ex \in {"e10", "e11"} -> mem[1]["imm"] = Imm
         [] OTHER -> TRUE

(* Whatever instant power fails at, a file that carries the signature holds  *)
(* formatted data, and the log of 07 does not count a word that is not there.*)
CrashConsistent ==
  ex \in Pmem /\ dur[1]["sig"] = 1 =>
    IF ex = "e07"
      THEN /\ dur[1]["used"] \in 0..2
           /\ \A n \in 1..dur[1]["used"] : dur[1][Word(n)] = n
      ELSE dur[1]["dst"] # Garbage

(* Cells that an instruction writes, and all that it touches.                *)
Writes(i) == IF i.op \in {"put", "copy"} THEN {i.a} ELSE {}
Touches(i) ==
  CASE i.op \in {"put", "persist", "ifis"} -> {i.a}
    [] i.op \in {"copy", "check"} -> {i.a, i.b}
    [] OTHER -> {}

(* A program that has not met an error leaves the buffers of unfinished work *)
(* alone: it changes no source of its own work or of a read of the peer, and *)
(* looks at no buffer that a read or a receive is still to fill or a write   *)
(* still to reach.                                                           *)
BuffersLeftAlone ==
  \A e \in Ends :
    ~proc[e[2]].failed =>
      \A i \in Current(e[2]) :
        /\ \A work \in SendQueue(e) :
             /\ work.w # "atomic_write" => work.a \notin Writes(i)
             /\ work.w = "read" => work.a \notin Touches(i)
        /\ \A work \in SendQueue(Peer(e)) :
             /\ work.w = "read" /\ end[e].qp = "up" => work.b \notin Writes(i)
             /\ work.w = "write" /\ ~work.executed => work.b \notin Touches(i)
        /\ \A n \in DOMAIN end[e].rq : end[e].qp = "up" => end[e].rq[n] \notin Touches(i)
        /\ e[2] # 0 => \A n \in DOMAIN wire[e[1]] : wire[e[1]][n].c \notin Touches(i)

Blocked(p) ==
  \E i \in Current(p) :
    \/ i.op = "nextreq" /\ net[p] # "requested"
    \/ i.op = "event" /\ end[MyEnd(p, i.k)].ev = <<>>
    \/ i.op = "wait" /\ FirstEvent(i.q, end[MyEnd(p, i.k)].chan) = {}
Stuck == (\A p \in Procs : Exited(p) \/ Blocked(p)) /\ ~ENABLED Hardware

(* The programs never wait for each other: one that waits for ever waits for *)
(* a peer that is gone.  It is a server without a client; or it waits for a  *)
(* message, because only a send fails when the peer disconnects, not a       *)
(* receive; or it is the server of 10 or 11, which wait for the end of a     *)
(* connection even if it was not established.                                *)
Messaging == {"e08", "e09", "e09s", "e10", "e11", "e12", "e12s"}
Forsaken(p) ==
  /\ \A q \in Procs : (p = 0 \/ q = 0) /\ q # p => Exited(q)
  /\ \E i \in Current(p) :
       \/ i.op = "nextreq"
       \/ ex \in Messaging /\ i.op = "wait" /\ i.kinds \cap Receives # {}
       \/ ex \in {"e10", "e11"} /\ p = 1 /\ net[1] = "failed"
NobodyDeadlocks == Stuck => \A p \in Procs : Exited(p) \/ Forsaken(p)
===============================================================================
