--------------------------- MODULE CompletionQueue ---------------------------
(***************************************************************************)
(* The completion queues of one connection and the threads that collect    *)
(* from them: src/src/cq.c and rpma_conn_wait() of src/src/conn.c.         *)
(*                                                                         *)
(* A CQ holds completions (entries).  It is armed by ibv_req_notify_cq();  *)
(* the first completion that reaches an armed CQ disarms it and puts one   *)
(* event on the CQ's completion channel.  rpma_cq_wait() and               *)
(* rpma_conn_wait() take an event, acknowledge it and arm the CQ again;    *)
(* the caller then collects with rpma_cq_get_wc().                         *)
(*                                                                         *)
(* Either each CQ has a channel of its own and a thread that waits on it   *)
(* with rpma_cq_wait(), or all CQs share the connection's channel and one  *)
(* thread waits on it with rpma_conn_wait().  A channel and the thread     *)
(* that waits on it have the same name.                                    *)
(***************************************************************************)
EXTENDS Naturals, Sequences

CONSTANTS
    Cqs,            \* the CQs of the connection: its CQ and, if any, its RCQ
    MainCq,         \* the one of them that is conn->cq
    Shared,         \* is the completion channel shared (rpma_conn_cfg)?
    SharedChannel,  \* the name of the shared channel
    NonBlocking,    \* has the application made the channel's fd non-blocking?
    Failures,       \* which calls may fail: some of "notify", "poll", "event"
    WaitsAgain,     \* does the application wait again after RPMA_E_PROVIDER?
    BatchSizes,     \* values of num_entries given to rpma_cq_get_wc()
    MaxCompletions  \* bound: completions generated for each CQ

ASSUME CqAssumption ==
    /\ MainCq \in Cqs /\ SharedChannel \notin Cqs
    /\ Shared \in BOOLEAN /\ NonBlocking \in BOOLEAN /\ WaitsAgain \in BOOLEAN
    /\ Failures \subseteq {"notify", "poll", "event"}
    /\ BatchSizes \subseteq Nat \ {0}
    /\ MaxCompletions \in Nat

Channels == IF Shared THEN {SharedChannel} ELSE Cqs
ChannelOf(c) == IF Shared THEN SharedChannel ELSE c
CqsOf(t) == {c \in Cqs : ChannelOf(c) = t}

VARIABLES
    produced,   \* completions the RNIC has put into each CQ
    collected,  \* completions rpma_cq_get_wc() has returned from each CQ
    armed,      \* will the next completion of the CQ raise an event?
    chan,       \* the events on each completion channel (the CQs they name)
    unacked,    \* events of each CQ taken from the channel, not acknowledged
    alive,      \* the CQs that are not destroyed
    pc,         \* what each thread is doing
    cur,        \* the CQ each thread works on
    ret         \* what the last call of each thread returned

rnic == <<produced, armed, chan>>
vars == <<produced, collected, armed, chan, unacked, alive, pc, cur, ret>>

Entries(c) == produced[c] - collected[c]

(* Mutant of Init: rpma_cq_new() does not request the first notification.  *)
InitUnarmed ==
    /\ produced = [c \in Cqs |-> 0]
    /\ collected = [c \in Cqs |-> 0]
    /\ armed = [c \in Cqs |-> FALSE]
    /\ chan = [t \in Channels |-> <<>>]
    /\ unacked = [c \in Cqs |-> 0]
    /\ alive = Cqs
    /\ pc = [t \in Channels |-> "app"]
    /\ cur = [t \in Channels |-> IF Shared THEN MainCq ELSE t]
    /\ ret = [t \in Channels |-> "0"]

(* The state right after rpma_cq_new() has succeeded for every CQ: the     *)
(* notification is requested before the CQ is handed to anybody.           *)
Init ==
    /\ produced = [c \in Cqs |-> 0]
    /\ collected = [c \in Cqs |-> 0]
    /\ armed = [c \in Cqs |-> TRUE]
    /\ chan = [t \in Channels |-> <<>>]
    /\ unacked = [c \in Cqs |-> 0]
    /\ alive = Cqs
    /\ pc = [t \in Channels |-> "app"]
    /\ cur = [t \in Channels |-> IF Shared THEN MainCq ELSE t]
    /\ ret = [t \in Channels |-> "0"]

Goto(t, from, to) == pc[t] = from /\ pc' = [pc EXCEPT ![t] = to]
Returns(t, r) == ret' = [ret EXCEPT ![t] = r]

-----------------------------------------------------------------------------
(* The RNIC adds a completion to a CQ.                                     *)
Complete(c) ==
    /\ c \in alive
    /\ produced[c] < MaxCompletions
    /\ produced' = [produced EXCEPT ![c] = @ + 1]
    /\ armed' = [armed EXCEPT ![c] = FALSE]
    /\ chan' = [chan EXCEPT ![ChannelOf(c)] = IF armed[c] THEN Append(@, c) ELSE @]
    /\ UNCHANGED <<collected, unacked, alive, pc, cur, ret>>

-----------------------------------------------------------------------------
(* rpma_cq_wait() on a CQ with its own channel, rpma_conn_wait() on the    *)
(* shared one: the call gets as far as ibv_get_cq_event().                 *)
Wait(t) ==
    /\ Goto(t, "app", "get_event")
    /\ UNCHANGED <<rnic, collected, unacked, alive, cur, ret>>

(* The other of the two: rpma_cq_wait() refuses a CQ with a shared channel *)
(* and rpma_conn_wait() a connection without one, before they touch it.    *)
WaitRefused(t) ==
    /\ pc[t] = "app"
    /\ Returns(t, IF Shared THEN "RPMA_E_SHARED_CHANNEL" ELSE "RPMA_E_NOT_SHARED_CHNL")
    /\ UNCHANGED <<rnic, collected, unacked, alive, pc, cur>>

(* ibv_get_cq_event() takes the first event; rpma_conn_wait() finds out    *)
(* which of its CQs the event names and stores it in *cq.                  *)
GetEvent(t) ==
    /\ Goto(t, "get_event", "ack")
    /\ chan[t] # <<>>
    /\ LET c == Head(chan[t])
       IN  /\ cur' = [cur EXCEPT ![t] = c]
           /\ unacked' = [unacked EXCEPT ![c] = @ + 1]
    /\ chan' = [chan EXCEPT ![t] = Tail(@)]
    /\ UNCHANGED <<produced, collected, armed, alive, ret>>

(* ibv_get_cq_event() has nothing to return and the fd does not block; or  *)
(* rpma_conn_wait() is given the event of a CQ that is none of the         *)
(* connection's, and returns without acknowledging it.                     *)
GetEventFails(t) ==
    /\ \/ /\ NonBlocking /\ chan[t] = <<>>
          /\ Goto(t, "get_event", "app")
          /\ Returns(t, "RPMA_E_NO_COMPLETION")
       \/ /\ "event" \in Failures /\ Shared
          /\ Goto(t, "get_event", "failed")
          /\ Returns(t, "RPMA_E_UNKNOWN")
    /\ UNCHANGED <<rnic, collected, unacked, alive, cur>>

(* Mutant of AckEvent: the event is not acknowledged.                      *)
AckEventForgotten(t) ==
    /\ Goto(t, "ack", "notify")
    /\ UNCHANGED <<rnic, collected, unacked, alive, cur, ret>>

(* ibv_ack_cq_events() for the one event that was taken.                   *)
AckEvent(t) ==
    /\ Goto(t, "ack", "notify")
    /\ unacked' = [unacked EXCEPT ![cur[t]] = @ - 1]
    /\ UNCHANGED <<rnic, collected, alive, cur, ret>>

(* Mutant of RequestNotify: the wait returns without arming the CQ.        *)
RequestNotifyForgotten(t) ==
    /\ Goto(t, "notify", "collect")
    /\ Returns(t, "0")
    /\ UNCHANGED <<rnic, collected, unacked, alive, cur>>

(* ibv_req_notify_cq() arms the CQ: the completions it already holds raise *)
(* no event.  The caller goes on to collect them.                          *)
RequestNotify(t) ==
    /\ Goto(t, "notify", "collect")
    /\ armed' = [armed EXCEPT ![cur[t]] = TRUE]
    /\ Returns(t, "0")
    /\ UNCHANGED <<produced, collected, chan, unacked, alive, cur>>

RequestNotifyFails(t) ==
    /\ "notify" \in Failures
    /\ Goto(t, "notify", IF WaitsAgain THEN "app" ELSE "failed")
    /\ Returns(t, "RPMA_E_PROVIDER")
    /\ UNCHANGED <<rnic, collected, unacked, alive, cur>>

-----------------------------------------------------------------------------
(* The application may also collect without a wait (rpma_cq_get_fd()).     *)
CollectUnasked(t) ==
    /\ Goto(t, "app", "collect")
    /\ \E c \in CqsOf(t) \cap alive : cur' = [cur EXCEPT ![t] = c]
    /\ UNCHANGED <<rnic, collected, unacked, alive, ret>>

(* rpma_cq_get_wc(): up to n completions, or RPMA_E_NO_COMPLETION, after   *)
(* which the application may wait again.                                   *)
GetWc(t, n) ==
    /\ pc[t] = "collect"
    /\ LET c == cur[t]
           got == IF Entries(c) < n THEN Entries(c) ELSE n
       IN  /\ collected' = [collected EXCEPT ![c] = @ + got]
           /\ IF got = 0
              THEN Goto(t, "collect", "app") /\ Returns(t, "RPMA_E_NO_COMPLETION")
              ELSE UNCHANGED pc /\ Returns(t, "0")
    /\ UNCHANGED <<rnic, unacked, alive, cur>>

(* ibv_poll_cq() fails, or returns more completions than were asked for.   *)
GetWcFails(t) ==
    /\ "poll" \in Failures
    /\ Goto(t, "collect", "failed")
    /\ Returns(t, "RPMA_E_PROVIDER") \/ Returns(t, "RPMA_E_UNKNOWN")
    /\ UNCHANGED <<rnic, collected, unacked, alive, cur>>

-----------------------------------------------------------------------------
(* The application calls rpma_conn_delete(), in order or after an error,   *)
(* when none of its threads is inside a call on the connection.            *)
Close ==
    /\ \A t \in Channels : pc[t] \in {"app", "failed"}
    /\ pc' = [t \in Channels |-> "closing"]
    /\ UNCHANGED <<rnic, collected, unacked, alive, cur, ret>>

(* rpma_cq_delete(), of the RCQ before the CQ: ibv_destroy_cq() waits      *)
(* until every event taken from the channel is acknowledged.  What is left *)
(* on the channel is of no interest any more: every thread is closing.     *)
Delete(c) ==
    /\ pc[ChannelOf(c)] = "closing"
    /\ c \in alive
    /\ c = MainCq => alive = {c}
    /\ unacked[c] = 0
    /\ alive' = alive \ {c}
    /\ armed' = [armed EXCEPT ![c] = FALSE]
    /\ UNCHANGED <<produced, collected, chan, unacked, pc, cur, ret>>

(* A step of a call that a thread is inside of.                            *)
InCall(t) ==
    \/ GetEvent(t) \/ GetEventFails(t)
    \/ AckEvent(t)
    \/ RequestNotify(t) \/ RequestNotifyFails(t)
    \/ \E n \in BatchSizes : GetWc(t, n)
    \/ GetWcFails(t)

Next ==
    \/ \E c \in Cqs : Complete(c) \/ Delete(c)
    \/ \E t \in Channels : Wait(t) \/ WaitRefused(t) \/ CollectUnasked(t) \/ InCall(t)
    \/ Close

(* A call that was made goes on (WF), and the application does not stop    *)
(* waiting for good unless it closes the connection (SF: it may poll or    *)
(* make calls that are refused in between).                                *)
Fairness ==
    \A t \in Channels : WF_vars(InCall(t)) /\ SF_vars(Wait(t))

Spec == Init /\ [][Next]_vars
FairSpec == Spec /\ Fairness

-----------------------------------------------------------------------------
(* TypeOK: every variable has the values cq.c can give it; in particular   *)
(* no event is acknowledged that was not taken (ibv_ack_cq_events()).      *)
TypeOK ==
    /\ produced \in [Cqs -> 0..MaxCompletions]
    /\ collected \in [Cqs -> Nat]
    /\ armed \in [Cqs -> BOOLEAN]
    /\ chan \in [Channels -> Seq(Cqs)]
    /\ unacked \in [Cqs -> Nat]
    /\ alive \subseteq Cqs
    /\ pc \in [Channels -> {"app", "get_event", "ack", "notify", "collect", "failed", "closing"}]
    /\ cur \in [Channels -> Cqs]
    /\ \A t \in Channels : ChannelOf(cur[t]) = t
    /\ ret \in [Channels -> {"0", "RPMA_E_PROVIDER", "RPMA_E_NO_COMPLETION",
                            "RPMA_E_SHARED_CHANNEL", "RPMA_E_NOT_SHARED_CHNL",
                            "RPMA_E_UNKNOWN"}]

(* c has an event on its channel.                                          *)
Pending(c) == \E i \in DOMAIN chan[ChannelOf(c)] : chan[ChannelOf(c)][i] = c

(* The thread has taken c's event, or collects from c.                     *)
Serving(c) ==
    LET t == ChannelOf(c) IN cur[t] = c /\ pc[t] \in {"ack", "notify", "collect"}

(* The thread of c's channel neither gave up nor closes the connection.    *)
Open(c) == pc[ChannelOf(c)] \notin {"failed", "closing"}

(* No wake-up is lost: as long as the application has not given up, a CQ   *)
(* that holds completions and is not being collected from has an event on  *)
(* its channel, so that the next rpma_cq_wait() or rpma_conn_wait()        *)
(* returns.  It depends on both calls arming the CQ again after they take  *)
(* the event and before their caller collects.                             *)
NoLostWakeup ==
    \A c \in Cqs :
        Entries(c) > 0 /\ Open(c) /\ ~Serving(c) => Pending(c)

(* ibv_destroy_cq() never blocks in rpma_cq_delete(): every event that the *)
(* wait functions took from a channel has been acknowledged by the time    *)
(* the connection is deleted, also after a wait that failed half-way.      *)
DeleteNeverBlocks ==
    \A c \in Cqs : pc[ChannelOf(c)] = "closing" => unacked[c] = 0

(* What the notifications are for: every completion is collected unless    *)
(* the application gives up or closes the connection.                      *)
Service == INSTANCE CompletionService WITH open <- {c \in Cqs : Open(c)}

(* cq.c and rpma_conn_wait() implement the service CompletionService.      *)
ServiceSpec == Service!Spec
=============================================================================
