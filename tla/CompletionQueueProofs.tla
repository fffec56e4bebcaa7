------------------------ MODULE CompletionQueueProofs ------------------------
(***************************************************************************)
(* Theorems about CompletionQueue, for any number of CQs and completions,  *)
(* shared and own channels, blocking and non-blocking, with failures.      *)
(***************************************************************************)
EXTENDS CompletionQueue, Integers, TLAPS

(* The steps without arithmetic or sequence constructors, which are most   *)
(* of them, are for Zenon; the others name the SMT solver.                 *)
USE Zenon

(* An application that is told RPMA_E_PROVIDER by a wait does not wait     *)
(* again.  (Without it NoLostWakeup fails: see the run cq_notify_failure.) *)
AppStopsOnError == ~WaitsAgain \/ "notify" \notin Failures

(* The thread has taken c's event and has not armed c again.               *)
Taken(c) == pc[ChannelOf(c)] \in {"ack", "notify"} /\ cur[ChannelOf(c)] = c

(* A channel carries events of its own CQs, at most one of each.           *)
ChannelInv ==
    \A t \in Channels :
        /\ \A i \in DOMAIN chan[t] : ChannelOf(chan[t][i]) = t
        /\ \A i, j \in DOMAIN chan[t] : chan[t][i] = chan[t][j] => i = j

(* A CQ's event is on the channel or in the hands of the thread, not both, *)
(* and an armed CQ has none.                                               *)
EventInv ==
    \A c \in Cqs :
        /\ ~(Pending(c) /\ Taken(c))
        /\ armed[c] => ~Pending(c) /\ ~Taken(c)

(* An armed CQ holds completions only while it is being collected from.    *)
EntriesInv ==
    \A c \in Cqs :
        /\ collected[c] <= produced[c]
        /\ Open(c) /\ armed[c] /\ Entries(c) > 0
             => pc[ChannelOf(c)] = "collect" /\ cur[ChannelOf(c)] = c

(* Only the event between GetEvent and AckEvent is not acknowledged.       *)
AckInv ==
    \A c \in Cqs :
        unacked[c] = IF pc[ChannelOf(c)] = "ack" /\ cur[ChannelOf(c)] = c THEN 1 ELSE 0

Inv == TypeOK /\ ChannelInv /\ EventInv /\ EntriesInv /\ AckInv

(* A CQ that is not armed has an event, unless the application gave up.    *)
WakeupInv ==
    \A c \in Cqs : Open(c) /\ ~armed[c] => Pending(c) \/ Taken(c)

-----------------------------------------------------------------------------
(* The channel on which a CQ reports (rpma_cq.channel) is one of the       *)
(* connection's channels.                                                  *)
LEMMA ChannelOfType == \A c \in Cqs : ChannelOf(c) \in Channels
  BY DEF ChannelOf, Channels

(* The state that rpma_cq_new() leaves behind satisfies the inductive      *)
(* invariant.                                                              *)
THEOREM InitInv == Init => Inv
  <1> SUFFICES ASSUME Init PROVE Inv
    OBVIOUS
  <1>1. TypeOK
    <2>1. \A t \in Channels : cur[t] \in Cqs /\ ChannelOf(cur[t]) = t
      BY CqAssumption DEF Init, Channels, ChannelOf
    <2>2. \A t \in Channels : chan[t] \in Seq(Cqs)
      BY SMT DEF Init
    <2>3. 0 \in Nat /\ 0 \in 0..MaxCompletions
      BY SMT, CqAssumption
    <2> QED BY <2>1, <2>2, <2>3 DEF Init, TypeOK
  <1>2. ChannelInv /\ AckInv
    BY SMT, ChannelOfType DEF Init, ChannelInv, AckInv
  <1>3. EventInv /\ EntriesInv
    BY SMT, ChannelOfType DEF Init, EventInv, EntriesInv, Pending, Taken, Entries
  <1> QED
    BY <1>1, <1>2, <1>3 DEF Inv

(* No step of cq.c, of rpma_conn_wait() or of the RNIC leaves the types;   *)
(* the acknowledgement of ibv_ack_cq_events() needs AckInv.                *)
LEMMA TypeStep == TypeOK /\ AckInv /\ ChannelInv /\ [Next]_vars => TypeOK'
  <1> SUFFICES ASSUME TypeOK, AckInv, ChannelInv, [Next]_vars PROVE TypeOK'
    OBVIOUS
  <1> USE CqAssumption, ChannelOfType
  <1>1. ASSUME NEW c \in Cqs, Complete(c) PROVE TypeOK'
    <2>1. chan[ChannelOf(c)] \in Seq(Cqs) /\ Append(chan[ChannelOf(c)], c) \in Seq(Cqs)
      BY SMT DEF TypeOK
    <2>2. chan' \in [Channels -> Seq(Cqs)]
      BY <1>1, <2>1 DEF TypeOK, Complete
    <2>3. produced' \in [Cqs -> 0..MaxCompletions]
      <3>1. produced \in [Cqs -> 0..MaxCompletions]
        BY DEF TypeOK
      <3>2. produced[c] < MaxCompletions /\ produced' = [produced EXCEPT ![c] = @ + 1]
        BY <1>1 DEF Complete
      <3>3. MaxCompletions \in Nat
        BY DEF CqAssumption
      <3>4. produced[c] + 1 \in 0..MaxCompletions
        BY ONLY SMT, c \in Cqs, <3>1, <3>2, <3>3
      <3> QED
        BY <3>1, <3>2, <3>4
    <2>4. armed' \in [Cqs -> BOOLEAN]
      BY <1>1 DEF TypeOK, Complete
    <2> QED
      BY <1>1, <2>2, <2>3, <2>4 DEF TypeOK, Complete
  <1>2. ASSUME NEW c \in Cqs, Delete(c) PROVE TypeOK'
    BY <1>2 DEF TypeOK, Delete
  <1>3. ASSUME NEW t \in Channels, Wait(t) PROVE TypeOK'
    BY <1>3 DEF TypeOK, Wait, Goto, rnic
  <1>4. ASSUME NEW t \in Channels, WaitRefused(t) PROVE TypeOK'
    BY <1>4 DEF TypeOK, WaitRefused, Returns, rnic
  <1>5. ASSUME NEW t \in Channels, CollectUnasked(t) PROVE TypeOK'
    BY ZenonT(30), <1>5 DEF TypeOK, CollectUnasked, Goto, rnic, CqsOf
  <1>6. ASSUME NEW t \in Channels, GetEvent(t) PROVE TypeOK'
    <2>1. chan[t] \in Seq(Cqs) /\ chan[t] # <<>>
      BY <1>6 DEF TypeOK, GetEvent
    <2>2. Head(chan[t]) = chan[t][1] /\ 1 \in DOMAIN chan[t] /\ Tail(chan[t]) \in Seq(Cqs)
      BY SMT, <2>1
    <2>3. Head(chan[t]) \in Cqs /\ ChannelOf(Head(chan[t])) = t
      BY SMT, <2>1, <2>2 DEF ChannelInv
    <2>4. chan' \in [Channels -> Seq(Cqs)]
      BY <1>6, <2>2 DEF TypeOK, GetEvent
    <2>5. cur' \in [Channels -> Cqs] /\ \A u \in Channels : ChannelOf(cur'[u]) = u
      BY <1>6, <2>3 DEF TypeOK, GetEvent
    <2>6. unacked' \in [Cqs -> Nat]
      <3>1. unacked \in [Cqs -> Nat]
        BY DEF TypeOK
      <3>2. unacked' = [unacked EXCEPT ![Head(chan[t])] = @ + 1]
        BY <1>6 DEF GetEvent
      <3> QED
        BY SMT, <2>3, <3>1, <3>2
    <2>7. pc' \in [Channels -> {"app", "get_event", "ack", "notify", "collect", "failed", "closing"}]
      BY <1>6 DEF TypeOK, GetEvent, Goto
    <2> QED
      BY <1>6, <2>4, <2>5, <2>6, <2>7 DEF TypeOK, GetEvent, ChannelOf
  <1>7. ASSUME NEW t \in Channels, GetEventFails(t) PROVE TypeOK'
    BY <1>7 DEF TypeOK, GetEventFails, Goto, Returns, rnic
  <1>8. ASSUME NEW t \in Channels, AckEvent(t) PROVE TypeOK'
    <2>1. unacked[cur[t]] = 1
      BY SMT, <1>8 DEF TypeOK, AckInv, AckEvent, Goto
    <2> QED
      BY SMTT(30), <1>8, <2>1 DEF TypeOK, AckEvent, Goto, rnic
  <1>9. ASSUME NEW t \in Channels, RequestNotify(t) PROVE TypeOK'
    BY <1>9 DEF TypeOK, RequestNotify, Goto, Returns
  <1>10. ASSUME NEW t \in Channels, RequestNotifyFails(t) PROVE TypeOK'
    BY <1>10 DEF TypeOK, RequestNotifyFails, Goto, Returns, rnic
  <1>11. ASSUME NEW t \in Channels, NEW n \in BatchSizes, GetWc(t, n) PROVE TypeOK'
    <2> DEFINE c == cur[t]
               got == IF Entries(c) < n THEN Entries(c) ELSE n
    <2>1. c \in Cqs /\ n \in Nat /\ produced[c] \in Nat /\ collected[c] \in Nat
      BY SMT DEF TypeOK
    <2>2. collected[c] + got \in Nat
      BY SMT, <2>1 DEF Entries
    <2>3. collected' = [collected EXCEPT ![c] = @ + got]
      BY <1>11 DEF GetWc
    <2>4. collected' \in [Cqs -> Nat]
      BY <2>1, <2>2, <2>3 DEF TypeOK
    <2>5. /\ pc' \in [Channels -> {"app", "get_event", "ack", "notify", "collect", "failed", "closing"}]
          /\ ret' \in [Channels -> {"0", "RPMA_E_PROVIDER", "RPMA_E_NO_COMPLETION",
                                    "RPMA_E_SHARED_CHANNEL", "RPMA_E_NOT_SHARED_CHNL", "RPMA_E_UNKNOWN"}]
      BY <1>11 DEF TypeOK, GetWc, Goto, Returns
    <2> QED
      BY <1>11, <2>4, <2>5 DEF TypeOK, GetWc, rnic, ChannelOf
  <1>12. ASSUME NEW t \in Channels, GetWcFails(t) PROVE TypeOK'
    BY <1>12 DEF TypeOK, GetWcFails, Goto, Returns, rnic
  <1>13. CASE Close
    BY <1>13 DEF TypeOK, Close, rnic
  <1>14. CASE UNCHANGED vars
    BY <1>14 DEF TypeOK, vars
  <1> QED
    BY <1>1, <1>2, <1>3, <1>4, <1>5, <1>6, <1>7, <1>8, <1>9, <1>10, <1>11, <1>12, <1>13, <1>14
    DEF Next, InCall

(* What the first event of a channel is, and what is left behind it.       *)
LEMMA TakeFirst ==
  ASSUME TypeOK, ChannelInv, NEW t \in Channels, chan[t] # <<>>
  PROVE  /\ Head(chan[t]) = chan[t][1] /\ Head(chan[t]) \in Cqs /\ ChannelOf(Head(chan[t])) = t
         /\ Tail(chan[t]) \in Seq(Cqs)
         /\ \A i \in DOMAIN Tail(chan[t]) : i + 1 \in DOMAIN chan[t] /\ Tail(chan[t])[i] = chan[t][i + 1]
         /\ \A i \in DOMAIN chan[t] : i # 1 => i - 1 \in DOMAIN Tail(chan[t])
  <1>1. chan[t] \in Seq(Cqs)
    BY DEF TypeOK
  <1>2. 1 \in DOMAIN chan[t] /\ Head(chan[t]) = chan[t][1] /\ chan[t][1] \in Cqs
    BY SMT, <1>1
  <1>3. ChannelOf(chan[t][1]) = t
    BY <1>2 DEF ChannelInv
  <1> QED
    BY SMT, <1>1, <1>2, <1>3

(* No step puts a second event of a CQ on its channel, or an event on a    *)
(* channel that is not the CQ's.                                           *)
LEMMA ChannelStep == TypeOK /\ ChannelInv /\ EventInv /\ [Next]_vars => ChannelInv'
  <1> SUFFICES ASSUME TypeOK, ChannelInv, EventInv, [Next]_vars PROVE ChannelInv'
    OBVIOUS
  <1> USE ChannelOfType
  <1>1. ASSUME NEW c \in Cqs, Complete(c) PROVE ChannelInv'
    <2> DEFINE u == ChannelOf(c)
    <2>1. chan[u] \in Seq(Cqs) /\ u \in Channels
      BY DEF TypeOK
    <2>2. ASSUME armed[c] PROVE \A i \in DOMAIN chan[u] : chan[u][i] # c
      BY <2>2 DEF EventInv, Pending
    <2>3. ASSUME NEW t \in Channels, t # u PROVE chan'[t] = chan[t]
      BY <1>1, <2>3 DEF Complete, TypeOK
    <2>4. CASE ~armed[c]
      <3>1. chan'[u] = chan[u]
        BY <1>1, <2>1, <2>4 DEF Complete, TypeOK
      <3> QED
        BY SMT, <2>3, <3>1 DEF ChannelInv, ChannelOf
    <2>5. CASE armed[c]
      <3>1. chan'[u] = Append(chan[u], c)
        BY <1>1, <2>1, <2>5 DEF Complete, TypeOK
      <3>2. /\ DOMAIN chan'[u] = 1..(Len(chan[u]) + 1)
            /\ DOMAIN chan[u] = 1..Len(chan[u])
            /\ \A i \in DOMAIN chan[u] : chan'[u][i] = chan[u][i]
            /\ chan'[u][Len(chan[u]) + 1] = c
            /\ Len(chan[u]) \in Nat
        BY SMT, <2>1, <3>1
      <3>3. \A i \in DOMAIN chan'[u] : i \in DOMAIN chan[u] \/ i = Len(chan[u]) + 1
        BY SMT, <3>2
      <3>4. \A i \in DOMAIN chan'[u] : ChannelOf(chan'[u][i]) = u
        BY <2>1, <3>2, <3>3 DEF ChannelInv
      <3>5. \A i, j \in DOMAIN chan'[u] : chan'[u][i] = chan'[u][j] => i = j
        BY SMTT(30), <2>1, <2>2, <2>5, <3>2, <3>3 DEF ChannelInv
      <3> QED
        BY <2>3, <3>4, <3>5 DEF ChannelInv, ChannelOf
    <2> QED
      BY <2>4, <2>5
  <1>2. ASSUME NEW t \in Channels, GetEvent(t) PROVE ChannelInv'
    <2>1. chan'[t] = Tail(chan[t]) /\ \A u \in Channels : u # t => chan'[u] = chan[u]
      BY <1>2 DEF GetEvent, TypeOK
    <2>2. \A i \in DOMAIN chan'[t] : i + 1 \in DOMAIN chan[t] /\ chan'[t][i] = chan[t][i + 1]
      BY <1>2, <2>1, TakeFirst DEF GetEvent
    <2>3. \A i \in DOMAIN chan'[t] : ChannelOf(chan'[t][i]) = t
      BY SMT, <2>2 DEF ChannelInv
    <2>4. \A i, j \in DOMAIN chan'[t] : chan'[t][i] = chan'[t][j] => i = j
      <3>1. \A i \in DOMAIN chan'[t] : i \in Nat
        BY SMT, <1>2, <2>1, TakeFirst DEF GetEvent
      <3>2. ASSUME NEW i \in DOMAIN chan'[t], NEW j \in DOMAIN chan'[t], chan'[t][i] = chan'[t][j]
            PROVE  i = j
        <4>1. i + 1 = j + 1
          BY <2>2, <3>2 DEF ChannelInv
        <4> QED
          BY SMT, <3>1, <4>1
      <3> QED
        BY <3>2
    <2> QED
      BY <2>1, <2>3, <2>4 DEF ChannelInv, ChannelOf
  <1>3. CASE UNCHANGED chan
    BY <1>3 DEF ChannelInv, ChannelOf
  <1> QED
    BY <1>1, <1>2, <1>3
    DEF Next, InCall, Delete, Wait, WaitRefused, CollectUnasked, GetEventFails, AckEvent,
        RequestNotify, RequestNotifyFails, GetWc, GetWcFails, Close, vars, rnic

(* No step changes the count of unacknowledged events but the two of a     *)
(* wait that take an event and acknowledge it.                             *)
LEMMA AckStep == TypeOK /\ ChannelInv /\ AckInv /\ [Next]_vars => AckInv'
  <1> SUFFICES ASSUME TypeOK, ChannelInv, AckInv, [Next]_vars, NEW c \in Cqs
               PROVE  unacked'[c] = IF pc'[ChannelOf(c)] = "ack" /\ cur'[ChannelOf(c)] = c THEN 1 ELSE 0
    BY DEF AckInv, ChannelOf
  <1> DEFINE u == ChannelOf(c)
  <1>0. u \in Channels /\ unacked[c] = IF pc[u] = "ack" /\ cur[u] = c THEN 1 ELSE 0
    BY ChannelOfType DEF AckInv
  <1>1. ASSUME NEW t \in Channels, GetEvent(t) PROVE unacked'[c] = IF pc'[u] = "ack" /\ cur'[u] = c THEN 1 ELSE 0
    <2>1. PICK h \in Cqs : h = Head(chan[t]) /\ ChannelOf(h) = t
      BY <1>1, TakeFirst DEF GetEvent
    <2>2. /\ pc[t] = "get_event" /\ pc' = [pc EXCEPT ![t] = "ack"]
          /\ cur' = [cur EXCEPT ![t] = h] /\ unacked' = [unacked EXCEPT ![h] = @ + 1]
      BY <1>1, <2>1 DEF GetEvent, Goto
    <2>3. pc'[t] = "ack" /\ cur'[t] = h /\ (u # t => pc'[u] = pc[u] /\ cur'[u] = cur[u])
      BY <1>0, <2>2 DEF TypeOK
    <2>4. CASE c = h
      <3>1. unacked'[c] = unacked[c] + 1
        BY <2>2, <2>4 DEF TypeOK
      <3> QED
        BY SMT, <1>0, <2>1, <2>2, <2>3, <2>4, <3>1
    <2>5. CASE c # h
      <3>1. unacked'[c] = unacked[c]
        BY <2>2, <2>5 DEF TypeOK
      <3> QED
        BY <1>0, <2>2, <2>3, <2>5, <3>1
    <2> QED
      BY <2>4, <2>5
  <1>2. ASSUME NEW t \in Channels, AckEvent(t) PROVE unacked'[c] = IF pc'[u] = "ack" /\ cur'[u] = c THEN 1 ELSE 0
    <2>1. /\ pc[t] = "ack" /\ pc' = [pc EXCEPT ![t] = "notify"]
          /\ cur' = cur /\ unacked' = [unacked EXCEPT ![cur[t]] = @ - 1]
      BY <1>2 DEF AckEvent, Goto
    <2>2. cur[t] \in Cqs /\ ChannelOf(cur[t]) = t
      BY DEF TypeOK
    <2>3. pc'[t] = "notify" /\ (u # t => pc'[u] = pc[u])
      BY <1>0, <2>1 DEF TypeOK
    <2>4. CASE c = cur[t]
      <3>1. unacked'[c] = unacked[c] - 1
        BY <2>1, <2>4 DEF TypeOK
      <3> QED
        BY SMT, <1>0, <2>1, <2>2, <2>3, <2>4, <3>1
    <2>5. CASE c # cur[t]
      <3>1. unacked'[c] = unacked[c]
        BY <2>1, <2>5 DEF TypeOK
      <3> QED
        BY <1>0, <2>1, <2>3, <2>5, <3>1
    <2> QED
      BY <2>4, <2>5
  <1>3. ASSUME UNCHANGED unacked, pc[u] # "ack", pc'[u] # "ack" PROVE unacked'[c] = IF pc'[u] = "ack" /\ cur'[u] = c THEN 1 ELSE 0
    BY <1>0, <1>3
  <1>4. ASSUME UNCHANGED unacked, UNCHANGED cur, pc'[u] = pc[u] PROVE unacked'[c] = IF pc'[u] = "ack" /\ cur'[u] = c THEN 1 ELSE 0
    BY <1>0, <1>4
  <1>5. ASSUME NEW t \in Channels, pc[t] # "ack", pc'[t] # "ack", u # t => pc'[u] = pc[u]
        PROVE  pc'[u] = pc[u] \/ (pc[u] # "ack" /\ pc'[u] # "ack")
    BY <1>5
  <1>6. ASSUME NEW t \in Channels,
               \/ Wait(t) \/ GetEventFails(t) \/ RequestNotify(t) \/ RequestNotifyFails(t) \/ GetWcFails(t)
               \/ \E n \in BatchSizes : GetWc(t, n)
        PROVE  UNCHANGED <<unacked, cur>> /\ (pc'[u] = pc[u] \/ (pc[u] # "ack" /\ pc'[u] # "ack"))
    <2>1. CASE Wait(t)
      BY <1>0, <1>5, <2>1 DEF TypeOK, Goto, rnic, Wait
    <2>2. CASE GetEventFails(t)
      BY <1>0, <1>5, <2>2 DEF TypeOK, Goto, rnic, GetEventFails
    <2>3. CASE RequestNotify(t)
      BY <1>0, <1>5, <2>3 DEF TypeOK, Goto, rnic, RequestNotify
    <2>4. CASE RequestNotifyFails(t)
      BY <1>0, <1>5, <2>4 DEF TypeOK, Goto, rnic, RequestNotifyFails
    <2>5. CASE GetWcFails(t)
      BY <1>0, <1>5, <2>5 DEF TypeOK, Goto, rnic, GetWcFails
    <2>6. CASE \E n \in BatchSizes : GetWc(t, n)
      BY <1>0, <1>5, <2>6 DEF TypeOK, Goto, rnic, GetWc
    <2> QED
      BY <1>6, <2>1, <2>2, <2>3, <2>4, <2>5, <2>6
  <1>7. ASSUME NEW t \in Channels, CollectUnasked(t)
        PROVE  unacked'[c] = IF pc'[u] = "ack" /\ cur'[u] = c THEN 1 ELSE 0
    <2>1. UNCHANGED unacked /\ pc[t] = "app" /\ pc' = [pc EXCEPT ![t] = "collect"]
      BY <1>7 DEF CollectUnasked, Goto
    <2>2. CASE u = t
      BY <1>0, <1>3, <2>1, <2>2 DEF TypeOK
    <2>3. CASE u # t
      <3>1. pc'[u] = pc[u]
        BY <1>0, <2>1, <2>3 DEF TypeOK
      <3>2. cur'[u] = cur[u]
        BY <1>0, <1>7, <2>3 DEF TypeOK, CollectUnasked
      <3> QED
        BY <1>0, <2>1, <3>1, <3>2
    <2> QED
      BY <2>2, <2>3
  <1>8. CASE Close
    <2>1. UNCHANGED unacked /\ pc[u] # "ack" /\ pc'[u] # "ack"
      BY <1>0, <1>8 DEF Close
    <2> QED
      BY <1>3, <2>1
  <1>9. ASSUME UNCHANGED <<unacked, cur, pc>> PROVE unacked'[c] = IF pc'[u] = "ack" /\ cur'[u] = c THEN 1 ELSE 0
    BY <1>4, <1>9
  <1>10. \/ UNCHANGED <<unacked, cur, pc>> \/ Close
         \/ \E t \in Channels :
               \/ GetEvent(t) \/ AckEvent(t) \/ CollectUnasked(t)
               \/ Wait(t) \/ GetEventFails(t) \/ RequestNotify(t) \/ RequestNotifyFails(t) \/ GetWcFails(t)
               \/ \E n \in BatchSizes : GetWc(t, n)
    BY DEF Next, InCall, Complete, Delete, WaitRefused, vars
  <1> QED
    BY <1>1, <1>2, <1>3, <1>4, <1>6, <1>7, <1>8, <1>9, <1>10

-----------------------------------------------------------------------------
(* How a step changes what is on the channel.                              *)
LEMMA PendingComplete ==
  ASSUME TypeOK, NEW d \in Cqs, Complete(d), NEW c \in Cqs
  PROVE  Pending(c)' <=> Pending(c) \/ (c = d /\ armed[d])
  <1> DEFINE u == ChannelOf(c)
             v == ChannelOf(d)
  <1>1. u \in Channels /\ v \in Channels /\ chan[u] \in Seq(Cqs) /\ chan[v] \in Seq(Cqs)
    BY ChannelOfType DEF TypeOK
  <1>2. Pending(c)' <=> \E i \in DOMAIN chan'[u] : chan'[u][i] = c
    BY DEF Pending, ChannelOf
  <1>3. CASE u # v \/ ~armed[d]
    <2>1. chan'[u] = chan[u]
      BY <1>1, <1>3 DEF Complete, TypeOK
    <2> QED
      BY <1>2, <1>3, <2>1 DEF Pending
  <1>4. CASE u = v /\ armed[d]
    <2>1. chan'[u] = Append(chan[u], d)
      BY <1>1, <1>4 DEF Complete, TypeOK
    <2>2. /\ DOMAIN chan'[u] = 1..(Len(chan[u]) + 1) /\ DOMAIN chan[u] = 1..Len(chan[u])
          /\ \A i \in DOMAIN chan[u] : chan'[u][i] = chan[u][i]
          /\ chan'[u][Len(chan[u]) + 1] = d
          /\ Len(chan[u]) \in Nat
      BY SMT, <1>1, <2>1
    <2>3. \A i \in DOMAIN chan'[u] : i \in DOMAIN chan[u] \/ i = Len(chan[u]) + 1
      BY SMT, <2>2
    <2>4. DOMAIN chan[u] \subseteq DOMAIN chan'[u] /\ Len(chan[u]) + 1 \in DOMAIN chan'[u]
      BY SMT, <2>2
    <2> QED
      BY <1>2, <1>4, <2>2, <2>3, <2>4 DEF Pending
  <1> QED
    BY <1>3, <1>4

(* ibv_get_cq_event() removes the event of one CQ and no other.            *)
LEMMA PendingGetEvent ==
  ASSUME TypeOK, ChannelInv, NEW t \in Channels, GetEvent(t), NEW c \in Cqs
  PROVE  Pending(c)' <=> Pending(c) /\ c # Head(chan[t])
  <1> DEFINE u == ChannelOf(c)
  <1>1. u \in Channels
    BY ChannelOfType
  <1>2. Pending(c)' <=> \E i \in DOMAIN chan'[u] : chan'[u][i] = c
    BY DEF Pending, ChannelOf
  <1>3. PICK h \in Cqs : h = Head(chan[t]) /\ h = chan[t][1] /\ ChannelOf(h) = t
    BY TakeFirst DEF GetEvent
  <1>4. CASE u # t
    <2>1. chan'[u] = chan[u] /\ c # h
      BY <1>1, <1>3, <1>4 DEF GetEvent, TypeOK
    <2> QED
      BY <1>2, <1>3, <2>1 DEF Pending
  <1>5. CASE u = t
    <2>1. chan'[u] = Tail(chan[t]) /\ chan[t] \in Seq(Cqs) /\ chan[t] # <<>>
      BY <1>1, <1>5 DEF GetEvent, TypeOK
    <2>2. /\ \A i \in DOMAIN chan'[u] : i + 1 \in DOMAIN chan[t] /\ chan'[u][i] = chan[t][i + 1]
          /\ \A i \in DOMAIN chan[t] : i # 1 => i - 1 \in DOMAIN chan'[u]
      BY <2>1, TakeFirst
    <2>3. 1 \in DOMAIN chan[t] /\ DOMAIN chan[t] \subseteq Nat /\ DOMAIN chan'[u] \subseteq Nat \ {0}
      BY SMT, <2>1
    <2>4. ASSUME Pending(c)' PROVE Pending(c) /\ c # h
      <3>1. PICK i \in DOMAIN chan'[u] : chan'[u][i] = c
        BY <1>2, <2>4
      <3>2. i + 1 \in DOMAIN chan[t] /\ chan[t][i + 1] = c /\ i + 1 # 1
        BY SMT, <2>2, <2>3, <3>1
      <3>3. c # h
        BY SMT, <1>3, <2>3, <3>2 DEF ChannelInv
      <3> QED
        BY <1>5, <3>2, <3>3 DEF Pending
    <2>5. ASSUME Pending(c), c # h PROVE Pending(c)'
      <3>1. PICK i \in DOMAIN chan[t] : chan[t][i] = c
        BY <1>5, <2>5 DEF Pending
      <3>2. i # 1 /\ i - 1 \in DOMAIN chan'[u]
        BY <1>3, <2>2, <2>5, <3>1
      <3>3. chan'[u][i - 1] = chan[t][(i - 1) + 1] /\ (i - 1) + 1 = i
        BY SMT, <2>2, <2>3, <3>1, <3>2
      <3> QED
        BY <1>2, <3>1, <3>2, <3>3
    <2> QED
      BY <1>3, <2>4, <2>5
  <1> QED
    BY <1>4, <1>5

(* A step that leaves the channels alone leaves the events on them.        *)
LEMMA PendingSame ==
  ASSUME UNCHANGED chan, NEW c \in Cqs
  PROVE  Pending(c)' <=> Pending(c)
  BY DEF Pending, ChannelOf

-----------------------------------------------------------------------------
(* What a step can do to one CQ: nothing, a completion, its event is taken,*)
(* it is armed or fails to be, it is destroyed.                            *)
Undisturbed(c) ==
    /\ armed'[c] = armed[c] /\ (Pending(c)' <=> Pending(c)) /\ (Taken(c)' <=> Taken(c))
    /\ Open(c)' => Open(c)
Completed(c) ==
    /\ ~armed'[c] /\ (Pending(c)' <=> Pending(c) \/ armed[c]) /\ (Taken(c)' <=> Taken(c))
    /\ Open(c)' => Open(c)
EventTaken(c) ==
    /\ armed'[c] = armed[c] /\ Pending(c) /\ ~Pending(c)' /\ Taken(c)'
Armed(c) ==
    /\ armed'[c] /\ Taken(c) /\ ~Taken(c)' /\ (Pending(c)' <=> Pending(c))
NotArmed(c) ==
    /\ armed'[c] = armed[c] /\ Taken(c) /\ ~Taken(c)' /\ (Pending(c)' <=> Pending(c))
    /\ Open(c)' => WaitsAgain /\ "notify" \in Failures
Destroyed(c) ==
    /\ ~armed'[c] /\ (Pending(c)' <=> Pending(c)) /\ (Taken(c)' <=> Taken(c))
    /\ ~Open(c)'

CqStep(c) ==
    \/ Undisturbed(c) \/ Completed(c) \/ EventTaken(c)
    \/ Armed(c) \/ NotArmed(c) \/ Destroyed(c)

(* A thread that goes on without an event in its hands leaves all CQs as   *)
(* they were.                                                              *)
LEMMA ThreadStep ==
  ASSUME TypeOK, NEW t \in Channels, NEW c \in Cqs, UNCHANGED <<armed, chan>>,
         pc[t] \notin {"ack", "notify"}, pc'[t] \notin {"ack", "notify"},
         pc[t] \notin {"failed", "closing"},
         \A u \in Channels : u # t => pc'[u] = pc[u] /\ cur'[u] = cur[u]
  PROVE  Undisturbed(c)
  <1> DEFINE u == ChannelOf(c)
  <1>1. u \in Channels
    BY ChannelOfType
  <1>2. Taken(c)' <=> Taken(c)
    <2>1. Taken(c)' <=> pc'[u] \in {"ack", "notify"} /\ cur'[u] = c
      BY DEF Taken, ChannelOf
    <2> QED
      BY <1>1, <2>1 DEF Taken
  <1>3. Open(c)' => Open(c)
    BY <1>1 DEF Open, ChannelOf
  <1> QED
    BY <1>2, <1>3, PendingSame DEF Undisturbed

(* Every step of the threads and of the RNIC does one of these to each CQ. *)
LEMMA CqSteps ==
  ASSUME TypeOK, ChannelInv, [Next]_vars, NEW c \in Cqs
  PROVE  CqStep(c)
  <1> DEFINE u == ChannelOf(c)
  <1>0. /\ u \in Channels
        /\ Taken(c)' <=> (pc'[u] \in {"ack", "notify"} /\ cur'[u] = c)
        /\ Open(c)' <=> pc'[u] \notin {"failed", "closing"}
    BY ChannelOfType DEF Taken, Open, ChannelOf
  <1>1. ASSUME NEW d \in Cqs, Complete(d) PROVE CqStep(c)
    <2>1. (Taken(c)' <=> Taken(c)) /\ (Open(c)' <=> Open(c))
      BY <1>0, <1>1 DEF Complete, Taken, Open
    <2>2. CASE c = d
      BY <1>1, <2>1, <2>2, PendingComplete DEF Complete, TypeOK, CqStep, Completed
    <2>3. CASE c # d
      <3>1. armed'[c] = armed[c]
        BY <1>1, <2>3 DEF Complete, TypeOK
      <3> QED
        BY <1>1, <2>1, <2>3, <3>1, PendingComplete DEF CqStep, Undisturbed
    <2> QED
      BY <2>2, <2>3
  <1>2. ASSUME NEW d \in Cqs, Delete(d) PROVE CqStep(c)
    <2>1. (Taken(c)' <=> Taken(c)) /\ (Open(c)' <=> Open(c)) /\ (Pending(c)' <=> Pending(c))
      BY <1>0, <1>2, PendingSame DEF Delete, Taken, Open
    <2>2. CASE c = d
      <3>1. ~armed'[c] /\ ~Open(c)
        BY <1>2, <2>2 DEF Delete, TypeOK, Open
      <3> QED
        BY <2>1, <3>1 DEF CqStep, Destroyed
    <2>3. CASE c # d
      <3>1. armed'[c] = armed[c]
        BY <1>2, <2>3 DEF Delete, TypeOK
      <3> QED
        BY <2>1, <3>1 DEF CqStep, Undisturbed
    <2> QED
      BY <2>2, <2>3
  <1>3. ASSUME NEW t \in Channels, GetEvent(t) PROVE CqStep(c)
    <2>1. PICK h \in Cqs : h = Head(chan[t]) /\ h = chan[t][1] /\ ChannelOf(h) = t
      BY <1>3, TakeFirst DEF GetEvent
    <2>2. /\ pc[t] = "get_event" /\ pc' = [pc EXCEPT ![t] = "ack"] /\ cur' = [cur EXCEPT ![t] = h]
          /\ armed' = armed
      BY <1>3, <2>1 DEF GetEvent, Goto
    <2>3. pc'[t] = "ack" /\ cur'[t] = h /\ (u # t => pc'[u] = pc[u] /\ cur'[u] = cur[u])
      BY <1>0, <2>2 DEF TypeOK
    <2>4. CASE c = h
      <3>1. Pending(c)
        <4>1. chan[t] \in Seq(Cqs) /\ chan[t] # <<>>
          BY <1>3 DEF GetEvent, TypeOK
        <4>2. 1 \in DOMAIN chan[t]
          BY SMT, <4>1
        <4> QED
          BY <2>1, <2>4, <4>2 DEF Pending
      <3>2. ~Pending(c)'
        BY <1>3, <2>1, <2>4, PendingGetEvent
      <3> QED
        BY <1>0, <2>1, <2>2, <2>3, <2>4, <3>1, <3>2 DEF CqStep, EventTaken
    <2>5. CASE c # h
      <3>1. Pending(c)' <=> Pending(c)
        BY <1>3, <2>1, <2>5, PendingGetEvent
      <3>2. (Taken(c)' <=> Taken(c)) /\ (Open(c)' => Open(c))
        BY <1>0, <2>2, <2>3, <2>5 DEF Taken, Open
      <3> QED
        BY <2>2, <3>1, <3>2 DEF CqStep, Undisturbed
    <2> QED
      BY <2>4, <2>5
  <1>4. ASSUME NEW t \in Channels, AckEvent(t) PROVE CqStep(c)
    <2>1. pc[t] = "ack" /\ pc'[t] = "notify" /\ cur' = cur /\ (u # t => pc'[u] = pc[u])
      BY <1>0, <1>4 DEF AckEvent, Goto, TypeOK
    <2>2. (Taken(c)' <=> Taken(c)) /\ (Open(c)' => Open(c))
      BY <1>0, <2>1 DEF Taken, Open
    <2> QED
      BY <1>4, <2>2, PendingSame DEF AckEvent, rnic, CqStep, Undisturbed
  <1>5. ASSUME NEW t \in Channels, RequestNotify(t) PROVE CqStep(c)
    <2>1. /\ pc[t] = "notify" /\ pc'[t] = "collect" /\ cur' = cur /\ (u # t => pc'[u] = pc[u])
          /\ Pending(c)' <=> Pending(c)
      BY <1>0, <1>5, PendingSame DEF RequestNotify, Goto, TypeOK
    <2>2. cur[t] \in Cqs /\ ChannelOf(cur[t]) = t
      BY DEF TypeOK
    <2>3. CASE c = cur[t]
      <3>1. armed'[c]
        BY <1>5, <2>3 DEF RequestNotify, TypeOK
      <3>2. Taken(c) /\ ~Taken(c)'
        BY <1>0, <2>1, <2>2, <2>3 DEF Taken
      <3> QED
        BY <2>1, <3>1, <3>2 DEF CqStep, Armed
    <2>4. CASE c # cur[t]
      <3>1. armed'[c] = armed[c]
        BY <1>5, <2>2, <2>4 DEF RequestNotify, TypeOK
      <3>2. (Taken(c)' <=> Taken(c)) /\ (Open(c)' => Open(c))
        BY <1>0, <2>1, <2>4 DEF Taken, Open
      <3> QED
        BY <2>1, <3>1, <3>2 DEF CqStep, Undisturbed
    <2> QED
      BY <2>3, <2>4
  <1>6. ASSUME NEW t \in Channels, RequestNotifyFails(t) PROVE CqStep(c)
    <2>1. /\ pc[t] = "notify" /\ pc'[t] = (IF WaitsAgain THEN "app" ELSE "failed")
          /\ cur' = cur /\ (u # t => pc'[u] = pc[u]) /\ armed' = armed
          /\ "notify" \in Failures
          /\ Pending(c)' <=> Pending(c)
      BY <1>0, <1>6, PendingSame DEF RequestNotifyFails, Goto, TypeOK, rnic
    <2>2. cur[t] \in Cqs /\ ChannelOf(cur[t]) = t
      BY DEF TypeOK
    <2>3. CASE c = cur[t]
      <3>1. Taken(c) /\ ~Taken(c)' /\ (Open(c)' => WaitsAgain)
        BY <1>0, <2>1, <2>2, <2>3 DEF Taken
      <3> QED
        BY <2>1, <3>1 DEF CqStep, NotArmed
    <2>4. CASE c # cur[t]
      <3>1. (Taken(c)' <=> Taken(c)) /\ (Open(c)' => Open(c))
        BY <1>0, <2>1, <2>4 DEF Taken, Open
      <3> QED
        BY <2>1, <3>1 DEF CqStep, Undisturbed
    <2> QED
      BY <2>3, <2>4
  <1>7. ASSUME NEW t \in Channels,
               \/ Wait(t) \/ GetEventFails(t) \/ CollectUnasked(t) \/ GetWcFails(t)
               \/ \E n \in BatchSizes : GetWc(t, n)
        PROVE  CqStep(c)
    <2>1. CASE Wait(t)
      BY <2>1, ThreadStep DEF Wait, Goto, TypeOK, rnic, CqStep
    <2>2. CASE GetEventFails(t)
      BY <2>2, ThreadStep DEF GetEventFails, Goto, TypeOK, rnic, CqStep
    <2>3. CASE CollectUnasked(t)
      BY <2>3, ThreadStep DEF CollectUnasked, Goto, TypeOK, rnic, CqStep
    <2>4. CASE GetWcFails(t)
      BY <2>4, ThreadStep DEF GetWcFails, Goto, TypeOK, rnic, CqStep
    <2>5. ASSUME NEW n \in BatchSizes, GetWc(t, n) PROVE CqStep(c)
      BY <2>5, ThreadStep DEF GetWc, Goto, TypeOK, rnic, CqStep
    <2> QED
      BY <1>7, <2>1, <2>2, <2>3, <2>4, <2>5
  <1>8. CASE Close
    <2>1. pc[u] \in {"app", "failed"} /\ pc'[u] = "closing" /\ UNCHANGED <<armed, chan>>
      BY <1>0, <1>8 DEF Close, rnic
    <2>2. ~Taken(c) /\ ~Taken(c)' /\ ~Open(c)'
      BY <1>0, <2>1 DEF Taken
    <2> QED
      BY <2>1, <2>2, PendingSame DEF CqStep, Undisturbed
  <1>9. CASE UNCHANGED <<armed, chan, pc, cur>>
    <2>1. (Taken(c)' <=> Taken(c)) /\ (Open(c)' <=> Open(c))
      BY <1>0, <1>9 DEF Taken, Open
    <2> QED
      BY <1>9, <2>1, PendingSame DEF CqStep, Undisturbed
  <1>10. \/ UNCHANGED <<armed, chan, pc, cur>> \/ Close
         \/ \E d \in Cqs : Complete(d) \/ Delete(d)
         \/ \E t \in Channels :
               \/ GetEvent(t) \/ AckEvent(t) \/ RequestNotify(t) \/ RequestNotifyFails(t)
               \/ Wait(t) \/ GetEventFails(t) \/ CollectUnasked(t) \/ GetWcFails(t)
               \/ \E n \in BatchSizes : GetWc(t, n)
    BY DEF Next, InCall, WaitRefused, vars, rnic
  <1> QED
    BY <1>1, <1>2, <1>3, <1>4, <1>5, <1>6, <1>7, <1>8, <1>9, <1>10

(* No step gives an armed CQ an event, or a CQ two: ibv_req_notify_cq()    *)
(* comes after the event is taken.                                         *)
LEMMA EventStep == TypeOK /\ ChannelInv /\ EventInv /\ [Next]_vars => EventInv'
  <1> SUFFICES ASSUME TypeOK, ChannelInv, EventInv, [Next]_vars, NEW c \in Cqs
               PROVE  ~(Pending(c) /\ Taken(c))' /\ (armed'[c] => ~Pending(c)' /\ ~Taken(c)')
    BY DEF EventInv
  <1> QED
    BY CqSteps DEF EventInv, CqStep, Undisturbed, Completed, EventTaken, Armed, NotArmed, Destroyed

(* No step leaves a CQ disarmed without an event: the one wait that does   *)
(* (its ibv_req_notify_cq() failed) is the application's last.             *)
LEMMA WakeupStep ==
  AppStopsOnError /\ TypeOK /\ ChannelInv /\ WakeupInv /\ [Next]_vars => WakeupInv'
  <1> SUFFICES ASSUME AppStopsOnError, TypeOK, ChannelInv, WakeupInv, [Next]_vars, NEW c \in Cqs
               PROVE  Open(c)' /\ ~armed'[c] => Pending(c)' \/ Taken(c)'
    BY DEF WakeupInv
  <1> QED
    BY CqSteps DEF AppStopsOnError, WakeupInv, CqStep, Undisturbed, Completed, EventTaken, Armed,
                   NotArmed, Destroyed

-----------------------------------------------------------------------------
(* rpma_cq_get_wc() returns no more than there is, and a thread stops      *)
(* collecting from an armed CQ only when it is empty.                      *)
LEMMA EntriesStep == TypeOK /\ ChannelInv /\ EntriesInv /\ [Next]_vars => EntriesInv'
  <1> DEFINE Goal(c) ==
                 /\ collected'[c] <= produced'[c]
                 /\ pc'[ChannelOf(c)] \notin {"failed", "closing"} /\ armed'[c] /\ produced'[c] - collected'[c] > 0
                      => pc'[ChannelOf(c)] = "collect" /\ cur'[ChannelOf(c)] = c
  <1> SUFFICES ASSUME TypeOK, ChannelInv, EntriesInv, [Next]_vars, NEW c \in Cqs
               PROVE  Goal(c)
    BY DEF EntriesInv, Open, Entries, ChannelOf
  <1> DEFINE u == ChannelOf(c)
  <1>0. /\ u \in Channels /\ collected[c] <= produced[c]
        /\ produced[c] \in Nat /\ collected[c] \in Nat
        /\ pc[u] \notin {"failed", "closing"} /\ armed[c] /\ produced[c] - collected[c] > 0
             => pc[u] = "collect" /\ cur[u] = c
    BY SMT, ChannelOfType DEF TypeOK, EntriesInv, Open, Entries
  <1>1. ASSUME UNCHANGED <<produced, collected>>, armed'[c] => armed[c],
               pc'[u] \notin {"failed", "closing"} => pc[u] \notin {"failed", "closing"},
               pc[u] = "collect" /\ cur[u] = c
                 => pc'[u] \in {"failed", "closing"} \/ (pc'[u] = "collect" /\ cur'[u] = c)
        PROVE  Goal(c)
    BY <1>0, <1>1
  <1>2. ASSUME NEW d \in Cqs, Complete(d) PROVE Goal(c)
    <2>1. CASE c = d
      <3>1. produced'[c] = produced[c] + 1 /\ ~armed'[c] /\ collected' = collected
        BY <1>2, <2>1 DEF Complete, TypeOK
      <3> QED
        BY SMT, <1>0, <3>1
    <2>2. CASE c # d
      <3>1. produced'[c] = produced[c] /\ armed'[c] = armed[c] /\ UNCHANGED <<collected, pc, cur>>
        BY <1>2, <2>2 DEF Complete, TypeOK
      <3> QED
        BY <1>0, <3>1
    <2> QED
      BY <2>1, <2>2
  <1>3. ASSUME NEW d \in Cqs, Delete(d) PROVE Goal(c)
    <2>1. armed'[c] => armed[c]
      BY <1>3 DEF Delete, TypeOK
    <2> QED
      BY <1>1, <1>3, <2>1 DEF Delete
  <1>4. ASSUME NEW t \in Channels, NEW n \in BatchSizes, GetWc(t, n) PROVE Goal(c)
    <2>1. pc[t] = "collect" /\ cur[t] \in Cqs /\ UNCHANGED <<produced, armed, cur>> /\ n \in Nat \ {0}
      BY <1>4, CqAssumption DEF GetWc, TypeOK, rnic
    <2>2. /\ pc'[t] = "collect" \/ (pc'[t] = "app" /\ Entries(cur[t]) <= 0)
          /\ u # t => pc'[u] = pc[u]
      <3>1. CASE UNCHANGED pc
        BY <2>1, <3>1
      <3>2. CASE ~UNCHANGED pc
        <4>1. Goto(t, "collect", "app") /\ (IF Entries(cur[t]) < n THEN Entries(cur[t]) ELSE n) = 0
          BY <1>4, <3>2 DEF GetWc
        <4>2. Entries(cur[t]) \in Int
          BY SMT, <2>1 DEF Entries, TypeOK
        <4>3. Entries(cur[t]) <= 0
          BY SMT, <2>1, <4>1, <4>2
        <4> QED
          BY <1>0, <4>1, <4>3 DEF Goto, TypeOK
      <3> QED
        BY <3>1, <3>2
    <2>3. CASE c = cur[t]
      <3>1. collected'[c] = collected[c] + (IF Entries(c) < n THEN Entries(c) ELSE n)
        BY <1>4, <2>3 DEF GetWc, TypeOK
      <3>2. collected'[c] <= produced[c] /\ collected[c] <= collected'[c]
        BY SMT, <1>0, <2>1, <3>1 DEF Entries
      <3>3. u = t
        BY <2>3 DEF TypeOK
      <3>4. CASE pc'[t] = "collect"
        BY <2>1, <2>3, <3>2, <3>3, <3>4
      <3>5. CASE Entries(c) <= 0
        BY SMT, <1>0, <2>1, <3>2, <3>1, <3>5 DEF Entries
      <3> QED
        BY <2>2, <2>3, <3>4, <3>5
    <2>4. CASE c # cur[t]
      <3>1. collected'[c] = collected[c]
        BY <1>4, <2>1, <2>4 DEF GetWc, TypeOK
      <3> QED
        BY <1>0, <2>1, <2>2, <2>4, <3>1
    <2> QED
      BY <2>3, <2>4
  <1>5. ASSUME NEW t \in Channels, RequestNotify(t) PROVE Goal(c)
    <2>1. /\ pc[t] = "notify" /\ pc'[t] = "collect" /\ (u # t => pc'[u] = pc[u])
          /\ UNCHANGED <<produced, collected, cur>>
      BY <1>0, <1>5 DEF RequestNotify, Goto, TypeOK
    <2>2. CASE c = cur[t]
      <3>1. u = t
        BY <2>2 DEF TypeOK
      <3> QED
        BY <1>0, <2>1, <2>2, <3>1
    <2>3. CASE c # cur[t]
      <3>1. armed'[c] = armed[c]
        BY <1>5, <2>3 DEF RequestNotify, TypeOK
      <3> QED
        BY <1>0, <2>1, <2>3, <3>1
    <2> QED
      BY <2>2, <2>3
  <1>6. ASSUME NEW t \in Channels, UNCHANGED <<produced, collected, armed>>,
               pc[t] \notin {"collect", "failed", "closing"},
               u # t => pc'[u] = pc[u] /\ cur'[u] = cur[u]
        PROVE  Goal(c)
    BY <1>1, <1>6
  <1>7. ASSUME NEW t \in Channels,
               \/ Wait(t) \/ GetEvent(t) \/ GetEventFails(t) \/ AckEvent(t)
               \/ RequestNotifyFails(t) \/ CollectUnasked(t)
        PROVE  Goal(c)
    <2>1. CASE Wait(t)
      BY <1>0, <1>6, <2>1 DEF Wait, Goto, TypeOK, rnic
    <2>2. CASE GetEvent(t)
      BY <1>0, <1>6, <2>2 DEF GetEvent, Goto, TypeOK
    <2>3. CASE GetEventFails(t)
      BY <1>0, <1>6, <2>3 DEF GetEventFails, Goto, TypeOK, rnic
    <2>4. CASE AckEvent(t)
      BY <1>0, <1>6, <2>4 DEF AckEvent, Goto, TypeOK, rnic
    <2>5. CASE RequestNotifyFails(t)
      BY <1>0, <1>6, <2>5 DEF RequestNotifyFails, Goto, TypeOK, rnic
    <2>6. CASE CollectUnasked(t)
      BY <1>0, <1>6, <2>6 DEF CollectUnasked, Goto, TypeOK, rnic
    <2> QED
      BY <1>7, <2>1, <2>2, <2>3, <2>4, <2>5, <2>6
  <1>8. ASSUME NEW t \in Channels, GetWcFails(t) PROVE Goal(c)
    BY <1>0, <1>1, <1>8 DEF GetWcFails, Goto, TypeOK, rnic
  <1>9. CASE Close
    BY <1>0, <1>1, <1>9 DEF Close, rnic
  <1>10. CASE UNCHANGED <<produced, collected, armed, pc, cur>>
    BY <1>1, <1>10
  <1>11. \/ UNCHANGED <<produced, collected, armed, pc, cur>> \/ Close
         \/ \E d \in Cqs : Complete(d) \/ Delete(d)
         \/ \E t \in Channels :
               \/ Wait(t) \/ GetEvent(t) \/ GetEventFails(t) \/ AckEvent(t)
               \/ RequestNotify(t) \/ RequestNotifyFails(t) \/ CollectUnasked(t) \/ GetWcFails(t)
               \/ \E n \in BatchSizes : GetWc(t, n)
    BY DEF Next, InCall, WaitRefused, vars, rnic
  <1> QED
    BY <1>2, <1>3, <1>4, <1>5, <1>7, <1>8, <1>9, <1>10, <1>11

-----------------------------------------------------------------------------
(* The inductive invariant holds, whatever the application does.           *)
THEOREM Invariance == Spec => []Inv
  <1>1. Inv /\ [Next]_vars => Inv'
    BY TypeStep, ChannelStep, EventStep, EntriesStep, AckStep DEF Inv
  <1> QED
    BY <1>1, InitInv, PTL DEF Spec

(* Type correctness of cq.c's state: in particular a wait acknowledges     *)
(* exactly the events it has taken.                                        *)
THEOREM TypeCorrect == Spec => []TypeOK
  <1>1. Inv => TypeOK
    BY DEF Inv
  <1> QED
    BY <1>1, Invariance, PTL

(* No wake-up is lost by rpma_cq_wait(), rpma_conn_wait() and              *)
(* rpma_cq_get_wc(), for any CQs, channels and completions, if the         *)
(* application does not wait again after a wait that failed to arm the CQ. *)
THEOREM WakeupSafety ==
  ASSUME AppStopsOnError
  PROVE  Spec => []NoLostWakeup
  <1>1. Init => WakeupInv
    BY ChannelOfType DEF Init, WakeupInv
  <1>2. Inv /\ WakeupInv /\ [Next]_vars => WakeupInv'
    BY AppStopsOnError, WakeupStep DEF Inv
  <1>3. Inv /\ WakeupInv => NoLostWakeup
    <2> SUFFICES ASSUME Inv, WakeupInv, NEW c \in Cqs, Entries(c) > 0, Open(c), ~Serving(c)
                 PROVE  Pending(c)
      BY DEF NoLostWakeup
    <2>1. ~Taken(c)
      BY DEF Taken, Serving
    <2>2. ~armed[c]
      BY DEF Inv, EntriesInv, Serving
    <2> QED
      BY <2>1, <2>2 DEF WakeupInv
  <1> QED
    BY <1>1, <1>2, <1>3, Invariance, PTL DEF Spec

(* ibv_destroy_cq() in rpma_cq_delete() never has to wait for an           *)
(* acknowledgement, whichever calls failed before the deletion.            *)
THEOREM DeletionSafety == Spec => []DeleteNeverBlocks
  <1>1. Inv => DeleteNeverBlocks
    BY DEF Inv, AckInv, DeleteNeverBlocks
  <1> QED
    BY <1>1, Invariance, PTL

-----------------------------------------------------------------------------
(* The safety part of CompletionService: every step of cq.c's state        *)
(* produces one completion, collects some that have arrived from a CQ the  *)
(* application still serves, gives up CQs for good, or changes nothing.    *)
ServiceSafety == Service!Init /\ [][Service!Next]_Service!vars

(* Threads that gave up or close the connection do not take it up again.   *)
LEMMA OpenShrinks ==
  ASSUME TypeOK, ChannelInv, [Next]_vars
  PROVE  {c \in Cqs : Open(c)}' \subseteq {c \in Cqs : Open(c)}
  <1> SUFFICES ASSUME NEW c \in Cqs, Open(c)' PROVE Open(c)
    OBVIOUS
  <1>1. CASE EventTaken(c) \/ Armed(c) \/ NotArmed(c)
    <2>1. CASE Taken(c)
      BY <2>1 DEF Taken, Open
    <2>2. CASE EventTaken(c)
      <3>1. pc[ChannelOf(c)] = "get_event" \/ pc'[ChannelOf(c)] = pc[ChannelOf(c)]
        <4>1. PICK t \in Channels : GetEvent(t)
          <5>1. ~(Pending(c)' <=> Pending(c))
            BY <2>2 DEF EventTaken
          <5>2. ~UNCHANGED chan
            BY <5>1, PendingSame
          <5>3. ASSUME NEW d \in Cqs, Complete(d) PROVE FALSE
            BY <2>2, <5>3, PendingComplete DEF EventTaken
          <5> QED
            BY <5>2, <5>3
            DEF Next, InCall, Delete, Wait, WaitRefused, CollectUnasked, GetEventFails, AckEvent,
                RequestNotify, RequestNotifyFails, GetWc, GetWcFails, Close, vars, rnic
        <4> QED
          BY <4>1, ChannelOfType DEF GetEvent, Goto, TypeOK
      <3> QED
        BY <3>1 DEF Open, ChannelOf
    <2> QED
      BY <1>1, <2>1, <2>2 DEF Armed, NotArmed
  <1> QED
    BY <1>1, CqSteps DEF CqStep, Undisturbed, Completed, Destroyed

(* cq.c and rpma_conn_wait() implement the safety part of                  *)
(* CompletionService, whichever of their calls fail: no completion is      *)
(* collected twice or before it arrived.                                   *)
THEOREM Refinement == Spec => ServiceSafety
  <1> DEFINE Opened == {c \in Cqs : Open(c)}
  <1>1. Init => Service!Init
    <2> SUFFICES ASSUME Init PROVE Service!Init
      OBVIOUS
    <2>1. Opened = Cqs
      BY ChannelOfType DEF Init, Open
    <2> QED
      BY <2>1 DEF Init, Service!Init
  <1>2. Inv /\ [Next]_vars => [Service!Next]_Service!vars
    <2> SUFFICES ASSUME Inv, [Next]_vars PROVE [Service!Next]_Service!vars
      OBVIOUS
    <2>0. TypeOK /\ ChannelInv /\ EntriesInv /\ Opened' \subseteq Opened
      BY OpenShrinks DEF Inv
    <2>1. CASE UNCHANGED <<produced, collected>>
      BY <2>0, <2>1 DEF Service!Next, Service!Leave
    <2>2. ASSUME NEW c \in Cqs, Complete(c) PROVE Service!Next
      <3>1. Opened' = Opened
        BY <2>2 DEF Complete, Open, ChannelOf
      <3> QED
        BY <2>2, <3>1 DEF Complete, Service!Next, Service!Produce
    <2>3. ASSUME NEW t \in Channels, NEW n \in BatchSizes, GetWc(t, n) PROVE [Service!Next]_Service!vars
      <3> DEFINE c == cur[t]
                 got == IF Entries(c) < n THEN Entries(c) ELSE n
      <3>1. /\ c \in Cqs /\ ChannelOf(c) = t /\ n \in Nat \ {0}
            /\ produced[c] \in Nat /\ collected[c] \in Nat /\ collected[c] <= produced[c]
        BY SMT, <2>0, CqAssumption DEF TypeOK, EntriesInv
      <3>2. collected' = [collected EXCEPT ![c] = @ + got] /\ produced' = produced /\ pc[t] = "collect"
        BY <2>3 DEF GetWc, rnic
      <3>3. CASE got = 0
        <4>1. collected' = collected
          BY SMT, <2>0, <3>1, <3>2, <3>3 DEF TypeOK
        <4> QED
          BY <2>1, <3>2, <4>1
      <3>4. CASE got # 0
        <4>1. got \in 1..(produced[c] - collected[c])
          BY SMT, <3>1, <3>4 DEF Entries
        <4>2. c \in Opened
          BY <3>1, <3>2 DEF Open
        <4>3. Opened' = Opened
          BY <2>3, <3>4 DEF GetWc, Open, ChannelOf
        <4> QED
          BY <3>1, <3>2, <4>1, <4>2, <4>3 DEF Service!Next, Service!Collect
      <3> QED
        BY <3>3, <3>4
    <2>4. \/ UNCHANGED <<produced, collected>>
          \/ \E c \in Cqs : Complete(c)
          \/ \E t \in Channels, n \in BatchSizes : GetWc(t, n)
      BY DEF Next, InCall, Delete, Wait, WaitRefused, CollectUnasked, GetEvent, GetEventFails,
             AckEvent, RequestNotify, RequestNotifyFails, GetWcFails, Close, vars, rnic
    <2> QED
      BY <2>1, <2>2, <2>3, <2>4
  <1> QED
    BY <1>1, <1>2, Invariance, PTL DEF Spec, ServiceSafety
=============================================================================
