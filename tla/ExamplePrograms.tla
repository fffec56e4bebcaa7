--------------------------- MODULE ExamplePrograms ---------------------------
(* The client and server programs under examples/, as sequences of           *)
(* instructions that the module Examples executes.  A program keeps the      *)
(* order of the calls of its main function, the label that each failure goes *)
(* to and the cleanup chain behind the labels.  Calls in a row that fail to  *)
(* the same label and change nothing are one Try.  Where a build with        *)
(* persistent memory differs from one without, it is the former.             *)
EXTENDS Integers, Sequences, TLC

I_M_DONE == 9

------------------------------------------------------------------------------
(* Resources.  Get makes r held; if it fails, the resources of "also" are    *)
(* released and the program goes to the label l: "return" returns at once    *)
(* and "" carries on.                                                        *)
GetElse(r, also, l) == [op |-> "get", r |-> r, also |-> also, l |-> l]
Get(r, l) == GetElse(r, {}, l)
Rel(r) == [op |-> "rel", r |-> r]
RelOr(r, l) == [op |-> "relor", r |-> r, l |-> l]

(* Control.  A silent instruction fails without setting ret, and Unless is a *)
(* check of the program's own that goes to l with ret still 0.               *)
Label(l) == [op |-> "label", l |-> l]
Goto(l) == [op |-> "goto", l |-> l]
Try(l) == [op |-> "try", l |-> l]
Unless(l) == [op |-> "unless", l |-> l, silent |-> TRUE]
IfFailed(l) == [op |-> "iffailed", l |-> l]
ForgetRet == [op |-> "forget"]
WhileRounds(l) == [op |-> "rounds", l |-> l]
Done == [op |-> "done"]
Silent(i) == i @@ [silent |-> TRUE]
SilentAll(s) == [n \in DOMAIN s |-> Silent(s[n])]

(* Connections; k is the server that the client talks to.  An Event that is  *)
(* not the one waited for fails, fails silently or is ignored; a rejection   *)
(* may have a label of its own; del: the connection is deleted on failure.   *)
ReqConnect(k, l) == [op |-> "connect", k |-> k, l |-> l]
NextReq(l) == [op |-> "nextreq", l |-> l]
ReqRecv(a, drop, l) == [op |-> "reqrecv", a |-> a, drop |-> drop, l |-> l]
Accept(l) == [op |-> "accept", l |-> l]
Event(k, want, other, l) ==
  [op |-> "event", k |-> k, want |-> want, other |-> other, rej |-> "", del |-> FALSE, l |-> l]
Established(k, l) == [Event(k, "established", "fail", l) EXCEPT !.del = TRUE]
Disconnect(k, skip) == [op |-> "disconnect", k |-> k, l |-> skip]

(* Work.  Memory is made of named cells: a is local, b is the peer's.        *)
Post(k, w, a, b, signalled, l) ==
  [op |-> "post", k |-> k, w |-> w, a |-> a, b |-> b, signalled |-> signalled, l |-> l]
Recv(a, l) == [op |-> "recv", k |-> 1, a |-> a, l |-> l]

(* An event of the CQ q, or of either, and up to n completions of the CQ it  *)
(* is about.  Unless each of the kinds has been seen, the event is waited    *)
(* for again.                                                                *)
CqWait(k, q, kinds, l) == [op |-> "wait", k |-> k, q |-> q, kinds |-> kinds, l |-> l]
GetWc(k, n, kinds, l) == [op |-> "getwc", k |-> k, n |-> n, kinds |-> kinds, l |-> l]
Wait(k, q, kind, l) == <<CqWait(k, q, {kind}, l), GetWc(k, 1, {kind}, l)>>

Put(a, v) == [op |-> "put", a |-> a, v |-> v]
Copy(a, b, n) == [op |-> "copy", a |-> a, b |-> b, n |-> n]
PrivateData(a, b) == [op |-> "pdata", a |-> a, b |-> b]
Persist(a) == [op |-> "persist", a |-> a]
IfIs(a, v, l) == [op |-> "ifis", a |-> a, v |-> v, l |-> l]
Check(a, b) == [op |-> "check", a |-> a, b |-> b, l |-> ""]

Conn(k) == IF k = 1 THEN "conn" ELSE "conn2"

------------------------------------------------------------------------------
(* common/ *)

malloc_aligned(r, also, l) == GetElse(r, also, l)

common_peer_via_address(r, l) == Get(r, l)

client_connect(k, l) ==
  <<Get("req", l), ReqConnect(k, l), Established(k, l)>>

(* Mutant of server_accept_connection: an unexpected event is no error.      *)
server_accept_connectionUnnoticed(l) ==
  SilentAll(<<NextReq(l), Accept(l), Established(1, l)>>)

server_accept_connection(l) ==
  <<NextReq(l), Accept(l), Established(1, l)>>

wait_for_conn_close_verbose(k) == Event(k, "closed", "ignore", "")

common_wait_for_conn_close_and_disconnect(k) ==
  <<wait_for_conn_close_verbose(k), Disconnect(k, ""), RelOr(Conn(k), "")>>


common_disconnect_and_wait_for_conn_closeWaiting(k) ==
  <<wait_for_conn_close_verbose(k), RelOr(Conn(k), "")>>

common_disconnect_and_wait_for_conn_close(k) ==
  <<Disconnect(k, "disconnected"), wait_for_conn_close_verbose(k),
    Label("disconnected"), RelOr(Conn(k), "")>>

(* rpma_conn_wait and the completion of whichever CQ has one.                *)
wait_and_validate_completion(kind, l) == Wait(1, "any", kind, l)

(* The file of a client is formatted already and holds a greeting.           *)
common_pmem_map_file(l) == Get("mem", l)

(* The data of a file that is not formatted yet is persistent before the     *)
(* signature that says it is formatted.                                      *)
common_pmem_map_file_with_signature_check(l) ==
  <<common_pmem_map_file(l), IfIs("sig", 1, "formatted"),
    Put("dst", 0), Persist("dst"), Put("sig", 1), Persist("sig"), Label("formatted")>>

translate == <<Copy("src", "src", 1), Persist("src")>>

------------------------------------------------------------------------------
(* 01-connection *)

ConnectionClient ==
  <<Get("peer", "return"),
    Label("retry"), Get("req", "err_peer_delete"), ReqConnect(1, "err_req_delete"),
    [Event(1, "established", "silent", "err_conn_disconnect") EXCEPT !.rej = "rejected"],
    Goto("connected"),
    Label("rejected"), Silent(Disconnect(1, "")), Rel("conn"),
    WhileRounds("err_peer_delete"), Goto("retry"),
    Label("connected"), Event(1, "closed", "silent", "err_conn_disconnect"), Done,
    Disconnect(1, "err_conn_delete"), RelOr("conn", "err_peer_delete"),
    RelOr("peer", "return"), Goto("return"),
    Label("err_conn_disconnect"), Silent(Disconnect(1, "")),
    Label("err_conn_delete"), Rel("conn"),
    Label("err_req_delete"), Rel("req"),
    Label("err_peer_delete"), Rel("peer")>>

ConnectionServer ==
  <<Get("peer", "return"), Get("ep", "err_peer_delete"),
    NextReq("err_ep_shutdown"), Accept("err_req_delete"),
    Event(1, "established", "silent", "err_conn_delete"), Done,
    Disconnect(1, "err_conn_delete"), Event(1, "closed", "silent", "err_conn_delete"),
    RelOr("conn", "err_ep_shutdown"), RelOr("ep", "err_peer_delete"),
    RelOr("peer", "return"), Goto("return"),
    Label("err_conn_delete"), Rel("conn"),
    Label("err_req_delete"), Rel("req"),
    Label("err_ep_shutdown"), Rel("ep"),
    Label("err_peer_delete"), Rel("peer")>>

------------------------------------------------------------------------------
(* 02-read-to-volatile: a client of two servers, with one ret for each       *)
(* (hash/multiclient.c has the same text).                                   *)

ReadClientSetup ==
  <<common_peer_via_address("peer", "return"), common_peer_via_address("peer2", "return"),
    malloc_aligned("mem", {}, "err_peer_delete"),
    Silent(malloc_aligned("mem2", {}, "err_peer_delete")),
    Get("mr", "err_mr_free"), Silent(Get("mr2", "err_mr_free"))>>
  \o client_connect(1, "err_mr_dereg")
  \o SilentAll(client_connect(2, "err_mr_dereg1"))
  \o <<Try("err_conn_disconnect"), Unless("err_conn_disconnect"),
       Silent(Try("err_conn_disconnect1")),
       Get("rmr", "err_conn_disconnect"), Silent(Get("rmr2", "err_conn_disconnect1")),
       Unless("err_mr_remote_delete")>>

ReadClientReads ==
  <<Post(1, "read", "dst", "src", TRUE, "err_mr_remote_delete"),
    Unless("err_mr_remote_delete1"),
    Silent(Post(2, "read", "dst2", "src", TRUE, "err_mr_remote_delete1")),
    CqWait(1, "cq", {"read"}, "err_mr_remote_delete"),
    Silent(CqWait(2, "cq", {"read"}, "err_mr_remote_delete1")),
    GetWc(1, 1, {"read"}, "err_mr_remote_delete"),
    Silent(GetWc(2, 1, {"read"}, "err_mr_remote_delete1")), Done>>

ReadClientCleanup ==
  <<Label("err_mr_remote_delete"), Rel("rmr"), Label("err_conn_disconnect")>>
  \o SilentAll(common_disconnect_and_wait_for_conn_close(1))
  \o <<Label("err_mr_dereg"), Rel("mr"), Label("err_mr_free"), Rel("mem"),
       Label("err_peer_delete"), Rel("peer"),
       Label("err_mr_remote_delete1"), Rel("rmr2"), Label("err_conn_disconnect1"),
       Silent(Disconnect(2, "disconnected1")), Silent(wait_for_conn_close_verbose(2)),
       Label("disconnected1"), Silent(RelOr("conn2", "")),
       Label("err_mr_dereg1"), Rel("mr2"), Rel("mem2"), Rel("peer2")>>

(* Mutant of ReadServer: the memory is deregistered before the end of the    *)
(* connection.                                                               *)
ReadServerHasty ==
  <<common_peer_via_address("peer", "return"), Get("ep", "err_peer_delete"),
    malloc_aligned("mem", {}, "err_ep_shutdown"), Put("src", 1), Get("mr", "err_mr_free")>>
  \o server_accept_connection("err_mr_dereg")
  \o <<Label("err_mr_free"), Rel("mem"), Label("err_mr_dereg"), Rel("mr")>>
  \o common_wait_for_conn_close_and_disconnect(1)
  \o <<Done, Label("err_ep_shutdown"), Rel("ep"), Label("err_peer_delete"), Rel("peer")>>

ReadServer ==
  <<common_peer_via_address("peer", "return"), Get("ep", "err_peer_delete"),
    malloc_aligned("mem", {}, "err_ep_shutdown"),
    Put("src", 1), Get("mr", "err_mr_free"), Try("err_mr_dereg")>>
  \o server_accept_connection("err_mr_dereg")
  \o SilentAll(common_wait_for_conn_close_and_disconnect(1))
  \o <<Done, Label("err_mr_dereg"), Rel("mr"), Label("err_mr_free"), Rel("mem"),
       Label("err_ep_shutdown"), Rel("ep"), Label("err_peer_delete"), Rel("peer")>>

------------------------------------------------------------------------------
(* 03-read-to-persistent: the server reads from the client.                  *)

ReadPersistentClient ==
  <<common_pmem_map_file("err_free"), common_peer_via_address("peer", "err_free"),
    Get("mr", "err_peer_delete"),
    Try("err_mr_dereg")>>
  \o client_connect(1, "err_mr_dereg")
  \o SilentAll(common_wait_for_conn_close_and_disconnect(1))
  \o <<Done>> \o translate
  \o <<Label("err_mr_dereg"), Rel("mr"), Label("err_peer_delete"), Rel("peer"),
       Label("err_free"), Rel("mem")>>

ReadPersistentServer ==
  common_pmem_map_file_with_signature_check("err_free")
  \o <<common_peer_via_address("peer", "err_free"), Get("ep", "err_peer_delete"),
       Get("mr", "err_ep_shutdown"),
       Try("err_mr_dereg")>>
  \o server_accept_connection("err_mr_dereg")
  \o <<Try("err_disconnect"), Get("rmr", "err_disconnect"),
       Post(1, "read", "dst", "src", TRUE, "err_mr_remote_delete"),
       Try("err_mr_remote_delete")>>
  \o Wait(1, "cq", "read", "err_mr_remote_delete")
  \o <<Persist("dst"), Done,
       Label("err_mr_remote_delete"), Rel("rmr"), Label("err_disconnect"), ForgetRet>>
  \o common_disconnect_and_wait_for_conn_close(1)
  \o <<Label("err_mr_dereg"), Rel("mr"), Label("err_ep_shutdown"), Rel("ep"),
       Label("err_peer_delete"), Rel("peer"), Label("err_free"), Rel("mem")>>

------------------------------------------------------------------------------
(* 04-write-to-persistent *)

WriteClient ==
  <<common_pmem_map_file("err_free"), malloc_aligned("raw", {}, "err_free"),
    common_peer_via_address("peer", "err_free")>>
  \o client_connect(1, "err_peer_delete")
  \o <<Get("mr", "err_conn_disconnect"), Get("mr2", "err_mr_dereg"), Try("err_mr_dereg"),
       Unless("err_mr_dereg"), Get("rmr", "err_mr_dereg"), Try("err_mr_remote_delete"),
       Post(1, "write", "src", "dst", FALSE, "err_mr_remote_delete"),
       Post(1, "read", "raw", "dst", TRUE, "err_mr_remote_delete")>>
  \o Wait(1, "cq", "read", "err_mr_remote_delete")
  \o <<Done>> \o translate
  \o <<Label("err_mr_remote_delete"), Rel("rmr"),
       Label("err_mr_dereg"), Rel("mr"), Rel("mr2"), Label("err_conn_disconnect")>>
  \o SilentAll(common_disconnect_and_wait_for_conn_close(1))
  \o <<Label("err_peer_delete"), Rel("peer"), Label("err_free"), Rel("mem"), Rel("raw")>>

WriteServer ==
  common_pmem_map_file_with_signature_check("err_free")
  \o <<common_peer_via_address("peer", "err_free"), Get("ep", "err_peer_delete"),
       Get("mr", "err_ep_shutdown"),
       Try("err_mr_dereg")>>
  \o server_accept_connection("err_mr_dereg")
  \o common_wait_for_conn_close_and_disconnect(1)
  \o <<IfFailed("err_mr_dereg"), Done,
       Label("err_mr_dereg"), Rel("mr"), Label("err_ep_shutdown"), Rel("ep"),
       Label("err_peer_delete"), Rel("peer"), Label("err_free"), Rel("mem")>>

------------------------------------------------------------------------------
(* 05-flush-to-persistent.  The cell "direct" is direct_write_to_pmem.       *)

FlushClient ==
  <<common_pmem_map_file("err_free"), common_peer_via_address("peer", "err_free")>>
  \o client_connect(1, "err_peer_delete")
  \o <<Get("mr", "err_conn_disconnect"), Try("err_mr_dereg"), Unless("err_mr_dereg"),
       Get("pcfg", "err_mr_dereg"),
       PrivateData("direct", "direct"), Try(""), Rel("pcfg"), IfFailed("err_mr_dereg"),
       Get("rmr", "err_mr_dereg"), Unless("err_mr_remote_delete"),
       Post(1, "write", "src", "dst", FALSE, "err_mr_remote_delete"),
       IfIs("direct", 0, "visibility"),
       Post(1, "persist", "", "", TRUE, "err_mr_remote_delete"), Goto("flushed"),
       Label("visibility"), Post(1, "flush", "", "", TRUE, "err_mr_remote_delete"),
       Label("flushed")>>
  \o Wait(1, "cq", "flush", "err_mr_remote_delete")
  \o <<Done>> \o translate
  \o <<Label("err_mr_remote_delete"), Rel("rmr"), Label("err_mr_dereg"), Rel("mr"),
       Label("err_conn_disconnect")>>
  \o SilentAll(common_disconnect_and_wait_for_conn_close(1))
  \o <<Label("err_peer_delete"), Rel("peer"), Label("err_free"), Rel("mem")>>

FlushServer ==
  common_pmem_map_file_with_signature_check("err_free")
  \o <<Get("pcfg", "err_free"), GetElse("", {"pcfg"}, "err_free"),
       common_peer_via_address("peer", "err_pcfg_delete"), Get("ep", "err_peer_delete"),
       Get("mr", "err_ep_shutdown"), Try("err_mr_dereg")>>
  \o server_accept_connection("err_mr_dereg")
  \o common_wait_for_conn_close_and_disconnect(1)
  \o <<IfFailed("err_mr_dereg"), Done,
       Label("err_mr_dereg"), Rel("mr"), Label("err_ep_shutdown"), Rel("ep"),
       Label("err_peer_delete"), Rel("peer"), Label("err_pcfg_delete"), Rel("pcfg"),
       Label("err_free"), Rel("mem")>>

------------------------------------------------------------------------------
(* 07-atomic-write: "used" counts the words of the log, which are d1 and d2. *)

Word(n) == IF n = 1 THEN "d1" ELSE "d2"

(* Mutant of AppendWord: the data is not flushed before the atomic write.    *)
AppendWordUnflushed(n) ==
  <<Put("word", n), Post(1, "write", "word", Word(n), FALSE, "break"), Copy("used", "used", 1),
    Post(1, "atomic_write", "used", "used", FALSE, "break"),
    Post(1, "persist", "", "", TRUE, "break")>>
  \o Wait(1, "cq", "flush", "break")

(* Mutant of AppendWord: the last flush is not waited for.                   *)
AppendWordUnwaited(n) ==
  <<Put("word", n), Post(1, "write", "word", Word(n), FALSE, "break"),
    Post(1, "persist", "", "", FALSE, "break"), Copy("used", "used", 1),
    Post(1, "atomic_write", "used", "used", FALSE, "break"),
    Post(1, "persist", "", "", FALSE, "break")>>

AppendWord(n) ==
  <<Put("word", n), Post(1, "write", "word", Word(n), FALSE, "break"),
    Post(1, "persist", "", "", FALSE, "break"), Copy("used", "used", 1),
    Post(1, "atomic_write", "used", "used", FALSE, "break"),
    Post(1, "persist", "", "", TRUE, "break")>>
  \o Wait(1, "cq", "flush", "break")

LogClient ==
  <<malloc_aligned("mem", {}, "return"), common_peer_via_address("peer", "err_free")>>
  \o client_connect(1, "err_peer_delete")
  \o <<Get("pcfg", "err_conn_disconnect"), Try("err_peer_cfg_delete"),
       Get("mr", "err_peer_cfg_delete"), Try("err_mr_dereg"), Unless("err_mr_dereg"),
       Get("rmr", "err_mr_dereg"), Post(1, "read", "used", "used", TRUE, "break")>>
  \o Wait(1, "cq", "read", "break") \o AppendWord(1) \o AppendWord(2)
  \o <<Done, Label("break"), Rel("rmr"), Label("err_mr_dereg"), Rel("mr"),
       Label("err_peer_cfg_delete"), Rel("pcfg"), Label("err_conn_disconnect")>>
  \o SilentAll(common_disconnect_and_wait_for_conn_close(1))
  \o <<Label("err_peer_delete"), Rel("peer"), Label("err_free"), Rel("mem")>>

LogServer ==
  <<common_pmem_map_file("return"), IfIs("sig", 1, "formatted"),
    Put("used", 0), Persist("used"), Put("sig", 1), Persist("sig"), Label("formatted"),
    common_peer_via_address("peer", "err_free"), Get("ep", "err_peer_delete"),
    Get("mr", "err_ep_shutdown"),
    Try("err_mr_dereg")>>
  \o server_accept_connection("err_mr_dereg")
  \o common_wait_for_conn_close_and_disconnect(1)
  \o <<IfFailed("err_mr_dereg"), Done,
       Label("err_mr_dereg"), Rel("mr"), Label("err_ep_shutdown"), Rel("ep"),
       Label("err_peer_delete"), Rel("peer"), Label("err_free"), Rel("mem")>>

------------------------------------------------------------------------------
(* 08-messages-ping-pong: one CQ for sends and receives, whose completions   *)
(* wait_and_process_completions takes in any order, two at most for an       *)
(* event.                                                                    *)

wait_and_process_completions(kinds) ==
  <<CqWait(1, "cq", kinds, "break"), GetWc(1, 2, kinds, "break")>>

PingPongClient ==
  <<malloc_aligned("recv", {}, "return"), malloc_aligned("send", {"recv"}, "return"),
    common_peer_via_address("peer", "err_mr_free"),
    Get("mr", "err_peer_delete"), GetElse("mr2", {"mr"}, "err_peer_delete")>>
  \o client_connect(1, "err_mr_dereg")
  \o <<Try("err_conn_disconnect"),
       Label("while"), WhileRounds("finished"), Recv("recv", "break"),
       Copy("send", "cntr", 0), Post(1, "send", "send", "", TRUE, "break")>>
  \o wait_and_process_completions({"send", "recv"})
  \o <<Copy("cntr", "recv", 0), Goto("while"),
       Label("finished"), Done,
       Label("break"), Put("send", I_M_DONE), Post(1, "send", "send", "", FALSE, ""),
       Label("err_conn_disconnect")>>
  \o common_disconnect_and_wait_for_conn_close(1)
  \o <<Label("err_mr_dereg"), RelOr("mr2", ""), RelOr("mr", ""),
       Label("err_peer_delete"), RelOr("peer", ""), Label("err_mr_free"), Rel("send"),
       Rel("recv")>>

PingPongServer ==
  <<malloc_aligned("recv", {}, "return"), malloc_aligned("send", {"recv"}, "return"),
    common_peer_via_address("peer", "err_free"),
    Get("ep", "err_peer_delete"), Get("mr", "err_ep_shutdown"),
    GetElse("mr2", {"mr"}, "err_ep_shutdown"),
    NextReq("err_mr_dereg"), ReqRecv("recv", TRUE, "err_mr_dereg"), Accept("err_mr_dereg"),
    Event(1, "established", "silent", "err_conn_disconnect"), Try("err_conn_disconnect")>>
  \o wait_and_process_completions({"recv"})
  \o <<Label("while"), IfIs("recv", I_M_DONE, "finished"), Copy("send", "recv", 1),
       Recv("recv", "break"), Post(1, "send", "send", "", TRUE, "break")>>
  \o wait_and_process_completions({"send", "recv"})
  \o <<Goto("while"),
       Label("finished"), Done, Label("break"), Label("err_conn_disconnect")>>
  \o common_disconnect_and_wait_for_conn_close(1)
  \o <<Label("err_mr_dereg"), RelOr("mr2", ""), RelOr("mr", ""),
       Label("err_ep_shutdown"), RelOr("ep", ""), Label("err_peer_delete"), RelOr("peer", ""),
       Label("err_free"), Rel("send"), Rel("recv")>>

------------------------------------------------------------------------------
(* 09-flush-to-persistent-GPSPM and, with a shared completion channel, 09s:  *)
(* the client asks the server to persist what it has written.  The request   *)
(* and the response are messages in the cells "send" and "recv".             *)

GPSPMClientWith(wait_send, wait_recv) ==
  <<common_pmem_map_file("err_free"), malloc_aligned("msg", {}, "err_free"),
    common_peer_via_address("peer", "err_free"),
    Get("cfg", "err_peer_delete"), Try("err_cfg_delete")>>
  \o client_connect(1, "err_cfg_delete")
  \o <<Get("mr", "err_conn_disconnect"), GetElse("mr2", {"mr"}, "err_conn_disconnect"),
       Try("err_mr_dereg"), Unless("err_mr_dereg"),
       Get("rmr", "err_mr_dereg"), Unless("err_mr_remote_delete"),
       Post(1, "write", "src", "dst", FALSE, "err_mr_remote_delete"),
       Recv("recv", "err_mr_remote_delete"), Unless("err_mr_remote_delete"), Put("send", 1),
       Post(1, "send", "send", "", TRUE, "err_mr_remote_delete")>>
  \o wait_send \o wait_recv
  \o <<Unless("err_mr_remote_delete"), Done>> \o translate
  \o <<Label("err_mr_remote_delete"), Rel("rmr"),
       Label("err_mr_dereg"), Rel("mr2"), Rel("mr"), Label("err_conn_disconnect")>>
  \o SilentAll(common_disconnect_and_wait_for_conn_close(1))
  \o <<Label("err_cfg_delete"), Rel("cfg"), Label("err_peer_delete"), Rel("peer"),
       Label("err_free"), Rel("msg"), Rel("mem")>>

GPSPMClient ==
  GPSPMClientWith(<<Try("err_mr_remote_delete")>> \o Wait(1, "cq", "send", "err_mr_remote_delete"),
                  <<Try("err_mr_remote_delete")>> \o Wait(1, "rcq", "recv", "err_mr_remote_delete"))

GPSPMClientShared ==
  GPSPMClientWith(wait_and_validate_completion("send", "err_mr_remote_delete"),
                  wait_and_validate_completion("recv", "err_mr_remote_delete"))

GPSPMServerWith(wait_recv, wait_send) ==
  common_pmem_map_file_with_signature_check("err_free")
  \o <<malloc_aligned("msg", {}, "err_free"), common_peer_via_address("peer", "err_free"),
       Get("ep", "err_peer_delete"),
       Get("mr", "err_ep_shutdown"), Try("err_mr_dereg"),
       GetElse("mr2", {"mr"}, "err_ep_shutdown"), Try("err_mr_dereg"),
       Get("cfg", "err_mr_dereg"), Try("err_cfg_delete"),
       NextReq("err_req_delete"), ReqRecv("recv", FALSE, "err_req_delete"),
       Accept("err_req_delete"), Event(1, "established", "fail", "err_conn_delete")>>
  \o wait_recv
  \o <<Unless("err_conn_delete"), Persist("dst"), Unless("err_conn_delete"),
       Copy("send", "recv", 0),
       Post(1, "send", "send", "", TRUE, "err_conn_delete")>>
  \o wait_send
  \o common_wait_for_conn_close_and_disconnect(1)
  \o <<IfFailed("err_conn_delete"), Done,
       Label("err_conn_delete"), Rel("conn"), Label("err_req_delete"), Rel("req"),
       Label("err_cfg_delete"), Rel("cfg"), Label("err_mr_dereg"), Rel("mr2"), Rel("mr"),
       Label("err_ep_shutdown"), Rel("ep"), Label("err_peer_delete"), Rel("peer"),
       Label("err_free"), Rel("msg"), Rel("mem")>>

GPSPMServer ==
  GPSPMServerWith(<<Try("err_conn_delete")>> \o Wait(1, "rcq", "recv", "err_conn_delete"),
                  <<Try("err_conn_delete")>> \o Wait(1, "cq", "send", "err_conn_delete"))

GPSPMServerShared ==
  GPSPMServerWith(wait_and_validate_completion("recv", "err_conn_delete"),
                  wait_and_validate_completion("send", "err_conn_delete"))

------------------------------------------------------------------------------
(* 10-send-with-imm and 11-write-with-imm.  The immediate data of a received *)
(* message is left in the cell "imm" of the receiver.                        *)

SendImmClient ==
  <<malloc_aligned("mem", {}, "return"), common_peer_via_address("peer", "err_mr_free"),
    Get("mr", "err_peer_delete")>>
  \o client_connect(1, "err_mr_dereg")
  \o <<Put("send", 1), Post(1, "send_imm", "send", "", TRUE, "err_conn_disconnect"),
       Try("err_conn_disconnect")>>
  \o Wait(1, "cq", "send", "err_conn_disconnect")
  \o <<Done, Label("err_conn_disconnect")>>
  \o SilentAll(common_disconnect_and_wait_for_conn_close(1))
  \o <<Label("err_mr_dereg"), Rel("mr"), Label("err_peer_delete"), Rel("peer"),
       Label("err_mr_free"), Rel("mem")>>

SendImmServer ==
  <<malloc_aligned("mem", {}, "return"), common_peer_via_address("peer", "err_mr_free"),
    Get("mr", "err_peer_delete"),
    Get("ep", "err_mr_dereg"), NextReq("err_ep_shutdown"),
    ReqRecv("recv", TRUE, "err_ep_shutdown"), Accept("err_ep_shutdown"),
    Event(1, "established", "fail", "err_conn_disconnect"), Try("err_conn_disconnect"),
    PrivateData("exp", "imm")>>
  \o Wait(1, "cq", "recv", "err_conn_disconnect")
  \o <<Check("imm", "exp"), Done, Label("err_conn_disconnect")>>
  \o SilentAll(common_wait_for_conn_close_and_disconnect(1))
  \o <<Label("err_ep_shutdown"), Rel("ep"), Label("err_mr_dereg"), Rel("mr"),
       Label("err_peer_delete"), Rel("peer"), Label("err_mr_free"), Rel("mem")>>

WriteImmClient ==
  <<malloc_aligned("mem", {}, "return"), common_peer_via_address("peer", "err_mr_free"),
    Get("mr", "err_peer_delete")>>
  \o client_connect(1, "err_mr_dereg")
  \o <<Try("err_conn_disconnect"), Get("rmr", "err_conn_disconnect"), Copy("src", "imm", 0),
       Post(1, "write_imm", "src", "dst", TRUE, "err_mr_remote_delete"),
       Try("err_mr_remote_delete")>>
  \o Wait(1, "cq", "write", "err_mr_remote_delete")
  \o <<Done,
       Label("err_mr_remote_delete"), Rel("rmr"), Label("err_conn_disconnect")>>
  \o SilentAll(common_disconnect_and_wait_for_conn_close(1))
  \o <<Label("err_mr_dereg"), Rel("mr"), Label("err_peer_delete"), Rel("peer"),
       Label("err_mr_free"), Rel("mem")>>

WriteImmServer ==
  <<malloc_aligned("mem", {}, "return"), malloc_aligned("recv", {"mem"}, "return"),
    common_peer_via_address("peer", "err_mr_free"),
    Get("mr", "err_peer_delete"), GetElse("mr2", {"mr"}, "err_peer_delete"),
    Try("err_mr_dereg"), Get("ep", "err_mr_dereg"), NextReq("err_ep_shutdown"),
    ReqRecv("recv", TRUE, "err_ep_shutdown"), Accept("err_ep_shutdown"),
    Event(1, "established", "fail", "err_conn_disconnect"), Try("err_conn_disconnect")>>
  \o Wait(1, "cq", "recv_imm", "err_conn_disconnect")
  \o <<Check("imm", "dst"), Done, Label("err_conn_disconnect")>>
  \o SilentAll(common_wait_for_conn_close_and_disconnect(1))
  \o <<Label("err_ep_shutdown"), Rel("ep"), Label("err_mr_dereg"), Rel("mr2"), Rel("mr"),
       Label("err_peer_delete"), Rel("peer"), Label("err_mr_free"), Rel("mem"), Rel("recv")>>

------------------------------------------------------------------------------
(* 12-receive-completion-queue and, with a shared completion channel, 12s.   *)

(* Mutant of get_wc_and_validate: the CQ and the RCQ are not told apart.     *)
get_wc_and_validateAny(q, kind) == Wait(1, "any", kind, "break")

get_wc_and_validate(q, kind) == Wait(1, q, kind, "break")

CounterClientWith(get_cqs, wait_send, wait_recv) ==
  <<malloc_aligned("recv", {}, "return"), malloc_aligned("send", {"recv"}, "return"),
    common_peer_via_address("peer", "err_mr_free"),
    Get("mr", "err_peer_delete"), GetElse("mr2", {"mr"}, "err_peer_delete"),
    Get("cfg", "err_mr_dereg"), Try("err_cfg_delete")>>
  \o client_connect(1, "err_cfg_delete")
  \o get_cqs
  \o <<Label("while"), WhileRounds("finished"), Recv("recv", "break"),
       Copy("send", "cntr", 0), Post(1, "send", "send", "", TRUE, "break")>>
  \o wait_send \o wait_recv
  \o <<Copy("cntr", "recv", 0), Goto("while"),
       Label("finished"), Done,
       Label("break"), Put("send", I_M_DONE), Post(1, "send", "send", "", FALSE, ""),
       Label("err_conn_disconnect")>>
  \o common_disconnect_and_wait_for_conn_close(1)
  \o <<Label("err_cfg_delete"), RelOr("cfg", ""), Label("err_mr_dereg"), RelOr("mr2", ""),
       RelOr("mr", ""), Label("err_peer_delete"), RelOr("peer", ""),
       Label("err_mr_free"), Rel("send"), Rel("recv")>>

CounterServerWith(get_cqs, wait_recv, wait_send) ==
  <<malloc_aligned("recv", {}, "return"), malloc_aligned("send", {"recv"}, "return"),
    common_peer_via_address("peer", "err_free"),
    Get("ep", "err_peer_delete"), Get("mr", "err_ep_shutdown"),
    GetElse("mr2", {"mr"}, "err_ep_shutdown"), Get("cfg", "err_mr_dereg"),
    Try("err_cfg_delete"), NextReq("err_cfg_delete"),
    ReqRecv("recv", TRUE, "err_cfg_delete"), Accept("err_cfg_delete"),
    Event(1, "established", "silent", "err_conn_disconnect")>>
  \o get_cqs
  \o <<Label("while")>> \o wait_recv
  \o <<IfIs("recv", I_M_DONE, "finished"), Copy("send", "recv", 1),
       Recv("recv", "break"), Post(1, "send", "send", "", TRUE, "break")>>
  \o wait_send
  \o <<Goto("while"),
       Label("finished"), Done, Label("break"), Label("err_conn_disconnect")>>
  \o common_disconnect_and_wait_for_conn_close(1)
  \o <<Label("err_cfg_delete"), RelOr("cfg", ""), Label("err_mr_dereg"), RelOr("mr2", ""),
       RelOr("mr", ""), Label("err_ep_shutdown"), RelOr("ep", ""),
       Label("err_peer_delete"), RelOr("peer", ""), Label("err_free"), Rel("send"),
       Rel("recv")>>

CounterClient ==
  CounterClientWith(<<Try("err_conn_disconnect")>>,
                    get_wc_and_validate("cq", "send"), get_wc_and_validate("rcq", "recv"))

CounterServer ==
  CounterServerWith(<<Try("err_conn_disconnect")>>,
                    get_wc_and_validate("rcq", "recv"), get_wc_and_validate("cq", "send"))

CounterClientShared ==
  CounterClientWith(<<>>, wait_and_validate_completion("send", "break"),
                    wait_and_validate_completion("recv", "break"))

CounterServerShared ==
  CounterServerWith(<<>>, wait_and_validate_completion("recv", "break"),
                    wait_and_validate_completion("send", "break"))

------------------------------------------------------------------------------
(* hash/: the server of the table and its clients.  The lookups themselves   *)
(* are in HashStore; here a lookup is one read of the table.                 *)

HashServer ==
  <<common_pmem_map_file("err_free"), Put("src", 1),
    common_peer_via_address("peer", "return"), Get("ep", "err_peer_delete"),
    Get("mr", "err_free"),
    Try("err_mr_dereg")>>
  \o server_accept_connection("err_mr_dereg")
  \o SilentAll(common_wait_for_conn_close_and_disconnect(1))
  \o <<Done, Label("err_mr_dereg"), Rel("mr"), Label("err_free"), Rel("mem"),
       Rel("ep"), Label("err_peer_delete"), Rel("peer")>>

(* Mutant of HashLookup: the segment is examined without a wait.             *)
HashLookupUnwaited ==
  <<Post(1, "read", "dst", "src", TRUE, "err_mr_remote_delete")>>

HashLookup ==
  <<Post(1, "read", "dst", "src", TRUE, "err_mr_remote_delete"), Try("err_mr_remote_delete")>>
  \o Wait(1, "cq", "read", "err_mr_remote_delete")

HashClient ==
  <<common_peer_via_address("peer", "return"), malloc_aligned("mem", {}, "err_peer_delete"),
    Get("mr", "err_mr_free")>>
  \o client_connect(1, "err_mr_dereg")
  \o <<Try("err_conn_disconnect"), Unless("err_conn_disconnect"),
       Get("rmr", "err_conn_disconnect")>>
  \o HashLookup \o HashLookup
  \o <<Done, Label("err_mr_remote_delete"), Rel("rmr"), Label("err_conn_disconnect")>>
  \o SilentAll(common_disconnect_and_wait_for_conn_close(1))
  \o <<Label("err_mr_dereg"), Rel("mr"), Label("err_mr_free"), Rel("mem"),
       Label("err_peer_delete"), Rel("peer")>>

------------------------------------------------------------------------------
(* Which programs make up an example.  Process 0 is the client, 1 and 2 are  *)
(* servers.                                                                  *)

Two(client, server) == (0 :> client) @@ (1 :> server)

ReadClient == ReadClientSetup \o ReadClientReads \o ReadClientCleanup

Programs ==
  [e01  |-> Two(ConnectionClient, ConnectionServer),
   e02  |-> Two(ReadClient, ReadServer) @@ (2 :> ReadServer),
   e03  |-> Two(ReadPersistentClient, ReadPersistentServer),
   e04  |-> Two(WriteClient, WriteServer),
   e05  |-> Two(FlushClient, FlushServer),
   e07  |-> Two(LogClient, LogServer),
   e08  |-> Two(PingPongClient, PingPongServer),
   e09  |-> Two(GPSPMClient, GPSPMServer),
   e09s |-> Two(GPSPMClientShared, GPSPMServerShared),
   e10  |-> Two(SendImmClient, SendImmServer),
   e11  |-> Two(WriteImmClient, WriteImmServer),
   e12  |-> Two(CounterClient, CounterServer),
   e12s |-> Two(CounterClientShared, CounterServerShared),
   hash |-> Two(HashClient, HashServer)]
===============================================================================
