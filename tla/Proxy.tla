-------------------------------- MODULE Proxy --------------------------------
(***************************************************************************)
(* A proxied connection with its environment: net/proxy_conn.cpp's         *)
(* completion handlers, the cache callbacks of http/http_handler.cpp, the  *)
(* timer that closes stalled half closed connections (xproxy.cpp).  The    *)
(* network thread runs one of them at a time, so each is one action; what  *)
(* the two peers, the sockets and the cache do decides which comes next.   *)
(*                                                                         *)
(* An operation started on an open socket is "live" and ends with success, *)
(* the end of the stream or an error; when the socket is closed meanwhile  *)
(* its completion may already be queued, or it is aborted.                 *)
(***************************************************************************)
EXTENDS HttpHandler

CONSTANT Worlds \* What the two peers may send and which calls of bp_ctrl_ fail

ASSUME WorldsAssumption ==
    \A w \in Worlds :
        /\ w.cln \in Seq({"req", "part", "bad"})
        /\ w.org \in Seq(DOMAIN Hdrs \cup {"part", "body", "bad"})
        /\ w.bp_fails \subseteq {"add", "len"}

VARIABLE conn

vars == <<conn>>

Ops == {"connect", "org_recv", "org_send", "cln_recv", "cln_send"}

TypeOK ==
    /\ conn.sm \subseteq ConnStates /\ Cardinality(conn.sm) = 6
    /\ conn.strm \in {"sock", "cache"}
    /\ conn.ops \in [Ops -> {"none", "live", "dead"}]
    /\ conn.cache_op \in {"none", "open_rd", "compare", "close", "open_wr",
                          "write"}
    /\ conn.handle \in {"none", "rd", "wr"}
    /\ conn.csm \in {t.from : t \in HandlerTable}
    /\ conn.flags \subseteq {"bpctrl_added", "pend_tunnel", "recv_paused",
                             "trans_completed", "params_set",
                             "caching_started", "after_end_data"}
    /\ conn.client_rdr <= conn.client_recv
    /\ conn.client_rbuf_rdr <= conn.client_recv
    /\ {conn.origin_rdr, conn.org_cache_rdr, conn.origin_rbuf_rdr}
            \subseteq 0..Len(conn.origin_recv)

Init ==
    \E w \in Worlds :
        conn = [ cln_script |-> w.cln, org_script |-> w.org,
                 bp_fails |-> w.bp_fails,
                 sm |-> ConnInit, strm |-> "sock",
                 org_open |-> TRUE, cln_open |-> TRUE,
                 ops |-> [op \in Ops |-> "none"],
                 client_recv |-> 0, origin_recv |-> <<>>,
                 client_rbuf_rdr |-> 0, client_rdr |-> 0,
                 origin_rbuf_rdr |-> 0, origin_rdr |-> 0, org_cache_rdr |-> 0,
                 client_pending |-> 0, origin_pending |-> 0,
                 cln_sending |-> 0, org_sending |-> 0,
                 cln_room |-> 0, org_room |-> 0,
                 tunnel |-> FALSE, half_closed |-> FALSE, moved |-> FALSE,
                 csm |-> "wait_body_data", cache_op |-> "none",
                 handle |-> "none", flags |-> {}, trans |-> <<>>,
                 obj_at |-> 0, obj_len |-> 0, cache_offs |-> 0,
                 writing |-> 0, wrote |-> <<>>, bug |-> {} ]

\* Every handler: the process must not have been aborted.
Becomes(s) == conn.bug = {} /\ conn' = s

\* The completion of op: the state its handler starts from.
Completed(op) ==
    [conn EXCEPT !.ops[op] = "none",
                 !.cln_room = IF op = "cln_recv" THEN 0 ELSE @,
                 !.org_room = IF op = "org_recv" THEN 0 ELSE @]

-----------------------------------------------------------------------------
\* start_org_connect.
Accept ==
    /\ "org_recv_start" \in conn.sm
    /\ Becomes([ProcessEvent(OnOriginPreConnect(conn), "org_connect") EXCEPT
                    !.ops["connect"] = "live"])

Connected ==
    /\ conn.ops["connect"] = "live"
    /\ Becomes(ProcessEvents(ProcessEvent(Completed("connect"), "org_connected"),
                             "cln_recv", "org_recv"))

\* Nothing keeps the connection: it is destroyed.
ConnectFails ==
    /\ conn.ops["connect"] = "live"
    /\ Becomes(Completed("connect"))

-----------------------------------------------------------------------------
\* start_cln_recv's handler.
HandClnBytes(s) ==
    IF ~s.tunnel THEN OnClientData(s)
    ELSE ProcessEvent([s EXCEPT !.origin_pending = ClnAvail(s)], "org_send")
ClnRecvData ==
    /\ conn.ops["cln_recv"] = "live"
    /\ \E n \in 1..conn.cln_room :
        /\ conn.client_recv + n <= Len(conn.cln_script)
        /\ Becomes(ProcessEvent(HandClnBytes(ProcessEvent(
                [Completed("cln_recv") EXCEPT !.client_recv = @ + n,
                                              !.moved = TRUE],
                "cln_recv_data")), "cln_recv"))

ClnEof(s) == IF ~s.tunnel THEN OnClientRecvEof(s)
             ELSE ProcessEvent(s, "org_send_shut")
ClnRecvEof ==
    /\ conn.ops["cln_recv"] = "live"
    /\ Becomes(ClnEof(MarkHalfClosed(ProcessEvent(Completed("cln_recv"),
                                                  "cln_recv_eof"))))

\* The client's leg is broken, seen when receiving or sending.
ClnBreak(s) == IF ~s.tunnel THEN TryBlindTunnel(s)
               ELSE ProcessEvent(s, "org_close")
ClnBroken(op, ev) ==
    /\ conn.ops[op] # "none"
    /\ Becomes(ClnBreak(MarkHalfClosed(CloseCln(ProcessEvent(Completed(op), ev)))))
ClnRecvErr == ClnBroken("cln_recv", "cln_recv_err")
ClnSendErr == ClnBroken("cln_send", "cln_sent_err")

ClnSent ==
    /\ conn.ops["cln_send"] = "live"
    /\ LET s == [Check(Completed("cln_send"),
                       conn.client_pending >= conn.cln_sending, "client sent")
                    EXCEPT !.client_pending = @ - conn.cln_sending,
                           !.origin_rbuf_rdr = @ + conn.cln_sending,
                           !.cln_sending = 0]
       IN  Becomes(ProcessEvents(ProcessEvent(s, "cln_sent_data"),
                                 "cln_send", "org_recv"))

-----------------------------------------------------------------------------
\* start_org_recv's handler.
HandOrgBytes(s) ==
    IF ~s.tunnel THEN OnOriginData(s)
    ELSE ProcessEvent([s EXCEPT !.client_pending = OrgAvail(s)], "cln_send")
OrgBytes(s, units) ==
    HandOrgBytes(ProcessEvent([s EXCEPT !.origin_recv = @ \o units,
                                        !.moved = TRUE], "org_recv_data"))

\* From the socket come the next units of the origin's script.
OrgRecvData ==
    /\ conn.ops["org_recv"] = "live" /\ conn.strm = "sock"
    /\ \E n \in 1..conn.org_room :
        LET from == Len(conn.origin_recv)
        IN  /\ from + n <= Len(conn.org_script)
            /\ Becomes(ProcessEvent(
                    OrgBytes(Completed("org_recv"), [i \in 1..n |-> from + i]),
                    "org_recv"))

OrgEof(s) == IF ~s.tunnel THEN OnOriginRecvEof(s)
             ELSE ProcessEvent(s, "cln_send_shut")
OrgRecvEof ==
    /\ conn.ops["org_recv"] = "live" /\ conn.strm = "sock"
    /\ Becomes(OrgEof(MarkHalfClosed(ProcessEvent(Completed("org_recv"),
                                                  "org_recv_eof"))))

\* From the cache come the next units of the body, with the end of the stream
\* when they are the last ones.
SwitchedEof(s) == IF ~s.tunnel THEN OnSwitchedStreamEof(s)
                  ELSE ProcessEvent(s, "cln_close")
CacheEnd(s) ==
    IF s.cache_offs < s.obj_len THEN ProcessEvent(s, "org_recv")
    ELSE SwitchedEof(CloseOrg(MarkHalfClosed(ProcessEvent(s, "org_recv_eof"))))
CacheRecv ==
    /\ conn.ops["org_recv"] = "live" /\ conn.strm = "cache"
    /\ LET n    == Min({conn.org_room, conn.obj_len - conn.cache_offs})
           from == conn.obj_at + conn.cache_offs - 1
       IN  Becomes(CacheEnd(OrgBytes(
                [Completed("org_recv") EXCEPT !.cache_offs = @ + n],
                [i \in 1..n |-> from + i])))

\* The origin's leg is broken, seen when receiving (from either stream) or
\* sending; an error of the old socket's send closes the new stream.
OrgBreak(s) == IF ~s.tunnel THEN TryBlindTunnel(s)
               ELSE ProcessEvent(s, "cln_close")
OrgBroken(op, ev) ==
    /\ conn.ops[op] # "none"
    /\ Becomes(OrgBreak(MarkHalfClosed(CloseOrg(ProcessEvent(Completed(op), ev)))))
OrgRecvErr == OrgBroken("org_recv", "org_recv_err")
OrgSendErr == OrgBroken("org_send", "org_sent_err")

OrgSent ==
    /\ conn.ops["org_send"] = "live"
    /\ LET s == [Check(Completed("org_send"),
                       conn.origin_pending >= conn.org_sending, "origin sent")
                    EXCEPT !.origin_pending = @ - conn.org_sending,
                           !.client_rbuf_rdr = @ + conn.org_sending,
                           !.org_sending = 0]
       IN  Becomes(ProcessEvents(ProcessEvent(s, "org_sent_data"),
                                 "org_send", "cln_recv"))

\* operation_aborted: the handler does nothing.  A send to the origin is also
\* cut off when its socket is replaced by the cache stream.
Aborted(op, open) == conn.ops[op] = "live" /\ ~open /\ Becomes(Completed(op))
ClnRecvAborted == Aborted("cln_recv", conn.cln_open)
ClnSendAborted == Aborted("cln_send", conn.cln_open)
OrgRecvAborted == Aborted("org_recv", conn.org_open)
OrgSendAborted == Aborted("org_send", conn.org_open /\ conn.strm = "sock")

\* xproxy::check_half_closed, proxy_conn::close_if_stalled.
CheckHalfClosed ==
    /\ conn.half_closed
    /\ Becomes(IF conn.moved THEN [conn EXCEPT !.moved = FALSE]
               ELSE CloseOrg(CloseCln(conn)))

-----------------------------------------------------------------------------
\* The callbacks of the cache operations.
CacheDone == [conn EXCEPT !.cache_op = "none"]

OpenRdDone  == /\ conn.cache_op = "open_rd"
               /\ \E res \in {"ok", "not_present", "err"} :
                        Becomes(OnOpenRd(CacheDone, res))
CompareDone == /\ conn.cache_op = "compare"
               /\ \E res \in {"ok", "fail", "err"} :
                        Becomes(OnCompare(CacheDone, res))
CloseDone   == /\ conn.cache_op = "close"
               /\ \E res \in {"ok", "err"} : Becomes(OnClose(CacheDone, res))
OpenWrDone  == /\ conn.cache_op = "open_wr"
               /\ \E res \in {"ok", "err"} : Becomes(OnOpenWr(CacheDone, res))
WriteDone   == /\ conn.cache_op = "write"
               /\ \E res \in IF TooMuch(conn) THEN {"err"} ELSE {"ok", "err"} :
                        Becomes(OnWrite(CacheDone, res))

CacheAnswers == \/ OpenRdDone \/ CompareDone \/ CloseDone
                \/ OpenWrDone \/ WriteDone

Next ==
    \/ Accept \/ Connected \/ ConnectFails
    \/ ClnRecvData \/ ClnRecvEof \/ ClnRecvErr \/ ClnRecvAborted
    \/ ClnSent \/ ClnSendErr \/ ClnSendAborted
    \/ OrgRecvData \/ OrgRecvEof \/ CacheRecv \/ OrgRecvErr \/ OrgRecvAborted
    \/ OrgSent \/ OrgSendErr \/ OrgSendAborted
    \/ CheckHalfClosed \/ CacheAnswers

\* Weak fairness of the cache's answers (the cache's own liveness) and of the
\* ends of sends; nothing is expected of what the peers send.  It is spelled
\* out with the condition under which the actions are enabled, since each of
\* them then takes a step that changes conn.
Fairness ==
    /\ []<>~(conn.cache_op # "none" /\ conn.bug = {}) \/ []<><<CacheAnswers>>_vars
    /\ []<>~(conn.ops["cln_send"] # "none" /\ conn.bug = {}) \/
            []<><<ClnSent \/ ClnSendErr \/ ClnSendAborted>>_vars

Spec == Init /\ [][Next]_vars /\ Fairness
-----------------------------------------------------------------------------
\* Properties.

\* Nothing aborts the process: whatever the order of the peers' bytes, their
\* ends and errors, the cache's answers and the wish for a tunnel, each event
\* has a transition in the handler's state and in one of the six regions.
NoUnexpectedEvent == conn.bug \cap {"proxy_conn", "http_handler"} = {}

\* The assertions of the connection and of the handler hold, those on the
\* readers and the counts of pending bytes, on the one operation per direction
\* and on the cache handle, which is not destroyed with an operation on it; and
\* no reader passes the writer of its buffer.
AssertsHold == TypeOK /\ conn.bug \subseteq {"proxy_conn", "http_handler"}

\* The client gets the origin's stream without a gap or a repetition also when
\* the rest of a response comes from the cache: what has been received before
\* the switch is what has been compared.
StreamIntact == \A i \in DOMAIN conn.origin_recv : conn.origin_recv[i] = i

\* What is written to the cache is the body of the current response from its
\* first byte, without a gap; when the writes are idle it is all of the body
\* received, so a finished transaction leaves a whole object.
ObjectIntact ==
    /\ \A i \in DOMAIN conn.wrote :
            conn.trans # <<>> /\ conn.wrote[i] = conn.trans[1].at + i - 1
    /\ conn.csm = "cache_idle_wr" => Len(conn.wrote) = RespBody(conn.trans[1])

\* A request is not passed on before the response to the previous one has been
\* dealt with: what has been sent or is to be sent is within what the handler has
\* read, and leaves room for the bytes of the later transactions; while no tunnel
\* is pending the two make up what has been read, so that nothing of a later
\* request goes out and nothing of the first one is forgotten.
ReqUnits(ts) ==
    LET sum[i \in 0 .. Len(ts)] == IF i = 0 THEN 0 ELSE sum[i - 1] + ts[i].req
    IN  sum[Len(ts)]
Later(ts) == IF ts = <<>> THEN 0 ELSE ReqUnits(Tail(ts))
OneRequestAtATime ==
    LET passed == conn.client_rbuf_rdr + conn.origin_pending
    IN  ~conn.tunnel =>
            /\ passed <= conn.client_rdr
            /\ passed + Later(conn.trans) <= conn.client_recv
            /\ ~Has(conn, "pend_tunnel") =>
                    passed + Later(conn.trans) = conn.client_rdr

\* The origin is not received from exactly while the handler decides between
\* the cache and the origin.
PausedWhileDeciding ==
    LET deciding == conn.csm \in {"cache_open_rd", "cache_compare",
                                  "cache_open_wr"}
    IN  ~conn.tunnel /\ conn.bug = {} =>
            /\ IsOrgStrmPaused(conn) <=> deciding
            /\ Has(conn, "recv_paused") <=> deciding

\* What waits for the cache doesn't wait for ever: a pending tunnel starts; a
\* response that ended while it was being written is dealt with, and the next
\* request is sent or the connection is copied blindly.
WaitsForCacheEnd ==
    LET waits == \/ Has(conn, "pend_tunnel")
                 \/ /\ conn.csm \in {"cache_write", "cache_idle_wr"}
                    /\ Has(conn, "trans_completed")
    IN  waits ~> ~waits

\* What the origin has sent reaches the client, unless its leg breaks; also
\* what came just before an error, in the middle of a cache operation, or what
\* no response was expected for.
ReceivedIsSent == []<>(OrgAvail(conn) = 0 \/ ~conn.cln_open)

\* The end of the origin's stream is passed on to the client after the bytes
\* before it.
EndIsPassedOn ==
    "org_recv_eof" \in conn.sm
        ~> (conn.sm \cap {"cln_send_shut", "cln_closed"} # {} \/ ~conn.cln_open)
=============================================================================
