----------------------------- MODULE HttpHandler -----------------------------
(***************************************************************************)
(* http/http_handler.cpp and the part of http/http_trans.cpp it relies on: *)
(* the protocol handler of a proxied connection.  It follows the requests  *)
(* and the responses and drives the cache: open for reading, compare, then *)
(* either serve the rest from the cache or write the response into it.     *)
(* When it cannot go on it starts a blind tunnel and is given away.        *)
(*                                                                         *)
(* A unit of the client stream ends a request ("req"), is a part of one    *)
(* ("part") or is not HTTP ("bad").  A unit of the origin stream is known  *)
(* by its place in s.org_script and parsed by its kind there: it ends the  *)
(* headers of a response (a field of Hdrs), is a part of headers ("part"), *)
(* a unit of body ("body"), or not HTTP ("bad").                           *)
(***************************************************************************)
EXTENDS ProxyConn

CONSTANT BpWindow \* bpctrl_window_size, in units

ASSUME WindowAssumption == BpWindow \in Nat \ {0}

\* What the headers say: the length of the body (0: none given), whether the
\* response is not to be cached, and whether it isn't too small to be.
Hdr(len, tunnel, allowed) == [len |-> len, tunnel |-> tunnel, allowed |-> allowed]
Hdrs == [ get1   |-> Hdr(1, FALSE, TRUE), get2  |-> Hdr(2, FALSE, TRUE),
          get3   |-> Hdr(3, FALSE, TRUE), small |-> Hdr(2, FALSE, FALSE),
          plain  |-> Hdr(1, TRUE, TRUE),  no_len |-> Hdr(0, TRUE, TRUE) ]

Has(s, flag)   == flag \in s.flags
Set(s, flag)   == [s EXCEPT !.flags = @ \cup {flag}]
Clear(s, flag) == [s EXCEPT !.flags = @ \ {flag}]

-----------------------------------------------------------------------------
\* http_trans: a transaction; the units of its request, of its response and of
\* the response's headers; `at' is the first unit of the response's body.

NewTrans == [ req |-> 0, req_state |-> "open", resp |-> 0, resp_state |-> "open",
              hdr |-> 0, at |-> 0, len |-> 0, tunnel |-> FALSE, allowed |-> TRUE ]

ReqCompleted(t)      == t.req_state = "complete"
RespHdrsCompleted(t) == t.at > 0
RespCompleted(t)     == t.resp_state = "complete"
RespBody(t)          == t.resp - t.hdr
\* Only a response with complete headers that isn't in http_tunnel has a key.
HasCacheKey(t) == RespHdrsCompleted(t) /\ ~t.tunnel /\ t.resp_state # "bad"

OnReqUnit(t, kind) ==
    IF kind = "bad" \/ t.req_state # "open" THEN [t EXCEPT !.req_state = "bad"]
    ELSE [t EXCEPT !.req = @ + 1,
                   !.req_state = IF kind = "req" THEN "complete" ELSE "open"]

\* What the cache serves instead of the origin is body.
Kind(s, u) == IF u \in DOMAIN s.org_script THEN s.org_script[u] ELSE "body"

\* The end of the headers, before the i-th unit of the origin.
OnRespHdrs(t, i, hdr) ==
    [t EXCEPT !.resp = @ + 1, !.hdr = @ + 1, !.at = i, !.len = hdr.len,
              !.allowed = hdr.allowed, !.tunnel = @ \/ hdr.tunnel,
              !.resp_state = IF hdr.len = 0 THEN "complete" ELSE "open"]

\* The i-th unit received from the origin, of the given kind.
OnRespUnit(t, i, kind) ==
    LET bad == [t EXCEPT !.resp_state = "bad"]
    IN  IF t.resp_state # "open" THEN bad
        ELSE IF RespHdrsCompleted(t)
        THEN [t EXCEPT !.resp = @ + 1,
                       !.resp_state = IF RespBody(t) + 1 = t.len THEN "complete"
                                      ELSE "open"]
        ELSE CASE kind \in DOMAIN Hdrs -> OnRespHdrs(t, i + 1, Hdrs[kind])
               [] kind = "part" -> [t EXCEPT !.resp = @ + 1, !.hdr = @ + 1]
               [] OTHER -> bad

\* The end of a stream ends the message it is in.
OnReqEnd(t) ==
    IF ReqCompleted(t) THEN t
    ELSE [t EXCEPT !.req_state = "complete", !.tunnel = TRUE]
OnRespEnd(t) ==
    IF RespCompleted(t) THEN t
    ELSE [t EXCEPT !.resp_state = "complete", !.tunnel = TRUE]
\* The streams tell it the last transaction.
EndLastReq(s) ==
    IF s.trans = <<>> THEN s ELSE [s EXCEPT !.trans[Len(s.trans)] = OnReqEnd(@)]
EndLastResp(s) ==
    IF s.trans = <<>> THEN s ELSE [s EXCEPT !.trans[Len(s.trans)] = OnRespEnd(@)]

-----------------------------------------------------------------------------
\* The actions of the state machine.

OrgRdrAvail(s)    == Len(s.origin_recv) - s.origin_rdr
HasCacheWrData(s) == Len(s.origin_recv) > s.org_cache_rdr

\* bp_ctrl_: the calls of the kinds in s.bp_fails fail.
SetBpContentLen(s) ==
    LET t == Check(s, Has(s, "bpctrl_added"), "bpctrl entry")
    IN  IF "len" \in s.bp_fails THEN t ELSE Set(t, "params_set")

SetBpCurrTransLen(s) ==
    SetBpContentLen(Check(s, /\ s.trans # <<>> /\ ~s.trans[1].tunnel
                             /\ ~Has(s, "params_set") /\ s.trans[1].len > 0,
                          "content length"))

RemBpEntry(s) == Clear(s, "bpctrl_added")

PauseOrgRecv(s)  == Set(ProcessEvent(s, "org_recv_pause"), "recv_paused")
ResumeOrgRecv(s) ==
    Clear(ProcessEvent(SetBpCurrTransLen(s), "org_recv_resume"), "recv_paused")

\* Starts an operation of the cache handle; its callback comes later.
CacheOp(s, op, handle) ==
    [Check(s, s.cache_op = "none" /\ s.handle = handle, "cache handle")
        EXCEPT !.cache_op = op]

\* The key names the object: the response's body.
CacheOpenRd(s) ==
    [CacheOp(Check(s, HasCacheKey(s.trans[1]), "cache key"), "open_rd", "none")
        EXCEPT !.obj_at = s.trans[1].at, !.obj_len = s.trans[1].len]
CacheOpenWr(s) == CacheOp(Check(s, HasCacheKey(s.trans[1]), "cache key"),
                          "open_wr", "none")
\* Reads from the object as much of the body as has been received.
CacheReadCompareKept(s) == \* mutant: the stream starts with the object
    LET n == Len(s.origin_recv) - s.org_cache_rdr
    IN  [CacheOp(Check(s, RespBody(s.trans[1]) = n, "body bytes"),
                 "compare", "rd") EXCEPT !.cache_offs = 0]
CacheReadCompare(s) ==
    LET n == Len(s.origin_recv) - s.org_cache_rdr
    IN  [CacheOp(Check(s, RespBody(s.trans[1]) = n, "body bytes"),
                 "compare", "rd") EXCEPT !.cache_offs = n]
CacheReopenWrTruncate(s) == [CacheOp(s, "close", "rd") EXCEPT !.handle = "none"]
CacheWrite(s) ==
    [CacheOp(Check(s, HasCacheWrData(s), "bytes to write"), "write", "wr")
        EXCEPT !.writing = Len(s.origin_recv) - s.org_cache_rdr]
CacheClose(s) == [s EXCEPT !.handle = "none"]

ConsumeCacheData(s) == [s EXCEPT !.org_cache_rdr = Len(s.origin_recv)]
\* mutant: the cache's reader stays at the headers
ConsumeCacheHdrsDataNone(s) == s
ConsumeCacheHdrsData(s) ==
    LET t == s.trans[1]
        body == IF RespHdrsCompleted(t) THEN RespBody(t) ELSE 0
    IN  [Check(s, Len(s.origin_recv) - s.org_cache_rdr >= body, "header bytes")
            EXCEPT !.org_cache_rdr = Len(s.origin_recv) - body]

SendNextNever(s) == s \* mutant: only finishes the transaction
SendNext(s) == IF s.trans # <<>> /\ s.trans[1].req > 0
               THEN SendToOrigin(s, s.trans[1].req) ELSE s
FinTransSendNext(s) ==
    SendNext([Check(s, s.trans # <<>> /\ RespCompleted(s.trans[1]),
                    "completed transaction")
                EXCEPT !.trans = Tail(@), !.wrote = <<>>,
                       !.flags = @ \ {"params_set", "caching_started",
                                      "after_end_data", "trans_completed"}])

\* The stream takes the cache handle over.
DoSwitchOrgStream(s) ==
    LET t == SwitchOrgStream(RemBpEntry(Check(s, s.handle = "rd", "read handle")))
    IN  Clear(ProcessEvent([t EXCEPT !.handle = "none"], "org_recv_resume"),
              "recv_paused")

\* The handler is gone with its state.
DoStartBlindTunnel(s) ==
    [StartBlindTunnel(Check(s, s.cache_op = "none", "destroyed with an operation"))
        EXCEPT !.flags = {}, !.trans = <<>>, !.client_rdr = 0,
               !.origin_rdr = 0, !.org_cache_rdr = 0, !.handle = "none",
               !.writing = 0, !.wrote = <<>>]

HandlerAct(s, act) ==
    CASE act = "pause_org_recv"          -> PauseOrgRecv(s)
      [] act = "resume_org_recv"         -> ResumeOrgRecv(s)
      [] act = "consume_cache_hdrs_data" -> ConsumeCacheHdrsData(s)
      [] act = "consume_cache_data"      -> ConsumeCacheData(s)
      [] act = "cache_open_rd"           -> CacheOpenRd(s)
      [] act = "cache_read_compare"      -> CacheReadCompare(s)
      [] act = "cache_open_wr"           -> CacheOpenWr(s)
      [] act = "cache_reopen_wr_truncate" -> CacheReopenWrTruncate(s)
      [] act = "cache_write"             -> CacheWrite(s)
      [] act = "cache_close"             -> CacheClose(s)
      [] act = "set_trans_completed"     -> Set(s, "trans_completed")
      [] act = "fin_trans_send_next"     -> FinTransSendNext(s)
      [] act = "set_pend_blind_tunnel"   -> Set(s, "pend_tunnel")
      [] act = "rem_bpctrl_entry"        -> RemBpEntry(s)
      [] act = "start_blind_tunnel"      -> DoStartBlindTunnel(s)
      [] act = "switch_org_stream"       -> DoSwitchOrgStream(s)

-----------------------------------------------------------------------------
\* The transition table; pend and data tell for which values of the two guards
\* pend_blind_tunnel and has_cache_wr_data a row applies.

Row(from, ev, pend, data, acts, to) == [from |-> from, ev |-> ev, pend |-> pend,
                                        data |-> data, acts |-> acts, to |-> to]
Always(from, ev, acts, to)   == Row(from, ev, "any", "any", acts, to)
Running(from, ev, acts, to)  == Row(from, ev, "no", "any", acts, to)
Pending(from, ev, acts, to)  == Row(from, ev, "yes", "any", acts, to)
WithData(from, ev, acts, to) == Row(from, ev, "no", "yes", acts, to)
NoData(from, ev, acts, to)   == Row(from, ev, "no", "no", acts, to)

CloseAndTunnel == <<"cache_close", "start_blind_tunnel">>
CloseNoResume == <<"cache_close">> \* mutant: the origin stays paused
CloseAndResume == <<"cache_close", "resume_org_recv">>

ReadTable ==
  { Always("wait_body_data", "org_data", <<"consume_cache_hdrs_data">>,
        "wait_body_data"),
    Always("wait_body_data", "skip_trans", <<>>, "cache_closed"),
    Always("wait_body_data", "trans_completed",
        <<"consume_cache_data", "fin_trans_send_next">>, "wait_body_data"),
    Always("wait_body_data", "cache_open_rd",
        <<"pause_org_recv", "cache_open_rd">>, "cache_open_rd"),
    Running("cache_open_rd", "cache_op_done", <<"cache_read_compare">>,
            "cache_compare"),
    Running("cache_open_rd", "cache_op_next",
            <<"cache_close", "cache_open_wr">>, "cache_open_wr"),
    Running("cache_compare", "compare_ok",
            <<"consume_cache_data", "switch_org_stream">>, "cache_read"),
    Running("cache_compare", "compare_fail",
            <<"cache_reopen_wr_truncate">>, "cache_open_wr"),
    Always("cache_read", "org_data", <<"consume_cache_data">>, "cache_read"),
    Always("cache_read", "trans_completed", <<"set_trans_completed">>,
        "cache_read"),
    Always("cache_read", "cache_op_done", <<>>, "cache_closed") }

\* Whatever the cache answers, a pending tunnel starts; an error goes on
\* without the cache.
EndTable ==
    { Pending("cache_open_rd", ev, CloseAndTunnel, "cache_closed") :
        ev \in {"cache_op_err", "cache_op_done", "cache_op_next"} }
    \cup
    { Pending("cache_compare", ev, CloseAndTunnel, "cache_closed") :
        ev \in {"cache_op_err", "compare_ok", "compare_fail"} }
    \cup
    { Pending("cache_open_wr", ev, CloseAndTunnel, "cache_closed") :
        ev \in {"cache_op_err", "cache_op_done"} }
    \cup
    { Pending("cache_write", ev, CloseAndTunnel, "cache_closed") :
        ev \in {"cache_op_err", "cache_op_next"} }
    \cup
    { Running(st, "cache_op_err", CloseAndResume, "cache_closed") :
        st \in {"cache_open_rd", "cache_compare", "cache_open_wr"} }

WriteTable ==
  { WithData("cache_open_wr", "cache_op_done",
             <<"resume_org_recv", "cache_write">>, "cache_write"),
    NoData("cache_open_wr", "cache_op_done", <<"resume_org_recv">>,
           "cache_idle_wr"),
    Always("cache_idle_wr", "org_data", <<"cache_write">>, "cache_write"),
    Always("cache_write", "org_data", <<>>, "cache_write"),
    Always("cache_write", "trans_completed", <<"set_trans_completed">>,
        "cache_write"),
    Running("cache_write", "cache_op_err", <<"cache_close">>, "cache_closed"),
    WithData("cache_write", "cache_op_next", <<"cache_write">>, "cache_write"),
    NoData("cache_write", "cache_op_next", <<>>, "cache_idle_wr"),
    Always("cache_idle_wr", "trans_completed",
        <<"cache_close", "fin_trans_send_next">>, "wait_body_data"),
    Always("cache_closed", "skip_trans", <<>>, "cache_closed"),
    Always("cache_closed", "org_data", <<"consume_cache_data">>, "cache_closed"),
    Always("cache_closed", "trans_completed", <<"fin_trans_send_next">>,
        "wait_body_data") }

\* A cache operation in progress uses the buffers: the tunnel waits for it.
TunnelTable ==
    { Always(st, "try_blind_tunnel",
          <<"rem_bpctrl_entry", "set_pend_blind_tunnel">>, st) :
        st \in {"cache_open_rd", "cache_compare", "cache_open_wr",
                "cache_write"} }
    \cup
    { Always(st, "try_blind_tunnel", <<"start_blind_tunnel">>, "cache_closed") :
        st \in {"cache_read", "wait_body_data", "cache_closed"} }
    \cup
    { Always("cache_idle_wr", "try_blind_tunnel", CloseAndTunnel, "cache_closed") }

HandlerTable == ReadTable \cup EndTable \cup WriteTable \cup TunnelTable

HandlerRows == [ev \in {t.ev : t \in HandlerTable} |->
                    {t \in HandlerTable : t.ev = ev}]

\* The actions of a row, in their order.
HandlerActs(s, acts) ==
    LET done[i \in 0 .. Len(acts)] ==
            IF i = 0 THEN s ELSE HandlerAct(done[i - 1], acts[i])
    IN  done[Len(acts)]

\* An event without a transition aborts the process.
Take(s, rows) ==
    IF rows = {} THEN Failed(s, "http_handler")
    ELSE LET row == CHOOSE t \in rows : TRUE
         IN  [HandlerActs(s, row.acts) EXCEPT !.csm = row.to]

Value(cond) == IF cond THEN "yes" ELSE "no"
HandlerEvent(s, ev) ==
    LET pend == Value(Has(s, "pend_tunnel"))
        data == Value(HasCacheWrData(s))
    IN  Take(s, {t \in HandlerRows[ev] : /\ t.from = s.csm
                                         /\ t.pend \in {"any", pend}
                                         /\ t.data \in {"any", data}})

TryBlindTunnel(s) == HandlerEvent(s, "try_blind_tunnel")

-----------------------------------------------------------------------------
\* What the connection tells the handler.

OnOriginPreConnect(s) == IF "add" \in s.bp_fails THEN TryBlindTunnel(s)
                         ELSE Set(s, "bpctrl_added")

\* The transactions after the units up to the n-th: a unit is the last one's, and
\* one is started when there is more after its end.
TransFed(s) ==
    LET start == IF s.trans = <<>> \/ ReqCompleted(s.trans[Len(s.trans)])
                 THEN Append(s.trans, NewTrans) ELSE s.trans
        Feed(ts, i) ==
            LET fed == [ts EXCEPT ![Len(ts)] = OnReqUnit(@, s.cln_script[i])]
            IN  IF ReqCompleted(fed[Len(ts)]) /\ i < s.client_recv
                THEN Append(fed, NewTrans) ELSE fed
        fed[i \in s.client_rdr .. s.client_recv] ==
            IF i = s.client_rdr THEN start ELSE Feed(fed[i - 1], i)
    IN  fed[s.client_recv]
OnClientData(s) ==
    LET trans == TransFed(s)
        done  == [s EXCEPT !.trans = trans]
        read  == [done EXCEPT !.client_rdr = s.client_recv]
        sent  == trans[1].req - (IF s.trans = <<>> THEN 0 ELSE s.trans[1].req)
    IN  CASE trans[Len(trans)].req_state = "bad" -> TryBlindTunnel(done)
          [] trans[Len(trans)].req_state # "bad" /\ sent > 0 ->
                SendToOrigin(read, sent)
          [] OTHER -> read

OnClientRecvEof(s) == ProcessEvent(EndLastReq(s), "org_send_shut")

OnOriginRecvEofQuiet(s) == \* mutant: the client isn't told
    TryBlindTunnel(EndLastResp(s))
OnOriginRecvEof(s) ==
    TryBlindTunnel(ProcessEvent(EndLastResp(s), "cln_send_shut"))

OnSwitchedStreamEof(s) ==
    ProcessEvent(HandlerEvent(s, "cache_op_done"), "cln_close")

\* consume_curr_resp_data: the response takes its units and stops at its end.
RespFed(s) ==
    LET Feed(a, i) ==
            LET t == OnRespUnit(a.t, i, Kind(s, s.origin_recv[i]))
            IN  IF a.t.resp_state # "open" /\ i > s.origin_rdr + 1 THEN a
                ELSE [t |-> t, rdr |-> IF t.resp_state = "bad" THEN a.rdr ELSE i]
        fed[i \in s.origin_rdr .. Len(s.origin_recv)] ==
            IF i = s.origin_rdr THEN [t |-> s.trans[1], rdr |-> i]
            ELSE Feed(fed[i - 1], i)
    IN  fed[Len(s.origin_recv)]
ConsumeCurrRespData(s) ==
    LET fed == RespFed(s)
    IN  [s EXCEPT !.trans[1] = fed.t, !.origin_rdr = fed.rdr]

\* The skip is told before the data, so that it knows what to consume.
SkipsTrans(s, had_hdrs) ==
    s.trans[1].tunnel \/ (~had_hdrs /\ RespCompleted(s.trans[1]))
TellOrgData(s, had_hdrs) ==
    HandlerEvent(IF SkipsTrans(s, had_hdrs) THEN HandlerEvent(s, "skip_trans")
                 ELSE s, "org_data")
AdjustTransState(s, had_hdrs) ==
    LET t     == s.trans[1]
        force == ~t.tunnel /\ t.resp > BpWindow /\ RespBody(t) < 1
    IN  TellOrgData([s EXCEPT !.trans[1].tunnel = @ \/ force], had_hdrs)

\* set_curr_trans_backpressure_params sets the length of a response in
\* http_tunnel, once.
SetsBpParams(s) == /\ ~Has(s, "params_set")
                   /\ s.trans[1].tunnel /\ s.trans[1].len > 0

\* The end of process_curr_trans_resp, for a response that goes on.
StartCaching(s) ==
    LET t == s.trans[1]
        u == Set(s, "caching_started")
    IN  IF Has(s, "caching_started") \/ ~HasCacheKey(t) THEN s
        ELSE IF ~t.allowed
        THEN HandlerEvent(HandlerEvent(SetBpCurrTransLen(u), "skip_trans"),
                          "org_data")
        ELSE IF RespBody(t) >= 1 THEN HandlerEvent(u, "cache_open_rd") ELSE s
ProcessCurrTransResp(s) ==
    IF RespCompleted(s.trans[1]) THEN HandlerEvent(s, "trans_completed")
                                 ELSE StartCaching(s)

\* The steps of on_origin_data from the last to the first; a step that returns
\* false has asked for a blind tunnel and ends it.  avail is what had not been
\* consumed at its start.
ProcessCurrTrans(s, avail) ==
    IF RespCompleted(s.trans[1]) /\ OrgRdrAvail(s) > 0
    THEN TryBlindTunnel(IF s.csm = "cache_read" THEN s
                        ELSE Set(s, "after_end_data"))
    ELSE SendToClient(ProcessCurrTransResp(s), avail)
SetBackpressure(s, avail) ==
    LET t == IF SetsBpParams(s) THEN SetBpContentLen(s) ELSE s
    IN  IF SetsBpParams(t) THEN TryBlindTunnel(t) ELSE ProcessCurrTrans(t, avail)
Consume(s, avail) ==
    LET t == ConsumeCurrRespData(s)
    IN  IF t.trans[1].resp_state = "bad" THEN TryBlindTunnel(t)
        ELSE SetBackpressure(AdjustTransState(t, RespHdrsCompleted(s.trans[1])),
                             avail)
IsRespExpected(s) == s.trans # <<>> /\ ReqCompleted(s.trans[1])
OnOriginData(s) ==
    LET t == Check(s, ~Has(s, "recv_paused"), "data while paused")
    IN  IF IsRespExpected(t) THEN Consume(t, OrgRdrAvail(t)) ELSE TryBlindTunnel(t)

-----------------------------------------------------------------------------
\* The callbacks of the cache operations.

ConsumeCacheWrDataNone(s, n) == \* mutant: what was written is not consumed
    ProcessEvent(s, "org_recv")
ConsumeCacheWrData(s, n) ==
    ProcessEvent([s EXCEPT !.org_cache_rdr = @ + n], "org_recv")

CacheError(s) ==
    HandlerEvent(ConsumeCacheWrData(s, Len(s.origin_recv) - s.org_cache_rdr),
                 "cache_op_err")

OnOpenRd(s, res) ==
    CASE res = "ok" -> HandlerEvent([s EXCEPT !.handle = "rd"], "cache_op_done")
      [] res = "not_present" -> HandlerEvent(s, "cache_op_next")
      [] res = "err" -> CacheError(s)

OnCompare(s, res) ==
    CASE res = "ok"   -> HandlerEvent(s, "compare_ok")
      [] res = "fail" -> HandlerEvent(s, "compare_fail")
      [] res = "err"  -> CacheError(s)

\* The open for writing follows whatever has been asked for meanwhile.
OnClose(s, res) == IF res = "ok" THEN CacheOpenWr(s) ELSE CacheError(s)

OnOpenWr(s, res) ==
    IF res = "ok" THEN HandlerEvent([s EXCEPT !.handle = "wr"], "cache_op_done")
    ELSE CacheError(s)

\* The object takes no more than its length, and fails if given more.
TooMuch(s) == Len(s.wrote) + s.writing > s.trans[1].len

Written(s, res) ==
    LET given == SubSeq(s.origin_recv, s.org_cache_rdr + 1,
                        s.org_cache_rdr + s.writing)
    IN  IF res = "ok"
        THEN HandlerEvent(
                ConsumeCacheWrData([s EXCEPT !.wrote = @ \o given, !.writing = 0],
                                   s.writing), "cache_op_next")
        ELSE CacheError([s EXCEPT !.writing = 0])

OnWriteForgets(s, res) == Written(s, res) \* mutant: the end is forgotten
OnWrite(s, res) ==
    IF Has(s, "trans_completed") /\ ~Has(s, "pend_tunnel")
    THEN HandlerEvent(Written(s, res), "trans_completed") ELSE Written(s, res)
=============================================================================
