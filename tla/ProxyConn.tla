------------------------------ MODULE ProxyConn ------------------------------
(***************************************************************************)
(* net/proxy_conn.cpp: one proxied connection, its two legs (client and    *)
(* origin), its receive buffers with their readers and its state machine.  *)
(* Everything runs in one network thread: a completion handler runs to its *)
(* end, so the methods are operators from a connection state to the next   *)
(* one, and Proxy.tla makes one action of each completion.                 *)
(*                                                                         *)
(* The connection state is the record `s' described by Proxy!TypeOK.  The  *)
(* six regions of the state machine are kept as the set s.sm of the six    *)
(* current states (their names are distinct).  Data is counted in units.   *)
(***************************************************************************)
EXTENDS Naturals, Sequences, FiniteSets, FiniteSetsExt, SequencesExt

CONSTANTS ClnCap, OrgCap \* Units the client and origin receive buffers hold

ASSUME CapAssumption == ClnCap \in Nat \ {0} /\ OrgCap \in Nat \ {0}

-----------------------------------------------------------------------------
\* Buffers: what each reader has not consumed, and the room for receiving.

ClnAvail(s) == s.client_recv - s.client_rbuf_rdr
OrgAvail(s) == Len(s.origin_recv) - s.origin_rbuf_rdr

\* The handler's readers hold back the writer until the tunnel starts.
ClnRoom(s) ==
    ClnCap - (s.client_recv - Min({s.client_rbuf_rdr} \cup
                    (IF s.tunnel THEN {} ELSE {s.client_rdr})))
OrgRoom(s) ==
    OrgCap - (Len(s.origin_recv) - Min({s.origin_rbuf_rdr} \cup
                    (IF s.tunnel THEN {} ELSE {s.origin_rdr, s.org_cache_rdr})))

Failed(s, what)        == [s EXCEPT !.bug = @ \cup {what}]
Check(s, cond, what)   == IF cond THEN s ELSE Failed(s, what)

-----------------------------------------------------------------------------
\* The state machine: guards, actions and the transition table.

Guard(s, grd) ==
    CASE grd = "always"              -> TRUE
      [] grd = "org_recv_allowed"    -> OrgRoom(s) > 0 /\ s.cln_open
      [] grd = "org_send_allowed"    -> s.origin_pending > 0 /\ s.strm = "sock"
      [] grd = "has_org_unconsumed"  -> OrgAvail(s) > 0
      [] grd = "cln_recv_allowed"    -> ClnRoom(s) > 0 /\ s.org_open
      [] grd = "cln_send_allowed"    -> s.client_pending > 0
      [] grd = "need_proxy_cln_data" -> ClnAvail(s) > 0 /\ s.strm = "sock"

\* An operation started on a closed socket can only fail.
Begin(s, op, open) ==
    [Check(s, s.ops[op] = "none", "second operation")
        EXCEPT !.ops[op] = IF open THEN "live" ELSE "dead"]

\* A read takes no more than the room there was when it started.
StartClnRecv(s) ==
    [Begin(s, "cln_recv", s.cln_open) EXCEPT !.cln_room = ClnRoom(s)]
StartOrgRecv(s) ==
    [Begin(s, "org_recv", s.org_open) EXCEPT !.org_room = OrgRoom(s)]
StartClnSend(s) ==
    [Begin(s, "cln_send", s.cln_open) EXCEPT !.cln_sending = s.client_pending]
StartOrgSend(s) ==
    [Begin(s, "org_send", s.org_open) EXCEPT !.org_sending = s.origin_pending]

CloseCln(s) == [s EXCEPT !.cln_open = FALSE]
CloseOrg(s) == [s EXCEPT !.org_open = FALSE]

ConnAct(s, act) ==
    CASE act = "start_org_recv" -> StartOrgRecv(s)
      [] act = "start_org_send" -> StartOrgSend(s)
      [] act = "start_cln_recv" -> StartClnRecv(s)
      [] act = "start_cln_send" -> StartClnSend(s)
      [] act = "close_cln"      -> CloseCln(s)
      [] act = "close_org"      -> CloseOrg(s)
      [] OTHER                  -> s \* no action; shutdown of a send side

Tr(from, ev, grd, val, act, to) == [from |-> from, ev |-> ev, grd |-> grd,
                                    val |-> val, act |-> act, to |-> to]
On(from, ev, to)              == Tr(from, ev, "always", TRUE, "none", to)
Do(from, ev, act, to)         == Tr(from, ev, "always", TRUE, act, to)
If(from, ev, grd, act, to)    == Tr(from, ev, grd, TRUE, act, to)
IfNot(from, ev, grd, act, to) == Tr(from, ev, grd, FALSE, act, to)
Stay(from, ev)                == On(from, ev, from)

OrgRecvRows ==
  { On("org_recv_start", "org_connect", "org_recv_conn"),
    On("org_recv_conn", "org_connected", "org_recv_idle"),
    If("org_recv_idle", "org_recv", "org_recv_allowed", "start_org_recv",
       "org_recv"),
    IfNot("org_recv_idle", "org_recv", "org_recv_allowed", "none",
          "org_recv_idle"),
    On("org_recv_idle", "org_recv_eof", "org_recv_eof"),
    On("org_recv_idle", "org_recv_pause", "org_recv_paused"),
    IfNot("org_recv_paused", "org_recv_resume", "org_recv_allowed", "none",
          "org_recv_idle"),
    If("org_recv_paused", "org_recv_resume", "org_recv_allowed",
       "start_org_recv", "org_recv"),
    Stay("org_recv", "org_recv"),
    On("org_recv", "org_recv_data", "org_recv_idle"),
    On("org_recv", "org_recv_eof", "org_recv_eof"),
    On("org_recv", "org_recv_err", "org_recv_err"),
    Stay("org_recv_eof", "org_recv"),
    Stay("org_recv_err", "org_recv") }

OrgRecvTableNoPaused == OrgRecvRows \* mutant: no reads asked for while paused
OrgRecvTable == OrgRecvRows \cup {Stay("org_recv_paused", "org_recv")}

OrgSendTable ==
  { On("org_send_start", "org_connect", "org_send_conn"),
    On("org_send_conn", "org_connected", "org_send_idle"),
    If("org_send_idle", "org_send", "org_send_allowed", "start_org_send",
       "org_send"),
    IfNot("org_send_idle", "org_send", "org_send_allowed", "none",
          "org_send_idle"),
    Stay("org_send", "org_send"),
    On("org_send", "org_sent_data", "org_send_idle"),
    On("org_send", "org_sent_err", "org_send_err"),
    Stay("org_send_err", "org_send") }

ClnRecvTable ==
  { If("cln_recv_idle", "cln_recv", "cln_recv_allowed", "start_cln_recv",
       "cln_recv"),
    IfNot("cln_recv_idle", "cln_recv", "cln_recv_allowed", "none",
          "cln_recv_idle"),
    Stay("cln_recv", "cln_recv"),
    On("cln_recv", "cln_recv_data", "cln_recv_idle"),
    On("cln_recv", "cln_recv_eof", "cln_recv_eof"),
    On("cln_recv", "cln_recv_err", "cln_recv_err"),
    Stay("cln_recv_eof", "cln_recv"),
    Stay("cln_recv_err", "cln_recv") }

ClnSendTable ==
  { If("cln_send_idle", "cln_send", "cln_send_allowed", "start_cln_send",
       "cln_send"),
    IfNot("cln_send_idle", "cln_send", "cln_send_allowed", "none",
          "cln_send_idle"),
    Stay("cln_send", "cln_send"),
    On("cln_send", "cln_sent_data", "cln_send_idle"),
    On("cln_send", "cln_sent_err", "cln_send_err"),
    Stay("cln_send_err", "cln_send") }

OrgEndTable ==
  { If("org_wait_end", "org_send_shut", "need_proxy_cln_data", "none",
       "org_pend_shut"),
    IfNot("org_wait_end", "org_send_shut", "need_proxy_cln_data",
          "shut_org_send", "org_send_shut"),
    IfNot("org_pend_shut", "org_sent_data", "need_proxy_cln_data",
          "shut_org_send", "org_send_shut"),
    If("org_wait_end", "org_close", "need_proxy_cln_data", "none",
       "org_pend_close"),
    IfNot("org_wait_end", "org_close", "need_proxy_cln_data", "close_org",
          "org_closed"),
    On("org_pend_shut", "org_close", "org_pend_close"),
    IfNot("org_pend_close", "org_sent_data", "need_proxy_cln_data",
          "close_org", "org_closed"),
    Stay("org_pend_close", "org_send_shut"),
    Stay("org_pend_close", "org_close"),
    Do("org_send_shut", "org_close", "close_org", "org_closed"),
    Stay("org_closed", "org_send_shut"),
    Stay("org_closed", "org_close") }

ClnEndTable ==
  { If("cln_wait_end", "cln_send_shut", "has_org_unconsumed", "none",
       "cln_pend_shut"),
    IfNot("cln_wait_end", "cln_send_shut", "has_org_unconsumed",
          "shut_cln_send", "cln_send_shut"),
    IfNot("cln_pend_shut", "cln_sent_data", "has_org_unconsumed",
          "shut_cln_send", "cln_send_shut"),
    If("cln_wait_end", "cln_close", "has_org_unconsumed", "none",
       "cln_pend_close"),
    IfNot("cln_wait_end", "cln_close", "has_org_unconsumed", "close_cln",
          "cln_closed"),
    On("cln_pend_shut", "cln_close", "cln_pend_close"),
    IfNot("cln_pend_close", "cln_sent_data", "has_org_unconsumed",
          "close_cln", "cln_closed"),
    Stay("cln_pend_close", "cln_send_shut"),
    Stay("cln_pend_close", "cln_close"),
    Do("cln_send_shut", "cln_close", "close_cln", "cln_closed"),
    Stay("cln_closed", "cln_send_shut"),
    Stay("cln_closed", "cln_close") }

ConnTable == OrgRecvTable \cup OrgSendTable \cup ClnRecvTable
                \cup ClnSendTable \cup OrgEndTable \cup ClnEndTable

ConnStates == {t.from : t \in ConnTable} \cup {t.to : t \in ConnTable}
ConnEvents == {t.ev : t \in ConnTable}

ConnRows == [ev \in ConnEvents |-> {t \in ConnTable : t.ev = ev}]

ConnInit == {"org_recv_start", "org_send_start", "cln_recv_idle",
             "cln_send_idle", "org_wait_end", "cln_wait_end"}

\* An event goes to every region; when none has a transition for it the
\* process aborts.  No event fires two transitions with an action.
Moved(s, rows) == [s EXCEPT !.sm = (@ \ {t.from : t \in rows})
                                        \cup {t.to : t \in rows}]
ActOf(rows) == IF \E t \in rows : t.act # "none"
               THEN (CHOOSE t \in rows : t.act # "none").act ELSE "none"
Fire(s, rows) == IF rows = {} THEN Failed(s, "proxy_conn")
                 ELSE ConnAct(Moved(s, rows), ActOf(rows))

Firing(s, ev) ==
    {t \in ConnRows[ev] : t.from \in s.sm /\ (Guard(s, t.grd) <=> t.val)}
ProcessEvent(s, ev)       == Fire(s, Firing(s, ev))
ProcessEvents(s, ev, evt) == ProcessEvent(ProcessEvent(s, ev), evt)

IsOrgStrmPaused(s) == "org_recv_paused" \in s.sm
HasOrgErr(s)       == s.sm \cap {"org_recv_err", "org_send_err"} # {}
HasClnErr(s)       == s.sm \cap {"cln_recv_err", "cln_send_err"} # {}

-----------------------------------------------------------------------------
\* The methods the protocol handler calls.

SendToClient(s, n) ==
    ProcessEvent([Check(s, s.client_pending + n <= OrgAvail(s), "client pending")
                    EXCEPT !.client_pending = @ + n], "cln_send")

SendToOrigin(s, n) ==
    ProcessEvent([Check(s, s.origin_pending + n <= ClnAvail(s), "origin pending")
                    EXCEPT !.origin_pending = @ + n], "org_send")

SwitchOrgStream(s) ==
    [Check(s, IsOrgStrmPaused(s), "switch while not paused")
        EXCEPT !.strm = "cache", !.org_open = TRUE]

\* The handler is given away; from here on the legs are copied blindly.
TunnelOrg(s) ==
    LET resumed == IF IsOrgStrmPaused(s) THEN ProcessEvent(s, "org_recv_resume")
                   ELSE s
    IN  IF HasOrgErr(s) THEN ProcessEvent(s, "cln_close")
        ELSE ProcessEvents(resumed, "org_recv", "org_send")
TunnelClnNoSend(s) == \* mutant: what has been received is not sent on
    ProcessEvent(s, IF HasClnErr(s) THEN "org_close" ELSE "cln_recv")
TunnelCln(s) ==
    IF HasClnErr(s) THEN ProcessEvent(s, "org_close")
    ELSE ProcessEvents(s, "cln_recv", "cln_send")
StartBlindTunnel(s) ==
    TunnelCln(TunnelOrg([s EXCEPT !.origin_pending = ClnAvail(s),
                                  !.client_pending = OrgAvail(s),
                                  !.tunnel = TRUE]))

MarkHalfClosed(s) == [s EXCEPT !.half_closed = TRUE]
=============================================================================
