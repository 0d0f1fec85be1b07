-------------------------- MODULE HttpHandler_proofs --------------------------
(***************************************************************************)
(* What each event of proxy_conn's machine and each row of http_handler's  *)
(* does to a connection, for any scripts of the peers and any capacities,  *)
(* and the invariant of the connection.                                    *)
(*                                                                         *)
(* Does(s, t, X, F) is the form of these results: t is s after the step,   *)
(* with a sound machine, no abort and no failed assertion; only the        *)
(* machine's states X and the fields F may differ.  DoesBoth puts such     *)
(* steps together.                                                         *)
(***************************************************************************)
EXTENDS Proxy, TLAPS

-----------------------------------------------------------------------------
(* Connections: the regions of the machine and the types.                  *)

ORecv == {"org_recv_start", "org_recv_conn", "org_recv_idle",
          "org_recv_paused", "org_recv", "org_recv_eof", "org_recv_err"}
OSend == {"org_send_start", "org_send_conn", "org_send_idle", "org_send",
          "org_send_err"}
CRecv == {"cln_recv_idle", "cln_recv", "cln_recv_eof", "cln_recv_err"}
CSend == {"cln_send_idle", "cln_send", "cln_send_err"}
OEnd == {"org_wait_end", "org_pend_shut", "org_send_shut", "org_pend_close",
         "org_closed"}
CEnd == {"cln_wait_end", "cln_pend_shut", "cln_send_shut", "cln_pend_close",
         "cln_closed"}

In(sm, R, x) == x \in R /\ \A y \in R : y \in sm <=> y = x
One(sm, R) == \E x \in R : In(sm, R, x)
Sm(sm) == /\ One(sm, ORecv) /\ One(sm, OSend) /\ One(sm, CRecv)
          /\ One(sm, CSend) /\ One(sm, OEnd) /\ One(sm, CEnd)

Flags == {"bpctrl_added", "pend_tunnel", "recv_paused", "trans_completed",
          "params_set", "caching_started", "after_end_data"}
CacheOps == {"none", "open_rd", "compare", "close", "open_wr", "write"}
States == ORecv \cup OSend \cup CRecv \cup CSend \cup OEnd \cup CEnd
Trans == [ req : Nat, req_state : {"open", "complete", "bad"}, resp : Nat,
           resp_state : {"open", "complete", "bad"}, hdr : Nat, at : Nat,
           len : Nat, tunnel : BOOLEAN, allowed : BOOLEAN ]
Csms == {"wait_body_data", "cache_open_rd", "cache_compare", "cache_open_wr",
         "cache_read", "cache_write", "cache_idle_wr", "cache_closed"}

Bugs == {"proxy_conn", "http_handler", "second operation", "client pending",
         "origin pending", "switch while not paused", "bpctrl entry",
         "content length", "cache handle", "cache key", "body bytes",
         "bytes to write", "header bytes", "completed transaction",
         "read handle", "destroyed with an operation", "data while paused",
         "client sent", "origin sent"}

Conns == [ cln_script : Seq({"req", "part", "bad"}),
           org_script : Seq(DOMAIN Hdrs \cup {"part", "body", "bad"}),
           bp_fails : SUBSET {"len"},
           sm : SUBSET States, strm : {"sock", "cache"},
           org_open : BOOLEAN, cln_open : BOOLEAN,
           ops : [Ops -> {"none", "live", "dead"}],
           client_recv : Nat, origin_recv : Seq(Nat),
           client_rbuf_rdr : Int, client_rdr : Nat,
           origin_rbuf_rdr : Int, origin_rdr : Nat, org_cache_rdr : Int,
           client_pending : Int, origin_pending : Int,
           cln_sending : Int, org_sending : Int, cln_room : Int, org_room : Int,
           tunnel : BOOLEAN, half_closed : BOOLEAN, moved : BOOLEAN,
           csm : Csms, cache_op : CacheOps, handle : {"none", "rd", "wr"},
           flags : SUBSET Flags, trans : Seq(Trans),
           obj_at : Int, obj_len : Int, cache_offs : Int, writing : Int,
           wrote : Seq(Nat), bug : SUBSET Bugs ]

Move(s, from, to) == [s EXCEPT !.sm = (@ \ {from}) \cup {to}]

-----------------------------------------------------------------------------
(* The rows of proxy_conn's machine.                                       *)

\* Only the states X of the machine may change.
Only(sm, tm, X) == \A x : x \notin X => (x \in tm <=> x \in sm)

\* Rows that stay in their regions leave each region in one state.
LEMMA RegionStep ==
    ASSUME NEW sm, NEW R, One(sm, R), NEW rows,
           \A u \in rows : u.from \in sm /\ (u.from \in R <=> u.to \in R),
           \A u, v \in rows : u.from = v.from => u.to = v.to
    PROVE  One((sm \ {t.from : t \in rows}) \cup {t.to : t \in rows}, R)
<1>1. PICK x \in R : In(sm, R, x)
  BY DEF One, In
<1> DEFINE tm == (sm \ {t.from : t \in rows}) \cup {t.to : t \in rows}
<1>2. CASE \E u \in rows : u.from = x
  <2>1. PICK u \in rows : u.from = x
    BY <1>2
  <2>2. In(tm, R, u.to)
    BY <1>1, <2>1 DEF In
  <2> QED
    BY <2>2 DEF One, In
<1>3. CASE ~\E u \in rows : u.from = x
  <2>1. \A u \in rows : u.to \notin R
    BY <1>1, <1>3 DEF In
  <2>2. In(tm, R, x)
    BY <1>1, <1>3, <2>1 DEF In
  <2> QED
    BY <2>2 DEF One, In
<1> QED
  BY <1>2, <1>3

\* A row stays in its region.
LEMMA RowsInRegion ==
    ASSUME NEW R \in {ORecv, OSend, CRecv, CSend, OEnd, CEnd}, NEW u \in ConnTable
    PROVE  u.from \in R <=> u.to \in R
  BY DEF ORecv, OSend, CRecv, CSend, OEnd, CEnd, ConnTable, OrgRecvTable, OrgRecvRows,
      OrgSendTable,
     ClnRecvTable, ClnSendTable, OrgEndTable, ClnEndTable, Stay, If, IfNot, Do, On, Tr

\* Two rows of an event from a state differ in the value of one guard.
LEMMA RowsExclude ==
    ASSUME NEW u \in ConnTable, NEW v \in ConnTable, u.ev = v.ev, u.from = v.from
    PROVE  u.grd = v.grd /\ (u.val = v.val => u.to = v.to /\ u.act = v.act)
<1>1. CASE u \in OrgRecvTable /\ v \in OrgRecvTable
  BY <1>1 DEF OrgRecvTable, OrgRecvRows, Stay, If, IfNot, Do, On, Tr
<1>2. CASE u \in OrgSendTable /\ v \in OrgSendTable
  BY <1>2 DEF OrgSendTable, Stay, If, IfNot, Do, On, Tr
<1>3. CASE u \in ClnRecvTable /\ v \in ClnRecvTable
  BY <1>3 DEF ClnRecvTable, Stay, If, IfNot, Do, On, Tr
<1>4. CASE u \in ClnSendTable /\ v \in ClnSendTable
  BY <1>4 DEF ClnSendTable, Stay, If, IfNot, Do, On, Tr
<1>5. CASE u \in OrgEndTable /\ v \in OrgEndTable
  BY <1>5 DEF OrgEndTable, Stay, If, IfNot, Do, On, Tr
<1>6. CASE u \in ClnEndTable /\ v \in ClnEndTable
  BY <1>6 DEF ClnEndTable, Stay, If, IfNot, Do, On, Tr
<1>7. \A t \in OrgRecvTable : t.from \in ORecv
  BY DEF ORecv, OrgRecvTable, OrgRecvRows, Stay, If, IfNot, Do, On, Tr
<1>8. \A t \in OrgSendTable : t.from \in OSend
  BY DEF OSend, OrgSendTable, Stay, If, IfNot, Do, On, Tr
<1>9. \A t \in ClnRecvTable : t.from \in CRecv
  BY DEF CRecv, ClnRecvTable, Stay, If, IfNot, Do, On, Tr
<1>10. \A t \in ClnSendTable : t.from \in CSend
  BY DEF CSend, ClnSendTable, Stay, If, IfNot, Do, On, Tr
<1>11. \A t \in OrgEndTable : t.from \in OEnd
  BY DEF OEnd, OrgEndTable, Stay, If, IfNot, Do, On, Tr
<1>12. \A t \in ClnEndTable : t.from \in CEnd
  BY DEF CEnd, ClnEndTable, Stay, If, IfNot, Do, On, Tr
<1> HIDE DEF OrgRecvTable, OrgSendTable, ClnRecvTable, ClnSendTable, OrgEndTable, ClnEndTable
<1> QED
  BY <1>1, <1>2, <1>3, <1>4, <1>5, <1>6, <1>7, <1>8, <1>9, <1>10, <1>11, <1>12
     DEF ConnTable, ORecv, OSend, CRecv, CSend, OEnd, CEnd

\* A row wants its guard to hold or not to.
LEMMA RowsVal ==
    ASSUME NEW u \in ConnTable
    PROVE  u.val = TRUE \/ u.val = FALSE
  BY DEF ConnTable, OrgRecvTable, OrgRecvRows, OrgSendTable,
     ClnRecvTable, ClnSendTable, OrgEndTable, ClnEndTable, Stay, If, IfNot, Do, On, Tr

\* The origin is read only when there is room.
LEMMA RowsAllowed ==
    ASSUME NEW u \in ConnTable, u.act = "start_org_recv"
    PROVE  u.grd = "org_recv_allowed" /\ u.val
  BY DEF ConnTable, OrgRecvTable, OrgRecvRows, OrgSendTable,
     ClnRecvTable, ClnSendTable, OrgEndTable, ClnEndTable, Stay, If, IfNot, Do, On, Tr

\* An operation is started from its idle state, into its running one.
LEMMA RowsTyped ==
    ASSUME NEW u \in ConnTable
    PROVE  /\ u.from \in States /\ u.to \in States
           /\ u.act \in {"none", "start_org_recv", "start_org_send", "start_cln_recv",
                      "start_cln_send", "close_cln", "close_org",
                      "shut_org_send", "shut_cln_send"}
           /\ u.act = "start_org_recv" =>
                u.from \in {"org_recv_idle", "org_recv_paused"} /\ u.to = "org_recv"
           /\ u.act = "start_org_send" =>
                u.from = "org_send_idle" /\ u.to = "org_send"
           /\ u.act = "start_cln_recv" =>
                u.from = "cln_recv_idle" /\ u.to = "cln_recv"
           /\ u.act = "start_cln_send" =>
                u.from = "cln_send_idle" /\ u.to = "cln_send"
<1>1. u.from \in States /\ u.to \in States
  BY DEF States, ORecv, OSend, CRecv, CSend, OEnd, CEnd, ConnTable, OrgRecvTable,
      OrgRecvRows, OrgSendTable,
     ClnRecvTable, ClnSendTable, OrgEndTable, ClnEndTable, Stay, If, IfNot, Do, On, Tr
<1>2. u.act \in {"none", "start_org_recv", "start_org_send", "start_cln_recv",
                      "start_cln_send", "close_cln", "close_org",
                      "shut_org_send", "shut_cln_send"}
  BY DEF ConnTable, OrgRecvTable, OrgRecvRows, OrgSendTable,
     ClnRecvTable, ClnSendTable, OrgEndTable, ClnEndTable, Stay, If, IfNot, Do, On, Tr
<1>3. u.act = "start_org_recv" =>
           u.from \in {"org_recv_idle", "org_recv_paused"} /\ u.to = "org_recv"
  BY DEF ConnTable, OrgRecvTable, OrgRecvRows, OrgSendTable,
     ClnRecvTable, ClnSendTable, OrgEndTable, ClnEndTable, Stay, If, IfNot, Do, On, Tr
<1>4. /\ u.act = "start_org_send" =>
                u.from = "org_send_idle" /\ u.to = "org_send"
      /\ u.act = "start_cln_recv" =>
                u.from = "cln_recv_idle" /\ u.to = "cln_recv"
      /\ u.act = "start_cln_send" =>
                u.from = "cln_send_idle" /\ u.to = "cln_send"
  BY DEF ConnTable, OrgRecvTable, OrgRecvRows, OrgSendTable,
     ClnRecvTable, ClnSendTable, OrgEndTable, ClnEndTable, Stay, If, IfNot, Do, On, Tr
<1> QED
  BY <1>1, <1>2, <1>3, <1>4

\* What the machine's events leave alone.
Rest(s) == << s.cln_script, s.org_script, s.bp_fails, s.strm, s.client_recv,
              s.origin_recv, s.client_rdr, s.origin_rdr, s.org_cache_rdr,
              s.tunnel, s.csm, s.cache_op, s.handle, s.flags, s.trans,
              s.obj_at, s.obj_len, s.cache_offs, s.writing, s.wrote,
              s.client_rbuf_rdr, s.origin_rbuf_rdr, s.client_pending,
              s.origin_pending >>
\* What the operations that run were given: the room, the bytes to send.
Given(s) == << s.org_room, s.cln_sending, s.org_sending >>

\* The rows that fire move the machine, and their action follows.
LEMMA Fires ==
    ASSUME NEW s \in Conns, Sm(s.sm), NEW ev \in ConnEvents,
           NEW rows, rows = Firing(s, ev), rows # {},
           NEW m, m = Moved(s, rows)
    PROVE  /\ m \in Conns /\ Sm(m.sm)
           /\ m.sm = (s.sm \ {t.from : t \in rows}) \cup {t.to : t \in rows}
           /\ m.ops = s.ops /\ Given(m) = Given(s)
           /\ Rest(m) = Rest(s) /\ m.bug = s.bug
           /\ \A u, v \in rows : u.from = v.from => u.to = v.to /\ u.act = v.act
           /\ \A u \in rows : u \in ConnTable /\ u.ev = ev /\ u.from \in s.sm
                               /\ (Guard(s, u.grd) <=> u.val)
           /\ ProcessEvent(s, ev) = ConnAct(m, ActOf(rows))
<1>1. \A u \in rows : u \in ConnTable /\ u.ev = ev /\ u.from \in s.sm
                               /\ (Guard(s, u.grd) <=> u.val)
  BY DEF Firing, ConnRows
<1>2. \A u, v \in rows : u.from = v.from => u.to = v.to /\ u.act = v.act
  <2> SUFFICES ASSUME NEW u \in rows, NEW v \in rows, u.from = v.from
               PROVE  u.to = v.to /\ u.act = v.act
    OBVIOUS
  <2>1. u.grd = v.grd /\ (u.val = v.val => u.to = v.to /\ u.act = v.act)
    BY <1>1, RowsExclude
  <2>2. (u.val = TRUE \/ u.val = FALSE) /\ (v.val = TRUE \/ v.val = FALSE)
    BY <1>1, RowsVal
  <2> QED
    BY <1>1, <2>1, <2>2
<1> DEFINE sm == (s.sm \ {t.from : t \in rows}) \cup {t.to : t \in rows}
<1>3. sm \in SUBSET States
  <2>1. s.sm \subseteq States
    BY DEF Conns
  <2>2. \A u \in rows : u.to \in States
    BY <1>1, RowsTyped
  <2> QED
    BY <2>1, <2>2
<1>4. Sm(sm)
  <2>1. ASSUME NEW R \in {ORecv, OSend, CRecv, CSend, OEnd, CEnd}, One(s.sm, R)
        PROVE  One(sm, R)
    <3>1. \A u \in rows : u.from \in s.sm /\ (u.from \in R <=> u.to \in R)
      BY <1>1, RowsInRegion
    <3>2. \A u, v \in rows : u.from = v.from => u.to = v.to
      BY <1>2
    <3> QED
      BY <2>1, <3>1, <3>2, RegionStep
  <2> HIDE DEF sm
  <2> QED
    BY <2>1 DEF Sm
<1>5. m = [s EXCEPT !.sm = sm]
  BY DEF Moved
<1>6. m \in Conns /\ m.sm = sm /\ m.ops = s.ops /\ Given(m) = Given(s)
      /\ m.bug = s.bug
  <2> HIDE DEF sm
  <2>1. [s EXCEPT !.sm = sm] \in Conns
    BY <1>3 DEF Conns
  <2>2. /\ [s EXCEPT !.sm = sm].sm = sm
        /\ [s EXCEPT !.sm = sm].ops = s.ops
        /\ Given([s EXCEPT !.sm = sm]) = Given(s)
        /\ [s EXCEPT !.sm = sm].bug = s.bug
    BY DEF Conns, Given
  <2> QED
    BY <2>1, <2>2, <1>5
<1>7. Rest(m) = Rest(s)
  <2> HIDE DEF sm
  <2>1. Rest([s EXCEPT !.sm = sm]) = Rest(s)
    BY DEF Conns, Rest
  <2> QED
    BY <2>1, <1>5
<1>8. ProcessEvent(s, ev) = ConnAct(m, ActOf(rows))
  BY DEF ProcessEvent, Fire
<1> HIDE DEF sm
<1>9. Sm(m.sm)
  BY <1>4, <1>6
<1> QED
  BY <1>1, <1>2, <1>6, <1>7, <1>8, <1>9 DEF sm

-----------------------------------------------------------------------------
(* A connection whose machine is sound.                                    *)

\* An operation that runs has its state in the machine; it was given room, or no
\* more than what is to be sent.
OpsOk(s) ==
    /\ \A op \in {"org_recv", "org_send", "cln_recv", "cln_send"} :
            s.ops[op] # "none" => op \in s.sm
    /\ s.ops["connect"] # "none" => "org_recv_conn" \in s.sm
    /\ s.ops["org_recv"] # "none" => s.org_room > 0
    /\ s.ops["cln_send"] # "none" =>
            0 <= s.cln_sending /\ s.cln_sending <= s.client_pending
    /\ s.ops["org_send"] # "none" =>
            0 <= s.org_sending /\ s.org_sending <= s.origin_pending
\* What is to be sent has been received after what was sent, and the reader of
\* the cache doesn't pass the writer.
Counts(s) ==
    /\ 0 <= s.client_rbuf_rdr /\ 0 <= s.origin_pending
    /\ s.client_rbuf_rdr + s.origin_pending <= s.client_recv
    /\ 0 <= s.origin_rbuf_rdr /\ 0 <= s.client_pending
    /\ s.origin_rbuf_rdr + s.client_pending <= Len(s.origin_recv)
    /\ 0 <= s.org_cache_rdr /\ s.org_cache_rdr <= Len(s.origin_recv)
Mach(s) == s \in Conns /\ Sm(s.sm) /\ OpsOk(s) /\ Counts(s)

\* The least member of a set.
LEMMA MinIsOne ==
    ASSUME NEW S \in SUBSET Int, NEW a \in S, \A x \in S : a <= x
    PROVE  Min(S) = a
<1>1. Min(S) \in S /\ \A x \in S : Min(S) <= x
  BY DEF Min
<1>2. Min(S) \in Int /\ a \in Int /\ Min(S) <= a /\ a <= Min(S)
  BY <1>1
<1> QED
  BY <1>2

\* The least of up to three numbers is a number.
LEMMA MinOfThree ==
    ASSUME NEW a \in Int, NEW b \in Int, NEW c \in Int
    PROVE  Min({a} \cup {b, c}) \in Int /\ Min({a} \cup {b}) \in Int
           /\ Min({a} \cup {}) \in Int
<1> DEFINE m == IF a <= b /\ a <= c THEN a ELSE IF b <= c THEN b ELSE c
           n == IF a <= b THEN a ELSE b
<1>1. m \in {a} \cup {b, c} /\ \A x \in {a} \cup {b, c} : m <= x
  OBVIOUS
<1>2. n \in {a} \cup {b} /\ \A x \in {a} \cup {b} : n <= x
  OBVIOUS
<1>3. a \in {a} \cup {} /\ \A x \in {a} \cup {} : a <= x
  OBVIOUS
<1>4. m \in Int /\ n \in Int
  OBVIOUS
<1> HIDE DEF m, n
<1>5. Min({a} \cup {b, c}) = m
  BY <1>1, MinIsOne
<1>6. Min({a} \cup {b}) = n
  BY <1>2, MinIsOne
<1>7. Min({a} \cup {}) = a
  BY <1>3, MinIsOne
<1> QED
  BY <1>4, <1>5, <1>6, <1>7

\* The rooms of the buffers are numbers.
LEMMA RoomTyped ==
    ASSUME NEW s \in Conns
    PROVE  ClnRoom(s) \in Int /\ OrgRoom(s) \in Int
<1>1. /\ s.client_recv \in Int /\ s.client_rbuf_rdr \in Int /\ s.client_rdr \in Int
      /\ s.origin_recv \in Seq(Nat) /\ s.origin_rbuf_rdr \in Int
      /\ s.origin_rdr \in Int /\ s.org_cache_rdr \in Int
  BY DEF Conns
<1>2. Min({s.client_rbuf_rdr} \cup (IF s.tunnel THEN {} ELSE {s.client_rdr})) \in Int
  BY <1>1, MinOfThree
<1>3. Min({s.origin_rbuf_rdr} \cup
         (IF s.tunnel THEN {} ELSE {s.origin_rdr, s.org_cache_rdr})) \in Int
  BY <1>1, MinOfThree
<1>4. Len(s.origin_recv) \in Int
  BY <1>1
<1>5. ClnCap \in Int /\ OrgCap \in Int
  BY CapAssumption
<1> DEFINE c == Min({s.client_rbuf_rdr} \cup
                        (IF s.tunnel THEN {} ELSE {s.client_rdr}))
           o == Min({s.origin_rbuf_rdr} \cup
                   (IF s.tunnel THEN {} ELSE {s.origin_rdr, s.org_cache_rdr}))
<1>6. ClnRoom(s) = ClnCap - (s.client_recv - c)
  BY DEF ClnRoom
<1>7. OrgRoom(s) = OrgCap - (Len(s.origin_recv) - o)
  BY DEF OrgRoom
<1>8. c \in Int /\ o \in Int
  BY <1>2, <1>3
<1> HIDE DEF c, o
<1> QED
  BY <1>1, <1>4, <1>5, <1>6, <1>7, <1>8

\* An operation is started.
LEMMA BeginEffect ==
    ASSUME NEW s \in Conns, NEW op \in Ops, NEW open, s.ops[op] = "none"
    PROVE  LET t == Begin(s, op, open) IN
           /\ t \in Conns /\ t.sm = s.sm /\ Rest(t) = Rest(s)
           /\ t.bug = s.bug /\ Given(t) = Given(s)
           /\ t.ops \in [Ops -> {"none", "live", "dead"}]
           /\ t.ops[op] # "none" /\ \A o \in Ops \ {op} : t.ops[o] = s.ops[o]
<1> DEFINE v == IF open THEN "live" ELSE "dead"
           t == [s EXCEPT !.ops[op] = v]
<1>1. v \in {"live", "dead"}
  OBVIOUS
<1> HIDE DEF v
<1>2. t \in Conns
  BY <1>1 DEF Conns
<1>3. t.sm = s.sm /\ Given(t) = Given(s) /\ t.bug = s.bug
  BY DEF Conns, Given
<1>4. Rest(t) = Rest(s)
  BY DEF Conns, Rest
<1>5. t.ops = [s.ops EXCEPT ![op] = v] /\ s.ops \in [Ops -> {"none", "live", "dead"}]
  BY DEF Conns
<1>6. /\ t.ops \in [Ops -> {"none", "live", "dead"}]
      /\ t.ops[op] # "none" /\ \A o \in Ops \ {op} : t.ops[o] = s.ops[o]
  BY <1>1, <1>5
<1>7. Begin(s, op, open) = t
  BY DEF Begin, Check, v
<1> HIDE DEF t
<1> QED
  BY <1>2, <1>3, <1>4, <1>6, <1>7

\* What an action of the connection's machine does.
LEMMA ActEffect ==
    ASSUME NEW s \in Conns,
           NEW act \in {"none", "start_org_recv", "start_org_send", "start_cln_recv",
                      "start_cln_send", "close_cln", "close_org",
                      "shut_org_send", "shut_cln_send"},
           act = "start_org_recv" => OrgRoom(s) > 0 /\ s.ops["org_recv"] = "none",
           act = "start_org_send" => s.ops["org_send"] = "none",
           act = "start_cln_recv" => s.ops["cln_recv"] = "none",
           act = "start_cln_send" => s.ops["cln_send"] = "none"
    PROVE  LET t == ConnAct(s, act) IN
           /\ t \in Conns /\ t.sm = s.sm /\ Rest(t) = Rest(s)
           /\ t.bug = s.bug
           /\ act # "start_org_recv" => t.ops["org_recv"] = s.ops["org_recv"]
           /\ act # "start_org_send" => t.ops["org_send"] = s.ops["org_send"]
           /\ act # "start_cln_recv" => t.ops["cln_recv"] = s.ops["cln_recv"]
           /\ act # "start_cln_send" => t.ops["cln_send"] = s.ops["cln_send"]
           /\ t.ops["connect"] = s.ops["connect"]
           /\ \/ t.org_room > 0
              \/ t.org_room = s.org_room /\ act # "start_org_recv"
           /\ t.cln_sending = IF act = "start_cln_send" THEN s.client_pending
                              ELSE s.cln_sending
           /\ t.org_sending = IF act = "start_org_send" THEN s.origin_pending
                              ELSE s.org_sending
<1>1. CASE act = "start_org_recv"
  <2> DEFINE b == Begin(s, "org_recv", s.org_open)
             n == OrgRoom(s)
             t == [b EXCEPT !.org_room = n]
  <2>1. /\ b \in Conns /\ b.sm = s.sm /\ Rest(b) = Rest(s)
        /\ b.bug = s.bug /\ Given(b) = Given(s)
        /\ \A o \in Ops \ {"org_recv"} : b.ops[o] = s.ops[o]
    BY <1>1, BeginEffect DEF Ops
  <2>2. n \in Int /\ n > 0
    BY <1>1, RoomTyped
  <2>3. ConnAct(s, act) = t
    BY <1>1 DEF ConnAct, StartOrgRecv
  <2> HIDE DEF b, n
  <2>4. t \in Conns /\ t.sm = b.sm /\ t.bug = b.bug /\ t.ops = b.ops
    BY <2>1, <2>2 DEF Conns
  <2>5. t.org_room = n /\ t.cln_sending = b.cln_sending /\ t.org_sending = b.org_sending
    BY <2>1 DEF Conns
  <2>6. Rest(t) = Rest(b)
    BY <2>1 DEF Conns, Rest
  <2> HIDE DEF t
  <2> QED
    BY <1>1, <2>1, <2>2, <2>3, <2>4, <2>5, <2>6 DEF Ops, Given
<1>2. CASE act = "start_cln_recv"
  <2> DEFINE b == Begin(s, "cln_recv", s.cln_open)
             n == ClnRoom(s)
             t == [b EXCEPT !.cln_room = n]
  <2>1. /\ b \in Conns /\ b.sm = s.sm /\ Rest(b) = Rest(s)
        /\ b.bug = s.bug /\ Given(b) = Given(s)
        /\ \A o \in Ops \ {"cln_recv"} : b.ops[o] = s.ops[o]
    BY <1>2, BeginEffect DEF Ops
  <2>2. n \in Int
    BY RoomTyped
  <2>3. ConnAct(s, act) = t
    BY <1>2 DEF ConnAct, StartClnRecv
  <2> HIDE DEF b, n
  <2>4. t \in Conns /\ t.sm = b.sm /\ t.bug = b.bug /\ t.ops = b.ops
    BY <2>1, <2>2 DEF Conns
  <2>5. t.cln_room = n /\ t.org_room = b.org_room /\ t.cln_sending = b.cln_sending /\ t.org_sending = b.org_sending
    BY <2>1 DEF Conns
  <2>6. Rest(t) = Rest(b)
    BY <2>1 DEF Conns, Rest
  <2> HIDE DEF t
  <2> QED
    BY <1>2, <2>1, <2>2, <2>3, <2>4, <2>5, <2>6 DEF Ops, Given
<1>3. CASE act = "start_cln_send"
  <2> DEFINE b == Begin(s, "cln_send", s.cln_open)
             n == s.client_pending
             t == [b EXCEPT !.cln_sending = n]
  <2>1. /\ b \in Conns /\ b.sm = s.sm /\ Rest(b) = Rest(s)
        /\ b.bug = s.bug /\ Given(b) = Given(s)
        /\ \A o \in Ops \ {"cln_send"} : b.ops[o] = s.ops[o]
    BY <1>3, BeginEffect DEF Ops
  <2>2. n \in Int
    BY DEF Conns
  <2>3. ConnAct(s, act) = t
    BY <1>3 DEF ConnAct, StartClnSend
  <2> HIDE DEF b, n
  <2>4. t \in Conns /\ t.sm = b.sm /\ t.bug = b.bug /\ t.ops = b.ops
    BY <2>1, <2>2 DEF Conns
  <2>5. t.cln_sending = n /\ t.org_room = b.org_room /\ t.org_sending = b.org_sending
    BY <2>1 DEF Conns
  <2>6. Rest(t) = Rest(b)
    BY <2>1 DEF Conns, Rest
  <2> HIDE DEF t
  <2> QED
    BY <1>3, <2>1, <2>2, <2>3, <2>4, <2>5, <2>6 DEF Ops, Given, n
<1>4. CASE act = "start_org_send"
  <2> DEFINE b == Begin(s, "org_send", s.org_open)
             n == s.origin_pending
             t == [b EXCEPT !.org_sending = n]
  <2>1. /\ b \in Conns /\ b.sm = s.sm /\ Rest(b) = Rest(s)
        /\ b.bug = s.bug /\ Given(b) = Given(s)
        /\ \A o \in Ops \ {"org_send"} : b.ops[o] = s.ops[o]
    BY <1>4, BeginEffect DEF Ops
  <2>2. n \in Int
    BY DEF Conns
  <2>3. ConnAct(s, act) = t
    BY <1>4 DEF ConnAct, StartOrgSend
  <2> HIDE DEF b, n
  <2>4. t \in Conns /\ t.sm = b.sm /\ t.bug = b.bug /\ t.ops = b.ops
    BY <2>1, <2>2 DEF Conns
  <2>5. t.org_sending = n /\ t.org_room = b.org_room /\ t.cln_sending = b.cln_sending
    BY <2>1 DEF Conns
  <2>6. Rest(t) = Rest(b)
    BY <2>1 DEF Conns, Rest
  <2> HIDE DEF t
  <2> QED
    BY <1>4, <2>1, <2>2, <2>3, <2>4, <2>5, <2>6 DEF Ops, Given, n
<1>5. CASE act = "close_cln"
  <2> DEFINE t == [s EXCEPT !.cln_open = FALSE]
  <2>1. ConnAct(s, act) = t
    BY <1>5 DEF ConnAct, CloseCln
  <2>2. t \in Conns /\ t.sm = s.sm /\ t.bug = s.bug /\ t.ops = s.ops
        /\ Given(t) = Given(s)
    BY DEF Conns, Given
  <2>3. Rest(t) = Rest(s)
    BY DEF Conns, Rest
  <2> HIDE DEF t
  <2> QED
    BY <1>5, <2>1, <2>2, <2>3 DEF Given
<1>6. CASE act = "close_org"
  <2> DEFINE t == [s EXCEPT !.org_open = FALSE]
  <2>1. ConnAct(s, act) = t
    BY <1>6 DEF ConnAct, CloseOrg
  <2>2. t \in Conns /\ t.sm = s.sm /\ t.bug = s.bug /\ t.ops = s.ops
        /\ Given(t) = Given(s)
    BY DEF Conns, Given
  <2>3. Rest(t) = Rest(s)
    BY DEF Conns, Rest
  <2> HIDE DEF t
  <2> QED
    BY <1>6, <2>1, <2>2, <2>3 DEF Given
<1>7. CASE act \in {"none", "shut_org_send", "shut_cln_send"}
  <2>1. ConnAct(s, act) = s
    BY <1>7 DEF ConnAct
  <2> QED
    BY <1>7, <2>1
<1> QED
  BY <1>1, <1>2, <1>3, <1>4, <1>5, <1>6, <1>7

-----------------------------------------------------------------------------
(* An event of the machine.                                                *)

\* The fields of the connection that the machine's events leave alone.
Fields == {"cln_script", "org_script", "bp_fails", "strm", "client_recv",
           "origin_recv", "client_rdr", "origin_rdr", "org_cache_rdr",
           "tunnel", "csm", "cache_op", "handle", "flags", "trans",
           "obj_at", "obj_len", "cache_offs", "writing", "wrote",
           "client_rbuf_rdr", "origin_rbuf_rdr", "client_pending",
           "origin_pending" }
Keep(s, t, F) == \A f \in Fields \ F : t[f] = s[f]

\* What a step of the code does to a connection: the machine stays sound and
\* no assertion fails, the regions' states outside X and the fields outside F
\* stay as they are.
Does(s, t, X, F) == /\ Mach(t) /\ t.bug = s.bug
                    /\ Only(s.sm, t.sm, X) /\ Keep(s, t, F)

\* Fields compared one by one.
LEMMA RestKeeps ==
    ASSUME NEW s, NEW t, Rest(t) = Rest(s)
    PROVE  Keep(s, t, {})
  BY DEF Keep, Fields, Rest

\* Two steps one after the other.
LEMMA DoesBoth ==
    ASSUME NEW s, NEW t, NEW u, NEW X, NEW Y, NEW F, NEW G,
           Does(s, t, X, F), Does(t, u, Y, G)
    PROVE  Does(s, u, X \cup Y, F \cup G)
<1>1. Only(s.sm, u.sm, X \cup Y)
  BY DEF Does, Only
<1>2. Keep(s, u, F \cup G)
  BY DEF Does, Keep
<1> QED
  BY <1>1, <1>2 DEF Does

\* The room for the origin's bytes doesn't depend on the machine.
LEMMA SameRoom ==
    ASSUME NEW s \in Conns, NEW rows, Moved(s, rows) \in Conns
    PROVE  OrgRoom(Moved(s, rows)) = OrgRoom(s)
<1> DEFINE m == Moved(s, rows)
<1>1. /\ m.origin_recv = s.origin_recv /\ m.origin_rbuf_rdr = s.origin_rbuf_rdr
      /\ m.tunnel = s.tunnel /\ m.origin_rdr = s.origin_rdr
      /\ m.org_cache_rdr = s.org_cache_rdr
  BY DEF Moved, Conns
<1> HIDE DEF m
<1> QED
  BY <1>1 DEF OrgRoom, m

\* No row leaves the state of an operation that has not ended.
Ended(s, rows) ==
    /\ \A r \in rows :
            r.from \in {"org_recv", "org_send", "cln_recv", "cln_send"}
                /\ r.to # r.from => s.ops[r.from] = "none"
    /\ \A r \in rows : r.from = "org_recv_conn" => s.ops["connect"] = "none"

\* An event that some row takes.
LEMMA Event ==
    ASSUME NEW s, Mach(s), NEW ev \in ConnEvents,
           NEW rows, rows = Firing(s, ev), rows # {},
           Ended(s, rows)
    PROVE  LET t == ProcessEvent(s, ev) IN
           /\ Mach(t) /\ Rest(t) = Rest(s) /\ t.bug = s.bug
           /\ \A x : x \in t.sm <=> \/ x \in s.sm /\ \A r \in rows : r.from # x
                              \/ \E r \in rows : r.to = x
<1> DEFINE m == Moved(s, rows)
           a == ActOf(rows)
           t == ProcessEvent(s, ev)
<1>1. /\ m \in Conns /\ Sm(m.sm)
      /\ m.sm = (s.sm \ {r.from : r \in rows}) \cup {r.to : r \in rows}
      /\ m.ops = s.ops /\ Given(m) = Given(s)
      /\ Rest(m) = Rest(s) /\ m.bug = s.bug
      /\ \A r \in rows : r \in ConnTable /\ r.ev = ev /\ r.from \in s.sm
                         /\ (Guard(s, r.grd) <=> r.val)
      /\ t = ConnAct(m, a)
  <2>1. s \in Conns /\ Sm(s.sm)
    BY DEF Mach
  <2> QED
    BY <2>1, Fires
<1>2. a = "none" \/ \E u \in rows : u.act = a
  BY DEF ActOf
<1>3. a \in {"none", "start_org_recv", "start_org_send", "start_cln_recv",
            "start_cln_send", "close_cln", "close_org",
            "shut_org_send", "shut_cln_send"}
  BY <1>1, <1>2, RowsTyped
<1>4. a = "start_org_recv" => OrgRoom(m) > 0
  <2> SUFFICES ASSUME a = "start_org_recv"
               PROVE  OrgRoom(m) > 0
    OBVIOUS
  <2>1. PICK u \in rows : u.act = a
    BY <1>2
  <2>2. u \in ConnTable /\ (Guard(s, u.grd) <=> u.val)
    BY <1>1
  <2>3. u.grd = "org_recv_allowed" /\ u.val
    BY <2>1, <2>2, RowsAllowed
  <2>4. OrgRoom(s) > 0
    BY <2>2, <2>3 DEF Guard
  <2> QED
    BY <1>1, <2>4, SameRoom DEF Mach
<1>5. /\ a = "start_org_recv" => "org_recv" \in m.sm
      /\ a = "start_org_send" => "org_send" \in m.sm
      /\ a = "start_cln_recv" => "cln_recv" \in m.sm
      /\ a = "start_cln_send" => "cln_send" \in m.sm
  <2>1. \A u \in rows : u.to \in m.sm
    BY <1>1
  <2> QED
    BY <1>1, <1>2, <2>1, RowsTyped
<1>6. /\ a = "start_org_recv" => s.ops["org_recv"] = "none"
      /\ a = "start_org_send" => s.ops["org_send"] = "none"
      /\ a = "start_cln_recv" => s.ops["cln_recv"] = "none"
      /\ a = "start_cln_send" => s.ops["cln_send"] = "none"
  <2>1. ASSUME NEW u \in rows
        PROVE  /\ u.act = "start_org_recv" => s.ops["org_recv"] = "none"
               /\ u.act = "start_org_send" => s.ops["org_send"] = "none"
               /\ u.act = "start_cln_recv" => s.ops["cln_recv"] = "none"
               /\ u.act = "start_cln_send" => s.ops["cln_send"] = "none"
    <3>1. u.from \in s.sm /\ u \in ConnTable
      BY <1>1
    <3>2. /\ u.act = "start_org_recv" => "org_recv" \notin s.sm
          /\ u.act = "start_org_send" => "org_send" \notin s.sm
          /\ u.act = "start_cln_recv" => "cln_recv" \notin s.sm
          /\ u.act = "start_cln_send" => "cln_send" \notin s.sm
      BY <3>1, RowsTyped DEF Mach, Sm, One, In, ORecv, OSend, CRecv, CSend
    <3> QED
      BY <3>2 DEF Mach, OpsOk
  <2> QED
    BY <1>2, <2>1
<1>7. \A op \in {"org_recv", "org_send", "cln_recv", "cln_send"} :
            s.ops[op] # "none" => op \in m.sm
  <2> SUFFICES ASSUME NEW op \in {"org_recv", "org_send", "cln_recv", "cln_send"},
                      s.ops[op] # "none"
               PROVE  op \in m.sm
    OBVIOUS
  <2>1. op \in s.sm
    BY DEF Mach, OpsOk
  <2>2. \A r \in rows : r.from = op => r.to = op
    BY DEF Ended
  <2> QED
    BY <1>1, <2>1, <2>2
<1>8. s.ops["connect"] # "none" => "org_recv_conn" \in m.sm
  BY <1>1 DEF Mach, OpsOk, Ended
<1> HIDE DEF m, a
<1>9. /\ t \in Conns /\ t.sm = m.sm /\ Rest(t) = Rest(m)
      /\ t.bug = m.bug
      /\ a # "start_org_recv" => t.ops["org_recv"] = m.ops["org_recv"]
      /\ a # "start_org_send" => t.ops["org_send"] = m.ops["org_send"]
      /\ a # "start_cln_recv" => t.ops["cln_recv"] = m.ops["cln_recv"]
      /\ a # "start_cln_send" => t.ops["cln_send"] = m.ops["cln_send"]
      /\ t.ops["connect"] = m.ops["connect"]
      /\ \/ t.org_room > 0
         \/ t.org_room = m.org_room /\ a # "start_org_recv"
      /\ t.cln_sending = IF a = "start_cln_send" THEN m.client_pending ELSE m.cln_sending
      /\ t.org_sending = IF a = "start_org_send" THEN m.origin_pending ELSE m.org_sending
  <2> HIDE DEF t
  <2>0. m \in Conns /\ m.ops = s.ops /\ t = ConnAct(m, a)
    BY <1>1
  <2>1. /\ a = "start_org_recv" => OrgRoom(m) > 0 /\ m.ops["org_recv"] = "none"
        /\ a = "start_org_send" => m.ops["org_send"] = "none"
        /\ a = "start_cln_recv" => m.ops["cln_recv"] = "none"
        /\ a = "start_cln_send" => m.ops["cln_send"] = "none"
    BY <2>0, <1>4, <1>6
  <2> QED
    BY <1>3, <2>0, <2>1, ActEffect
<1> HIDE DEF t
<1>10. /\ t.client_rbuf_rdr = s.client_rbuf_rdr /\ t.origin_rbuf_rdr = s.origin_rbuf_rdr
       /\ t.client_pending = s.client_pending /\ t.origin_pending = s.origin_pending
       /\ m.client_pending = s.client_pending /\ m.origin_pending = s.origin_pending
       /\ t.client_recv = s.client_recv /\ t.origin_recv = s.origin_recv
       /\ t.org_cache_rdr = s.org_cache_rdr
  BY <1>1, <1>9 DEF Rest
<1>11. m.org_room = s.org_room /\ m.cln_sending = s.cln_sending
       /\ m.org_sending = s.org_sending
  BY <1>1 DEF Given
<1>12. Counts(t)
  BY <1>10 DEF Mach, Counts
<1>13. OpsOk(t)
  <2>1. \A op \in {"org_recv", "org_send", "cln_recv", "cln_send"} :
            t.ops[op] # "none" => op \in t.sm
    BY <1>1, <1>5, <1>7, <1>9
  <2>2. t.ops["connect"] # "none" => "org_recv_conn" \in t.sm
    BY <1>1, <1>8, <1>9
  <2>3. t.ops["org_recv"] # "none" => t.org_room > 0
    BY <1>1, <1>9, <1>11 DEF Mach, OpsOk
  <2>4. s.client_pending \in Int /\ s.origin_pending \in Int /\ 0 <= s.client_pending
        /\ 0 <= s.origin_pending
    BY DEF Mach, Conns, Counts
  <2>5. t.ops["cln_send"] # "none" => 0 <= t.cln_sending /\ t.cln_sending <= t.client_pending
    BY <1>1, <1>9, <1>10, <1>11, <2>4 DEF Mach, OpsOk
  <2>6. t.ops["org_send"] # "none" => 0 <= t.org_sending /\ t.org_sending <= t.origin_pending
    BY <1>1, <1>9, <1>10, <1>11, <2>4 DEF Mach, OpsOk
  <2> QED
    BY <2>1, <2>2, <2>3, <2>5, <2>6 DEF OpsOk
<1>14. m.bug = s.bug
  BY <1>1
<1>15. \A x : x \in m.sm <=> \/ x \in s.sm /\ \A r \in rows : r.from # x
                        \/ \E r \in rows : r.to = x
  BY <1>1
<1> QED
  BY <1>1, <1>9, <1>13, <1>14, <1>15, <1>12 DEF Mach, t

\* The rows of an event that may fire.
Rows(s, ev) == {r \in ConnTable : r.ev = ev /\ r.from \in s.sm}

\* When a row's guard holds the event is handled, and some rows fire with it.
LEMMA Fired ==
    ASSUME NEW s, Mach(s), NEW ev, NEW u \in Rows(s, ev), Guard(s, u.grd) <=> u.val,
           Ended(s, Rows(s, ev))
    PROVE  LET t == ProcessEvent(s, ev) IN
           /\ Mach(t) /\ Rest(t) = Rest(s) /\ t.bug = s.bug
           /\ \E rows \in SUBSET Rows(s, ev) :
                /\ u \in rows
                /\ \A r \in Rows(s, ev) : r.grd = "always" /\ r.val => r \in rows
                /\ \A x : x \in t.sm <=> \/ x \in s.sm /\ \A r \in rows : r.from # x
                                   \/ \E r \in rows : r.to = x
<1> DEFINE rows == Firing(s, ev)
<1>1. ev \in ConnEvents
  BY DEF Rows, ConnEvents
<1>2. rows = {r \in Rows(s, ev) : Guard(s, r.grd) <=> r.val}
  BY <1>1 DEF Firing, ConnRows, Rows
<1>3. rows \subseteq Rows(s, ev) /\ u \in rows
  BY <1>2
<1>4. Ended(s, rows)
  BY <1>3 DEF Ended
<1>5. rows = Firing(s, ev)
  OBVIOUS
<1>6. Guard(s, "always")
  BY DEF Guard
<1> HIDE DEF rows
<1>7. LET t == ProcessEvent(s, ev) IN
      /\ Mach(t) /\ Rest(t) = Rest(s) /\ t.bug = s.bug
      /\ \A x : x \in t.sm <=> \/ x \in s.sm /\ \A r \in rows : r.from # x
                         \/ \E r \in rows : r.to = x
  BY <1>1, <1>3, <1>4, <1>5, Event
<1>8. \A r \in Rows(s, ev) : r.grd = "always" /\ r.val => r \in rows
  BY <1>2, <1>6
<1> QED
  BY <1>3, <1>7, <1>8

-----------------------------------------------------------------------------
(* The events, one by one.                                                 *)

\* The origin has been connected; a direction is shut, or will be.
Up(sm) == "org_recv_start" \notin sm /\ "org_recv_conn" \notin sm
ShutO(sm) == "org_pend_shut" \in sm \/ "org_send_shut" \in sm
ShutC(sm) == "cln_pend_shut" \in sm \/ "cln_send_shut" \in sm

\* The connection to the origin is started.
LEMMA EvOrgConnect ==
    ASSUME NEW s, Mach(s), "org_recv_start" \in s.sm
    PROVE  LET t == ProcessEvent(s, "org_connect") IN
           /\ Does(s, t, {"org_recv_conn", "org_recv_start", "org_send_conn",
               "org_send_start"}, {})
           /\ "org_recv_start" \notin t.sm
           /\ "org_recv_conn" \in t.sm
           /\ "org_send_start" \in s.sm
               => "org_send_conn" \in t.sm /\ "org_send_start" \notin t.sm
<1>1. \A r \in ConnTable : r.ev = "org_connect" =>
            (r.from \in {"org_recv_start"} /\ r.to \in {"org_recv_conn"})
                \/ (r.from \in {"org_send_start"} /\ r.to \in {"org_send_conn"})
  BY DEF ConnTable, OrgRecvTable, OrgRecvRows, OrgSendTable,
     ClnRecvTable, ClnSendTable, OrgEndTable, ClnEndTable, Stay, If, IfNot, Do, On, Tr
<1>2. PICK u \in Rows(s, "org_connect") : Guard(s, u.grd) <=> u.val
  <2>1. PICK x \in ORecv : In(s.sm, ORecv, x)
    BY DEF Mach, Sm, One
  <2>2. x \in {"org_recv_start"} /\ x \in s.sm
    BY <2>1 DEF In, ORecv, Up, ShutO, ShutC
  <2>3. \E u \in OrgRecvTable : u.ev = "org_connect" /\ u.from = x
                        /\ (Guard(s, u.grd) <=> u.val)
    BY <2>2 DEF OrgRecvTable, OrgRecvRows, If, IfNot, Stay, Do, On, Tr, Guard
  <2> QED
    BY <2>2, <2>3 DEF Rows, ConnTable
<1> DEFINE t == ProcessEvent(s, "org_connect")
<1>3. Ended(s, Rows(s, "org_connect"))
  BY <1>1 DEF Ended, Rows
<1>4. Mach(t) /\ Rest(t) = Rest(s) /\ t.bug = s.bug
  BY <1>2, <1>3, Fired
<1>5. PICK rows \in SUBSET Rows(s, "org_connect") :
        /\ u \in rows
        /\ \A r \in Rows(s, "org_connect") : r.grd = "always" /\ r.val => r \in rows
        /\ \A x : x \in t.sm <=> \/ x \in s.sm /\ \A r \in rows : r.from # x
                           \/ \E r \in rows : r.to = x
  BY <1>2, <1>3, Fired
<1>6. \A r \in rows : r.from \in s.sm
          /\ ((r.from \in {"org_recv_start"} /\ r.to \in {"org_recv_conn"})
              \/ (r.from \in {"org_send_start"} /\ r.to \in {"org_send_conn"}))
  BY <1>1, <1>5 DEF Rows
<1>8. /\ \E r \in rows : r.from = "org_recv_start"
      /\ "org_send_start" \in s.sm => \E r \in rows : r.from = "org_send_start"
  <2>1. On("org_recv_start", "org_connect", "org_recv_conn") \in ConnTable
    BY DEF ConnTable, OrgRecvTable, OrgRecvRows
  <2>2. On("org_send_start", "org_connect", "org_send_conn") \in ConnTable
    BY DEF ConnTable, OrgSendTable
  <2> QED
    BY <1>5, <2>1, <2>2 DEF On, Tr, Rows
<1> HIDE DEF t
<1>7. Only(s.sm, t.sm, {"org_recv_conn", "org_recv_start", "org_send_conn", "org_send_start"})
  BY <1>5, <1>6 DEF Only
<1> QED
  BY <1>4, <1>5, <1>6, <1>7, <1>8, RestKeeps DEF Does, t, Only, ShutO, ShutC

\* The origin is connected.
LEMMA EvOrgConnected ==
    ASSUME NEW s, Mach(s), "org_recv_conn" \in s.sm, s.ops["connect"] = "none"
    PROVE  LET t == ProcessEvent(s, "org_connected") IN
           /\ Does(s, t, {"org_recv_conn", "org_recv_idle", "org_send_conn",
               "org_send_idle"}, {})
           /\ "org_recv_conn" \notin t.sm /\ ("org_send_conn" \in s.sm
               => "org_send_conn" \notin t.sm)
<1>1. \A r \in ConnTable : r.ev = "org_connected" =>
            (r.from \in {"org_recv_conn"} /\ r.to \in {"org_recv_idle"})
                \/ (r.from \in {"org_send_conn"} /\ r.to \in {"org_send_idle"})
  BY DEF ConnTable, OrgRecvTable, OrgRecvRows, OrgSendTable,
     ClnRecvTable, ClnSendTable, OrgEndTable, ClnEndTable, Stay, If, IfNot, Do, On, Tr
<1>2. PICK u \in Rows(s, "org_connected") : Guard(s, u.grd) <=> u.val
  <2>1. PICK x \in ORecv : In(s.sm, ORecv, x)
    BY DEF Mach, Sm, One
  <2>2. x \in {"org_recv_conn"} /\ x \in s.sm
    BY <2>1 DEF In, ORecv, Up, ShutO, ShutC
  <2>3. \E u \in OrgRecvTable : u.ev = "org_connected" /\ u.from = x
                        /\ (Guard(s, u.grd) <=> u.val)
    BY <2>2 DEF OrgRecvTable, OrgRecvRows, If, IfNot, Stay, Do, On, Tr, Guard
  <2> QED
    BY <2>2, <2>3 DEF Rows, ConnTable
<1> DEFINE t == ProcessEvent(s, "org_connected")
<1>3. Ended(s, Rows(s, "org_connected"))
  BY <1>1 DEF Ended, Rows
<1>4. Mach(t) /\ Rest(t) = Rest(s) /\ t.bug = s.bug
  BY <1>2, <1>3, Fired
<1>5. PICK rows \in SUBSET Rows(s, "org_connected") :
        /\ u \in rows
        /\ \A r \in Rows(s, "org_connected") : r.grd = "always" /\ r.val => r \in rows
        /\ \A x : x \in t.sm <=> \/ x \in s.sm /\ \A r \in rows : r.from # x
                           \/ \E r \in rows : r.to = x
  BY <1>2, <1>3, Fired
<1>6. \A r \in rows : r.from \in s.sm
          /\ ((r.from \in {"org_recv_conn"} /\ r.to \in {"org_recv_idle"})
              \/ (r.from \in {"org_send_conn"} /\ r.to \in {"org_send_idle"}))
  BY <1>1, <1>5 DEF Rows
<1>8. /\ \E r \in rows : r.from = "org_recv_conn"
      /\ "org_send_conn" \in s.sm => \E r \in rows : r.from = "org_send_conn"
  <2>1. On("org_recv_conn", "org_connected", "org_recv_idle") \in ConnTable
    BY DEF ConnTable, OrgRecvTable, OrgRecvRows
  <2>2. On("org_send_conn", "org_connected", "org_send_idle") \in ConnTable
    BY DEF ConnTable, OrgSendTable
  <2> QED
    BY <1>5, <2>1, <2>2 DEF On, Tr, Rows
<1> HIDE DEF t
<1>7. Only(s.sm, t.sm, {"org_recv_conn", "org_recv_idle", "org_send_conn", "org_send_idle"})
  BY <1>5, <1>6 DEF Only
<1> QED
  BY <1>4, <1>5, <1>6, <1>7, <1>8, RestKeeps DEF Does, t, Only, ShutO, ShutC

\* The origin is to be read: the machine reads only from idle.
LEMMA EvOrgRecv ==
    ASSUME NEW s, Mach(s), Up(s.sm)
    PROVE  LET t == ProcessEvent(s, "org_recv") IN
           /\ Does(s, t, {"org_recv", "org_recv_idle"}, {})
           /\ "org_recv_idle" \notin s.sm => Only(s.sm, t.sm, {})
<1>1. \A r \in ConnTable : r.ev = "org_recv" =>
            (r.from = r.to /\ r.from # "org_recv_conn")
                \/ (r.from \in {"org_recv_idle"} /\ r.to \in {"org_recv"})
  BY DEF ConnTable, OrgRecvTable, OrgRecvRows, OrgSendTable,
     ClnRecvTable, ClnSendTable, OrgEndTable, ClnEndTable, Stay, If, IfNot, Do, On, Tr
<1>2. PICK u \in Rows(s, "org_recv") : Guard(s, u.grd) <=> u.val
  <2>1. PICK x \in ORecv : In(s.sm, ORecv, x)
    BY DEF Mach, Sm, One
  <2>2. x \in {"org_recv_idle", "org_recv_paused", "org_recv", "org_recv_eof",
            "org_recv_err"} /\ x \in s.sm
    BY <2>1 DEF In, ORecv, Up, ShutO, ShutC
  <2>3. \E u \in OrgRecvTable : u.ev = "org_recv" /\ u.from = x
                        /\ (Guard(s, u.grd) <=> u.val)
    BY <2>2 DEF OrgRecvTable, OrgRecvRows, If, IfNot, Stay, Do, On, Tr, Guard
  <2> QED
    BY <2>2, <2>3 DEF Rows, ConnTable
<1> DEFINE t == ProcessEvent(s, "org_recv")
<1>3. Ended(s, Rows(s, "org_recv"))
  BY <1>1 DEF Ended, Rows
<1>4. Mach(t) /\ Rest(t) = Rest(s) /\ t.bug = s.bug
  BY <1>2, <1>3, Fired
<1>5. PICK rows \in SUBSET Rows(s, "org_recv") :
        /\ u \in rows
        /\ \A r \in Rows(s, "org_recv") : r.grd = "always" /\ r.val => r \in rows
        /\ \A x : x \in t.sm <=> \/ x \in s.sm /\ \A r \in rows : r.from # x
                           \/ \E r \in rows : r.to = x
  BY <1>2, <1>3, Fired
<1>6. \A r \in rows : r.from \in s.sm /\ ((r.from = r.to /\ r.from # "org_recv_conn")
          \/ (r.from \in {"org_recv_idle"} /\ r.to \in {"org_recv"}))
  BY <1>1, <1>5 DEF Rows
<1> HIDE DEF t
<1>7. Only(s.sm, t.sm, {"org_recv", "org_recv_idle"})
  BY <1>5, <1>6 DEF Only
<1> QED
  BY <1>4, <1>5, <1>6, <1>7, RestKeeps DEF Does, t, Only, ShutO, ShutC

\* The origin has been read.
LEMMA EvOrgRecvData ==
    ASSUME NEW s, Mach(s), "org_recv" \in s.sm, s.ops["org_recv"] = "none"
    PROVE  LET t == ProcessEvent(s, "org_recv_data") IN
           /\ Does(s, t, {"org_recv", "org_recv_idle"}, {})
           /\ "org_recv_idle" \in t.sm /\ "org_recv" \notin t.sm
<1>1. \A r \in ConnTable : r.ev = "org_recv_data" =>
            (r.from \in {"org_recv"} /\ r.to \in {"org_recv_idle"})
  BY DEF ConnTable, OrgRecvTable, OrgRecvRows, OrgSendTable,
     ClnRecvTable, ClnSendTable, OrgEndTable, ClnEndTable, Stay, If, IfNot, Do, On, Tr
<1>2. PICK u \in Rows(s, "org_recv_data") : Guard(s, u.grd) <=> u.val
  <2>1. PICK x \in ORecv : In(s.sm, ORecv, x)
    BY DEF Mach, Sm, One
  <2>2. x \in {"org_recv"} /\ x \in s.sm
    BY <2>1 DEF In, ORecv, Up, ShutO, ShutC
  <2>3. \E u \in OrgRecvTable : u.ev = "org_recv_data" /\ u.from = x
                        /\ (Guard(s, u.grd) <=> u.val)
    BY <2>2 DEF OrgRecvTable, OrgRecvRows, If, IfNot, Stay, Do, On, Tr, Guard
  <2> QED
    BY <2>2, <2>3 DEF Rows, ConnTable
<1> DEFINE t == ProcessEvent(s, "org_recv_data")
<1>3. Ended(s, Rows(s, "org_recv_data"))
  BY <1>1 DEF Ended, Rows
<1>4. Mach(t) /\ Rest(t) = Rest(s) /\ t.bug = s.bug
  BY <1>2, <1>3, Fired
<1>5. PICK rows \in SUBSET Rows(s, "org_recv_data") :
        /\ u \in rows
        /\ \A r \in Rows(s, "org_recv_data") : r.grd = "always" /\ r.val => r \in rows
        /\ \A x : x \in t.sm <=> \/ x \in s.sm /\ \A r \in rows : r.from # x
                           \/ \E r \in rows : r.to = x
  BY <1>2, <1>3, Fired
<1>6. \A r \in rows : r.from \in s.sm
          /\ ((r.from \in {"org_recv"} /\ r.to \in {"org_recv_idle"}))
  BY <1>1, <1>5 DEF Rows
<1> HIDE DEF t
<1>7. Only(s.sm, t.sm, {"org_recv", "org_recv_idle"})
  BY <1>5, <1>6 DEF Only
<1> QED
  BY <1>4, <1>5, <1>6, <1>7, RestKeeps DEF Does, t, Only, ShutO, ShutC

\* The origin has no more bytes.
LEMMA EvOrgRecvEof ==
    ASSUME NEW s, Mach(s), "org_recv" \in s.sm \/ "org_recv_idle" \in s.sm,
        s.ops["org_recv"] = "none"
    PROVE  LET t == ProcessEvent(s, "org_recv_eof") IN
           /\ Does(s, t, {"org_recv", "org_recv_eof", "org_recv_idle"}, {})
           /\ "org_recv_eof" \in t.sm
<1>1. \A r \in ConnTable : r.ev = "org_recv_eof" =>
            (r.from \in {"org_recv", "org_recv_idle"} /\ r.to \in {"org_recv_eof"})
  BY DEF ConnTable, OrgRecvTable, OrgRecvRows, OrgSendTable,
     ClnRecvTable, ClnSendTable, OrgEndTable, ClnEndTable, Stay, If, IfNot, Do, On, Tr
<1>2. PICK u \in Rows(s, "org_recv_eof") : Guard(s, u.grd) <=> u.val
  <2>1. PICK x \in ORecv : In(s.sm, ORecv, x)
    BY DEF Mach, Sm, One
  <2>2. x \in {"org_recv", "org_recv_idle"} /\ x \in s.sm
    BY <2>1 DEF In, ORecv, Up, ShutO, ShutC
  <2>3. \E u \in OrgRecvTable : u.ev = "org_recv_eof" /\ u.from = x
                        /\ (Guard(s, u.grd) <=> u.val)
    BY <2>2 DEF OrgRecvTable, OrgRecvRows, If, IfNot, Stay, Do, On, Tr, Guard
  <2> QED
    BY <2>2, <2>3 DEF Rows, ConnTable
<1> DEFINE t == ProcessEvent(s, "org_recv_eof")
<1>3. Ended(s, Rows(s, "org_recv_eof"))
  BY <1>1 DEF Ended, Rows
<1>4. Mach(t) /\ Rest(t) = Rest(s) /\ t.bug = s.bug
  BY <1>2, <1>3, Fired
<1>5. PICK rows \in SUBSET Rows(s, "org_recv_eof") :
        /\ u \in rows
        /\ \A r \in Rows(s, "org_recv_eof") : r.grd = "always" /\ r.val => r \in rows
        /\ \A x : x \in t.sm <=> \/ x \in s.sm /\ \A r \in rows : r.from # x
                           \/ \E r \in rows : r.to = x
  BY <1>2, <1>3, Fired
<1>6. \A r \in rows : r.from \in s.sm
          /\ ((r.from \in {"org_recv", "org_recv_idle"} /\ r.to \in {"org_recv_eof"}))
  BY <1>1, <1>5 DEF Rows
<1> HIDE DEF t
<1>7. Only(s.sm, t.sm, {"org_recv", "org_recv_eof", "org_recv_idle"})
  BY <1>5, <1>6 DEF Only
<1> QED
  BY <1>4, <1>5, <1>6, <1>7, RestKeeps DEF Does, t, Only, ShutO, ShutC

\* Reading the origin failed.
LEMMA EvOrgRecvErr ==
    ASSUME NEW s, Mach(s), "org_recv" \in s.sm, s.ops["org_recv"] = "none"
    PROVE  LET t == ProcessEvent(s, "org_recv_err") IN
           /\ Does(s, t, {"org_recv", "org_recv_err"}, {})
           /\ "org_recv_err" \in t.sm
<1>1. \A r \in ConnTable : r.ev = "org_recv_err" =>
            (r.from \in {"org_recv"} /\ r.to \in {"org_recv_err"})
  BY DEF ConnTable, OrgRecvTable, OrgRecvRows, OrgSendTable,
     ClnRecvTable, ClnSendTable, OrgEndTable, ClnEndTable, Stay, If, IfNot, Do, On, Tr
<1>2. PICK u \in Rows(s, "org_recv_err") : Guard(s, u.grd) <=> u.val
  <2>1. PICK x \in ORecv : In(s.sm, ORecv, x)
    BY DEF Mach, Sm, One
  <2>2. x \in {"org_recv"} /\ x \in s.sm
    BY <2>1 DEF In, ORecv, Up, ShutO, ShutC
  <2>3. \E u \in OrgRecvTable : u.ev = "org_recv_err" /\ u.from = x
                        /\ (Guard(s, u.grd) <=> u.val)
    BY <2>2 DEF OrgRecvTable, OrgRecvRows, If, IfNot, Stay, Do, On, Tr, Guard
  <2> QED
    BY <2>2, <2>3 DEF Rows, ConnTable
<1> DEFINE t == ProcessEvent(s, "org_recv_err")
<1>3. Ended(s, Rows(s, "org_recv_err"))
  BY <1>1 DEF Ended, Rows
<1>4. Mach(t) /\ Rest(t) = Rest(s) /\ t.bug = s.bug
  BY <1>2, <1>3, Fired
<1>5. PICK rows \in SUBSET Rows(s, "org_recv_err") :
        /\ u \in rows
        /\ \A r \in Rows(s, "org_recv_err") : r.grd = "always" /\ r.val => r \in rows
        /\ \A x : x \in t.sm <=> \/ x \in s.sm /\ \A r \in rows : r.from # x
                           \/ \E r \in rows : r.to = x
  BY <1>2, <1>3, Fired
<1>6. \A r \in rows : r.from \in s.sm
          /\ ((r.from \in {"org_recv"} /\ r.to \in {"org_recv_err"}))
  BY <1>1, <1>5 DEF Rows
<1> HIDE DEF t
<1>7. Only(s.sm, t.sm, {"org_recv", "org_recv_err"})
  BY <1>5, <1>6 DEF Only
<1> QED
  BY <1>4, <1>5, <1>6, <1>7, RestKeeps DEF Does, t, Only, ShutO, ShutC

\* Reading the origin is paused.
LEMMA EvOrgRecvPause ==
    ASSUME NEW s, Mach(s), "org_recv_idle" \in s.sm
    PROVE  LET t == ProcessEvent(s, "org_recv_pause") IN
           /\ Does(s, t, {"org_recv_idle", "org_recv_paused"}, {})
           /\ "org_recv_paused" \in t.sm
<1>1. \A r \in ConnTable : r.ev = "org_recv_pause" =>
            (r.from \in {"org_recv_idle"} /\ r.to \in {"org_recv_paused"})
  BY DEF ConnTable, OrgRecvTable, OrgRecvRows, OrgSendTable,
     ClnRecvTable, ClnSendTable, OrgEndTable, ClnEndTable, Stay, If, IfNot, Do, On, Tr
<1>2. PICK u \in Rows(s, "org_recv_pause") : Guard(s, u.grd) <=> u.val
  <2>1. PICK x \in ORecv : In(s.sm, ORecv, x)
    BY DEF Mach, Sm, One
  <2>2. x \in {"org_recv_idle"} /\ x \in s.sm
    BY <2>1 DEF In, ORecv, Up, ShutO, ShutC
  <2>3. \E u \in OrgRecvTable : u.ev = "org_recv_pause" /\ u.from = x
                        /\ (Guard(s, u.grd) <=> u.val)
    BY <2>2 DEF OrgRecvTable, OrgRecvRows, If, IfNot, Stay, Do, On, Tr, Guard
  <2> QED
    BY <2>2, <2>3 DEF Rows, ConnTable
<1> DEFINE t == ProcessEvent(s, "org_recv_pause")
<1>3. Ended(s, Rows(s, "org_recv_pause"))
  BY <1>1 DEF Ended, Rows
<1>4. Mach(t) /\ Rest(t) = Rest(s) /\ t.bug = s.bug
  BY <1>2, <1>3, Fired
<1>5. PICK rows \in SUBSET Rows(s, "org_recv_pause") :
        /\ u \in rows
        /\ \A r \in Rows(s, "org_recv_pause") : r.grd = "always" /\ r.val => r \in rows
        /\ \A x : x \in t.sm <=> \/ x \in s.sm /\ \A r \in rows : r.from # x
                           \/ \E r \in rows : r.to = x
  BY <1>2, <1>3, Fired
<1>6. \A r \in rows : r.from \in s.sm
          /\ ((r.from \in {"org_recv_idle"} /\ r.to \in {"org_recv_paused"}))
  BY <1>1, <1>5 DEF Rows
<1> HIDE DEF t
<1>7. Only(s.sm, t.sm, {"org_recv_idle", "org_recv_paused"})
  BY <1>5, <1>6 DEF Only
<1> QED
  BY <1>4, <1>5, <1>6, <1>7, RestKeeps DEF Does, t, Only, ShutO, ShutC

\* Reading the origin goes on, at once when there is room.
LEMMA EvOrgRecvResume ==
    ASSUME NEW s, Mach(s), "org_recv_paused" \in s.sm
    PROVE  LET t == ProcessEvent(s, "org_recv_resume") IN
           /\ Does(s, t, {"org_recv", "org_recv_idle", "org_recv_paused"}, {})
           /\ "org_recv_paused" \notin t.sm
           /\ "org_recv_idle" \in t.sm \/ "org_recv" \in t.sm
<1>1. \A r \in ConnTable : r.ev = "org_recv_resume" =>
            (r.from \in {"org_recv_paused"} /\ r.to \in {"org_recv_idle", "org_recv"})
  BY DEF ConnTable, OrgRecvTable, OrgRecvRows, OrgSendTable,
     ClnRecvTable, ClnSendTable, OrgEndTable, ClnEndTable, Stay, If, IfNot, Do, On, Tr
<1>2. PICK u \in Rows(s, "org_recv_resume") : Guard(s, u.grd) <=> u.val
  <2>1. PICK x \in ORecv : In(s.sm, ORecv, x)
    BY DEF Mach, Sm, One
  <2>2. x \in {"org_recv_paused"} /\ x \in s.sm
    BY <2>1 DEF In, ORecv, Up, ShutO, ShutC
  <2>3. \E u \in OrgRecvTable : u.ev = "org_recv_resume" /\ u.from = x
                        /\ (Guard(s, u.grd) <=> u.val)
    BY <2>2 DEF OrgRecvTable, OrgRecvRows, If, IfNot, Stay, Do, On, Tr, Guard
  <2> QED
    BY <2>2, <2>3 DEF Rows, ConnTable
<1> DEFINE t == ProcessEvent(s, "org_recv_resume")
<1>3. Ended(s, Rows(s, "org_recv_resume"))
  BY <1>1 DEF Ended, Rows
<1>4. Mach(t) /\ Rest(t) = Rest(s) /\ t.bug = s.bug
  BY <1>2, <1>3, Fired
<1>5. PICK rows \in SUBSET Rows(s, "org_recv_resume") :
        /\ u \in rows
        /\ \A r \in Rows(s, "org_recv_resume") : r.grd = "always" /\ r.val => r \in rows
        /\ \A x : x \in t.sm <=> \/ x \in s.sm /\ \A r \in rows : r.from # x
                           \/ \E r \in rows : r.to = x
  BY <1>2, <1>3, Fired
<1>6. \A r \in rows : r.from \in s.sm
          /\ ((r.from \in {"org_recv_paused"} /\ r.to \in {"org_recv_idle", "org_recv"}))
  BY <1>1, <1>5 DEF Rows
<1> HIDE DEF t
<1>7. Only(s.sm, t.sm, {"org_recv", "org_recv_idle", "org_recv_paused"})
  BY <1>5, <1>6 DEF Only
<1> QED
  BY <1>4, <1>5, <1>6, <1>7, RestKeeps DEF Does, t, Only, ShutO, ShutC

\* The origin is to be sent bytes.
LEMMA EvOrgSend ==
    ASSUME NEW s, Mach(s), "org_send_start" \notin s.sm, "org_send_conn" \notin s.sm
    PROVE  LET t == ProcessEvent(s, "org_send") IN
           /\ Does(s, t, {"org_send", "org_send_idle"}, {})
<1>1. \A r \in ConnTable : r.ev = "org_send" =>
            (r.from = r.to /\ r.from # "org_recv_conn")
                \/ (r.from \in {"org_send_idle"} /\ r.to \in {"org_send"})
  BY DEF ConnTable, OrgRecvTable, OrgRecvRows, OrgSendTable,
     ClnRecvTable, ClnSendTable, OrgEndTable, ClnEndTable, Stay, If, IfNot, Do, On, Tr
<1>2. PICK u \in Rows(s, "org_send") : Guard(s, u.grd) <=> u.val
  <2>1. PICK x \in OSend : In(s.sm, OSend, x)
    BY DEF Mach, Sm, One
  <2>2. x \in {"org_send_idle", "org_send", "org_send_err"} /\ x \in s.sm
    BY <2>1 DEF In, OSend, Up, ShutO, ShutC
  <2>3. \E u \in OrgSendTable : u.ev = "org_send" /\ u.from = x
                        /\ (Guard(s, u.grd) <=> u.val)
    BY <2>2 DEF OrgSendTable, If, IfNot, Stay, Do, On, Tr, Guard
  <2> QED
    BY <2>2, <2>3 DEF Rows, ConnTable
<1> DEFINE t == ProcessEvent(s, "org_send")
<1>3. Ended(s, Rows(s, "org_send"))
  BY <1>1 DEF Ended, Rows
<1>4. Mach(t) /\ Rest(t) = Rest(s) /\ t.bug = s.bug
  BY <1>2, <1>3, Fired
<1>5. PICK rows \in SUBSET Rows(s, "org_send") :
        /\ u \in rows
        /\ \A r \in Rows(s, "org_send") : r.grd = "always" /\ r.val => r \in rows
        /\ \A x : x \in t.sm <=> \/ x \in s.sm /\ \A r \in rows : r.from # x
                           \/ \E r \in rows : r.to = x
  BY <1>2, <1>3, Fired
<1>6. \A r \in rows : r.from \in s.sm /\ ((r.from = r.to /\ r.from # "org_recv_conn")
          \/ (r.from \in {"org_send_idle"} /\ r.to \in {"org_send"}))
  BY <1>1, <1>5 DEF Rows
<1> HIDE DEF t
<1>7. Only(s.sm, t.sm, {"org_send", "org_send_idle"})
  BY <1>5, <1>6 DEF Only
<1> QED
  BY <1>4, <1>5, <1>6, <1>7, RestKeeps DEF Does, t, Only, ShutO, ShutC

\* The origin was sent bytes; what waited for that, a shut or a close, is done.
LEMMA EvOrgSentData ==
    ASSUME NEW s, Mach(s), "org_send" \in s.sm, s.ops["org_send"] = "none"
    PROVE  LET t == ProcessEvent(s, "org_sent_data") IN
           /\ Does(s, t, {"org_closed", "org_pend_close", "org_pend_shut", "org_send",
               "org_send_idle", "org_send_shut"}, {})
           /\ ShutO(t.sm) => ShutO(s.sm)
<1>1. \A r \in ConnTable : r.ev = "org_sent_data" =>
            (r.from \in {"org_send"} /\ r.to \in {"org_send_idle"})
                \/ (r.from \in {"org_pend_shut"} /\ r.to \in {"org_send_shut"})
                    \/ (r.from \in {"org_pend_close"} /\ r.to \in {"org_closed"})
  BY DEF ConnTable, OrgRecvTable, OrgRecvRows, OrgSendTable,
     ClnRecvTable, ClnSendTable, OrgEndTable, ClnEndTable, Stay, If, IfNot, Do, On, Tr
<1>2. PICK u \in Rows(s, "org_sent_data") : Guard(s, u.grd) <=> u.val
  <2>1. PICK x \in OSend : In(s.sm, OSend, x)
    BY DEF Mach, Sm, One
  <2>2. x \in {"org_send"} /\ x \in s.sm
    BY <2>1 DEF In, OSend, Up, ShutO, ShutC
  <2>3. \E u \in OrgSendTable : u.ev = "org_sent_data" /\ u.from = x
                        /\ (Guard(s, u.grd) <=> u.val)
    BY <2>2 DEF OrgSendTable, If, IfNot, Stay, Do, On, Tr, Guard
  <2> QED
    BY <2>2, <2>3 DEF Rows, ConnTable
<1> DEFINE t == ProcessEvent(s, "org_sent_data")
<1>3. Ended(s, Rows(s, "org_sent_data"))
  BY <1>1 DEF Ended, Rows
<1>4. Mach(t) /\ Rest(t) = Rest(s) /\ t.bug = s.bug
  BY <1>2, <1>3, Fired
<1>5. PICK rows \in SUBSET Rows(s, "org_sent_data") :
        /\ u \in rows
        /\ \A r \in Rows(s, "org_sent_data") : r.grd = "always" /\ r.val => r \in rows
        /\ \A x : x \in t.sm <=> \/ x \in s.sm /\ \A r \in rows : r.from # x
                           \/ \E r \in rows : r.to = x
  BY <1>2, <1>3, Fired
<1>6. \A r \in rows : r.from \in s.sm
          /\ ((r.from \in {"org_send"} /\ r.to \in {"org_send_idle"})
              \/ (r.from \in {"org_pend_shut"} /\ r.to \in {"org_send_shut"})
                  \/ (r.from \in {"org_pend_close"} /\ r.to \in {"org_closed"}))
  BY <1>1, <1>5 DEF Rows
<1> HIDE DEF t
<1>7. Only(s.sm, t.sm, {"org_closed", "org_pend_close", "org_pend_shut", "org_send",
          "org_send_idle", "org_send_shut"})
  BY <1>5, <1>6 DEF Only
<1> QED
  BY <1>4, <1>5, <1>6, <1>7, RestKeeps DEF Does, t, Only, ShutO, ShutC

\* Sending to the origin failed.
LEMMA EvOrgSentErr ==
    ASSUME NEW s, Mach(s), "org_send" \in s.sm, s.ops["org_send"] = "none"
    PROVE  LET t == ProcessEvent(s, "org_sent_err") IN
           /\ Does(s, t, {"org_send", "org_send_err"}, {})
<1>1. \A r \in ConnTable : r.ev = "org_sent_err" =>
            (r.from \in {"org_send"} /\ r.to \in {"org_send_err"})
  BY DEF ConnTable, OrgRecvTable, OrgRecvRows, OrgSendTable,
     ClnRecvTable, ClnSendTable, OrgEndTable, ClnEndTable, Stay, If, IfNot, Do, On, Tr
<1>2. PICK u \in Rows(s, "org_sent_err") : Guard(s, u.grd) <=> u.val
  <2>1. PICK x \in OSend : In(s.sm, OSend, x)
    BY DEF Mach, Sm, One
  <2>2. x \in {"org_send"} /\ x \in s.sm
    BY <2>1 DEF In, OSend, Up, ShutO, ShutC
  <2>3. \E u \in OrgSendTable : u.ev = "org_sent_err" /\ u.from = x
                        /\ (Guard(s, u.grd) <=> u.val)
    BY <2>2 DEF OrgSendTable, If, IfNot, Stay, Do, On, Tr, Guard
  <2> QED
    BY <2>2, <2>3 DEF Rows, ConnTable
<1> DEFINE t == ProcessEvent(s, "org_sent_err")
<1>3. Ended(s, Rows(s, "org_sent_err"))
  BY <1>1 DEF Ended, Rows
<1>4. Mach(t) /\ Rest(t) = Rest(s) /\ t.bug = s.bug
  BY <1>2, <1>3, Fired
<1>5. PICK rows \in SUBSET Rows(s, "org_sent_err") :
        /\ u \in rows
        /\ \A r \in Rows(s, "org_sent_err") : r.grd = "always" /\ r.val => r \in rows
        /\ \A x : x \in t.sm <=> \/ x \in s.sm /\ \A r \in rows : r.from # x
                           \/ \E r \in rows : r.to = x
  BY <1>2, <1>3, Fired
<1>6. \A r \in rows : r.from \in s.sm
          /\ ((r.from \in {"org_send"} /\ r.to \in {"org_send_err"}))
  BY <1>1, <1>5 DEF Rows
<1> HIDE DEF t
<1>7. Only(s.sm, t.sm, {"org_send", "org_send_err"})
  BY <1>5, <1>6 DEF Only
<1> QED
  BY <1>4, <1>5, <1>6, <1>7, RestKeeps DEF Does, t, Only, ShutO, ShutC

\* The client is to be read.
LEMMA EvClnRecv ==
    ASSUME NEW s, Mach(s)
    PROVE  LET t == ProcessEvent(s, "cln_recv") IN
           /\ Does(s, t, {"cln_recv", "cln_recv_idle"}, {})
<1>1. \A r \in ConnTable : r.ev = "cln_recv" =>
            (r.from = r.to /\ r.from # "org_recv_conn")
                \/ (r.from \in {"cln_recv_idle"} /\ r.to \in {"cln_recv"})
  BY DEF ConnTable, OrgRecvTable, OrgRecvRows, OrgSendTable,
     ClnRecvTable, ClnSendTable, OrgEndTable, ClnEndTable, Stay, If, IfNot, Do, On, Tr
<1>2. PICK u \in Rows(s, "cln_recv") : Guard(s, u.grd) <=> u.val
  <2>1. PICK x \in CRecv : In(s.sm, CRecv, x)
    BY DEF Mach, Sm, One
  <2>2. x \in {"cln_recv_idle", "cln_recv", "cln_recv_eof", "cln_recv_err"} /\ x \in s.sm
    BY <2>1 DEF In, CRecv, Up, ShutO, ShutC
  <2>3. \E u \in ClnRecvTable : u.ev = "cln_recv" /\ u.from = x
                        /\ (Guard(s, u.grd) <=> u.val)
    BY <2>2 DEF ClnRecvTable, If, IfNot, Stay, Do, On, Tr, Guard
  <2> QED
    BY <2>2, <2>3 DEF Rows, ConnTable
<1> DEFINE t == ProcessEvent(s, "cln_recv")
<1>3. Ended(s, Rows(s, "cln_recv"))
  BY <1>1 DEF Ended, Rows
<1>4. Mach(t) /\ Rest(t) = Rest(s) /\ t.bug = s.bug
  BY <1>2, <1>3, Fired
<1>5. PICK rows \in SUBSET Rows(s, "cln_recv") :
        /\ u \in rows
        /\ \A r \in Rows(s, "cln_recv") : r.grd = "always" /\ r.val => r \in rows
        /\ \A x : x \in t.sm <=> \/ x \in s.sm /\ \A r \in rows : r.from # x
                           \/ \E r \in rows : r.to = x
  BY <1>2, <1>3, Fired
<1>6. \A r \in rows : r.from \in s.sm /\ ((r.from = r.to /\ r.from # "org_recv_conn")
          \/ (r.from \in {"cln_recv_idle"} /\ r.to \in {"cln_recv"}))
  BY <1>1, <1>5 DEF Rows
<1> HIDE DEF t
<1>7. Only(s.sm, t.sm, {"cln_recv", "cln_recv_idle"})
  BY <1>5, <1>6 DEF Only
<1> QED
  BY <1>4, <1>5, <1>6, <1>7, RestKeeps DEF Does, t, Only, ShutO, ShutC

\* The client has been read.
LEMMA EvClnRecvData ==
    ASSUME NEW s, Mach(s), "cln_recv" \in s.sm, s.ops["cln_recv"] = "none"
    PROVE  LET t == ProcessEvent(s, "cln_recv_data") IN
           /\ Does(s, t, {"cln_recv", "cln_recv_idle"}, {})
<1>1. \A r \in ConnTable : r.ev = "cln_recv_data" =>
            (r.from \in {"cln_recv"} /\ r.to \in {"cln_recv_idle"})
  BY DEF ConnTable, OrgRecvTable, OrgRecvRows, OrgSendTable,
     ClnRecvTable, ClnSendTable, OrgEndTable, ClnEndTable, Stay, If, IfNot, Do, On, Tr
<1>2. PICK u \in Rows(s, "cln_recv_data") : Guard(s, u.grd) <=> u.val
  <2>1. PICK x \in CRecv : In(s.sm, CRecv, x)
    BY DEF Mach, Sm, One
  <2>2. x \in {"cln_recv"} /\ x \in s.sm
    BY <2>1 DEF In, CRecv, Up, ShutO, ShutC
  <2>3. \E u \in ClnRecvTable : u.ev = "cln_recv_data" /\ u.from = x
                        /\ (Guard(s, u.grd) <=> u.val)
    BY <2>2 DEF ClnRecvTable, If, IfNot, Stay, Do, On, Tr, Guard
  <2> QED
    BY <2>2, <2>3 DEF Rows, ConnTable
<1> DEFINE t == ProcessEvent(s, "cln_recv_data")
<1>3. Ended(s, Rows(s, "cln_recv_data"))
  BY <1>1 DEF Ended, Rows
<1>4. Mach(t) /\ Rest(t) = Rest(s) /\ t.bug = s.bug
  BY <1>2, <1>3, Fired
<1>5. PICK rows \in SUBSET Rows(s, "cln_recv_data") :
        /\ u \in rows
        /\ \A r \in Rows(s, "cln_recv_data") : r.grd = "always" /\ r.val => r \in rows
        /\ \A x : x \in t.sm <=> \/ x \in s.sm /\ \A r \in rows : r.from # x
                           \/ \E r \in rows : r.to = x
  BY <1>2, <1>3, Fired
<1>6. \A r \in rows : r.from \in s.sm
          /\ ((r.from \in {"cln_recv"} /\ r.to \in {"cln_recv_idle"}))
  BY <1>1, <1>5 DEF Rows
<1> HIDE DEF t
<1>7. Only(s.sm, t.sm, {"cln_recv", "cln_recv_idle"})
  BY <1>5, <1>6 DEF Only
<1> QED
  BY <1>4, <1>5, <1>6, <1>7, RestKeeps DEF Does, t, Only, ShutO, ShutC

\* The client has no more bytes.
LEMMA EvClnRecvEof ==
    ASSUME NEW s, Mach(s), "cln_recv" \in s.sm, s.ops["cln_recv"] = "none"
    PROVE  LET t == ProcessEvent(s, "cln_recv_eof") IN
           /\ Does(s, t, {"cln_recv", "cln_recv_eof"}, {})
           /\ "cln_recv_eof" \in t.sm
<1>1. \A r \in ConnTable : r.ev = "cln_recv_eof" =>
            (r.from \in {"cln_recv"} /\ r.to \in {"cln_recv_eof"})
  BY DEF ConnTable, OrgRecvTable, OrgRecvRows, OrgSendTable,
     ClnRecvTable, ClnSendTable, OrgEndTable, ClnEndTable, Stay, If, IfNot, Do, On, Tr
<1>2. PICK u \in Rows(s, "cln_recv_eof") : Guard(s, u.grd) <=> u.val
  <2>1. PICK x \in CRecv : In(s.sm, CRecv, x)
    BY DEF Mach, Sm, One
  <2>2. x \in {"cln_recv"} /\ x \in s.sm
    BY <2>1 DEF In, CRecv, Up, ShutO, ShutC
  <2>3. \E u \in ClnRecvTable : u.ev = "cln_recv_eof" /\ u.from = x
                        /\ (Guard(s, u.grd) <=> u.val)
    BY <2>2 DEF ClnRecvTable, If, IfNot, Stay, Do, On, Tr, Guard
  <2> QED
    BY <2>2, <2>3 DEF Rows, ConnTable
<1> DEFINE t == ProcessEvent(s, "cln_recv_eof")
<1>3. Ended(s, Rows(s, "cln_recv_eof"))
  BY <1>1 DEF Ended, Rows
<1>4. Mach(t) /\ Rest(t) = Rest(s) /\ t.bug = s.bug
  BY <1>2, <1>3, Fired
<1>5. PICK rows \in SUBSET Rows(s, "cln_recv_eof") :
        /\ u \in rows
        /\ \A r \in Rows(s, "cln_recv_eof") : r.grd = "always" /\ r.val => r \in rows
        /\ \A x : x \in t.sm <=> \/ x \in s.sm /\ \A r \in rows : r.from # x
                           \/ \E r \in rows : r.to = x
  BY <1>2, <1>3, Fired
<1>6. \A r \in rows : r.from \in s.sm
          /\ ((r.from \in {"cln_recv"} /\ r.to \in {"cln_recv_eof"}))
  BY <1>1, <1>5 DEF Rows
<1> HIDE DEF t
<1>7. Only(s.sm, t.sm, {"cln_recv", "cln_recv_eof"})
  BY <1>5, <1>6 DEF Only
<1> QED
  BY <1>4, <1>5, <1>6, <1>7, RestKeeps DEF Does, t, Only, ShutO, ShutC

\* Reading the client failed.
LEMMA EvClnRecvErr ==
    ASSUME NEW s, Mach(s), "cln_recv" \in s.sm, s.ops["cln_recv"] = "none"
    PROVE  LET t == ProcessEvent(s, "cln_recv_err") IN
           /\ Does(s, t, {"cln_recv", "cln_recv_err"}, {})
<1>1. \A r \in ConnTable : r.ev = "cln_recv_err" =>
            (r.from \in {"cln_recv"} /\ r.to \in {"cln_recv_err"})
  BY DEF ConnTable, OrgRecvTable, OrgRecvRows, OrgSendTable,
     ClnRecvTable, ClnSendTable, OrgEndTable, ClnEndTable, Stay, If, IfNot, Do, On, Tr
<1>2. PICK u \in Rows(s, "cln_recv_err") : Guard(s, u.grd) <=> u.val
  <2>1. PICK x \in CRecv : In(s.sm, CRecv, x)
    BY DEF Mach, Sm, One
  <2>2. x \in {"cln_recv"} /\ x \in s.sm
    BY <2>1 DEF In, CRecv, Up, ShutO, ShutC
  <2>3. \E u \in ClnRecvTable : u.ev = "cln_recv_err" /\ u.from = x
                        /\ (Guard(s, u.grd) <=> u.val)
    BY <2>2 DEF ClnRecvTable, If, IfNot, Stay, Do, On, Tr, Guard
  <2> QED
    BY <2>2, <2>3 DEF Rows, ConnTable
<1> DEFINE t == ProcessEvent(s, "cln_recv_err")
<1>3. Ended(s, Rows(s, "cln_recv_err"))
  BY <1>1 DEF Ended, Rows
<1>4. Mach(t) /\ Rest(t) = Rest(s) /\ t.bug = s.bug
  BY <1>2, <1>3, Fired
<1>5. PICK rows \in SUBSET Rows(s, "cln_recv_err") :
        /\ u \in rows
        /\ \A r \in Rows(s, "cln_recv_err") : r.grd = "always" /\ r.val => r \in rows
        /\ \A x : x \in t.sm <=> \/ x \in s.sm /\ \A r \in rows : r.from # x
                           \/ \E r \in rows : r.to = x
  BY <1>2, <1>3, Fired
<1>6. \A r \in rows : r.from \in s.sm
          /\ ((r.from \in {"cln_recv"} /\ r.to \in {"cln_recv_err"}))
  BY <1>1, <1>5 DEF Rows
<1> HIDE DEF t
<1>7. Only(s.sm, t.sm, {"cln_recv", "cln_recv_err"})
  BY <1>5, <1>6 DEF Only
<1> QED
  BY <1>4, <1>5, <1>6, <1>7, RestKeeps DEF Does, t, Only, ShutO, ShutC

\* The client is to be sent bytes.
LEMMA EvClnSend ==
    ASSUME NEW s, Mach(s)
    PROVE  LET t == ProcessEvent(s, "cln_send") IN
           /\ Does(s, t, {"cln_send", "cln_send_idle"}, {})
<1>1. \A r \in ConnTable : r.ev = "cln_send" =>
            (r.from = r.to /\ r.from # "org_recv_conn")
                \/ (r.from \in {"cln_send_idle"} /\ r.to \in {"cln_send"})
  BY DEF ConnTable, OrgRecvTable, OrgRecvRows, OrgSendTable,
     ClnRecvTable, ClnSendTable, OrgEndTable, ClnEndTable, Stay, If, IfNot, Do, On, Tr
<1>2. PICK u \in Rows(s, "cln_send") : Guard(s, u.grd) <=> u.val
  <2>1. PICK x \in CSend : In(s.sm, CSend, x)
    BY DEF Mach, Sm, One
  <2>2. x \in {"cln_send_idle", "cln_send", "cln_send_err"} /\ x \in s.sm
    BY <2>1 DEF In, CSend, Up, ShutO, ShutC
  <2>3. \E u \in ClnSendTable : u.ev = "cln_send" /\ u.from = x
                        /\ (Guard(s, u.grd) <=> u.val)
    BY <2>2 DEF ClnSendTable, If, IfNot, Stay, Do, On, Tr, Guard
  <2> QED
    BY <2>2, <2>3 DEF Rows, ConnTable
<1> DEFINE t == ProcessEvent(s, "cln_send")
<1>3. Ended(s, Rows(s, "cln_send"))
  BY <1>1 DEF Ended, Rows
<1>4. Mach(t) /\ Rest(t) = Rest(s) /\ t.bug = s.bug
  BY <1>2, <1>3, Fired
<1>5. PICK rows \in SUBSET Rows(s, "cln_send") :
        /\ u \in rows
        /\ \A r \in Rows(s, "cln_send") : r.grd = "always" /\ r.val => r \in rows
        /\ \A x : x \in t.sm <=> \/ x \in s.sm /\ \A r \in rows : r.from # x
                           \/ \E r \in rows : r.to = x
  BY <1>2, <1>3, Fired
<1>6. \A r \in rows : r.from \in s.sm /\ ((r.from = r.to /\ r.from # "org_recv_conn")
          \/ (r.from \in {"cln_send_idle"} /\ r.to \in {"cln_send"}))
  BY <1>1, <1>5 DEF Rows
<1> HIDE DEF t
<1>7. Only(s.sm, t.sm, {"cln_send", "cln_send_idle"})
  BY <1>5, <1>6 DEF Only
<1> QED
  BY <1>4, <1>5, <1>6, <1>7, RestKeeps DEF Does, t, Only, ShutO, ShutC

\* The client was sent bytes; what waited for that, a shut or a close, is done.
LEMMA EvClnSentData ==
    ASSUME NEW s, Mach(s), "cln_send" \in s.sm, s.ops["cln_send"] = "none"
    PROVE  LET t == ProcessEvent(s, "cln_sent_data") IN
           /\ Does(s, t, {"cln_closed", "cln_pend_close", "cln_pend_shut", "cln_send",
               "cln_send_idle", "cln_send_shut"}, {})
           /\ ShutC(t.sm) => ShutC(s.sm)
<1>1. \A r \in ConnTable : r.ev = "cln_sent_data" =>
            (r.from \in {"cln_send"} /\ r.to \in {"cln_send_idle"})
                \/ (r.from \in {"cln_pend_shut"} /\ r.to \in {"cln_send_shut"})
                    \/ (r.from \in {"cln_pend_close"} /\ r.to \in {"cln_closed"})
  BY DEF ConnTable, OrgRecvTable, OrgRecvRows, OrgSendTable,
     ClnRecvTable, ClnSendTable, OrgEndTable, ClnEndTable, Stay, If, IfNot, Do, On, Tr
<1>2. PICK u \in Rows(s, "cln_sent_data") : Guard(s, u.grd) <=> u.val
  <2>1. PICK x \in CSend : In(s.sm, CSend, x)
    BY DEF Mach, Sm, One
  <2>2. x \in {"cln_send"} /\ x \in s.sm
    BY <2>1 DEF In, CSend, Up, ShutO, ShutC
  <2>3. \E u \in ClnSendTable : u.ev = "cln_sent_data" /\ u.from = x
                        /\ (Guard(s, u.grd) <=> u.val)
    BY <2>2 DEF ClnSendTable, If, IfNot, Stay, Do, On, Tr, Guard
  <2> QED
    BY <2>2, <2>3 DEF Rows, ConnTable
<1> DEFINE t == ProcessEvent(s, "cln_sent_data")
<1>3. Ended(s, Rows(s, "cln_sent_data"))
  BY <1>1 DEF Ended, Rows
<1>4. Mach(t) /\ Rest(t) = Rest(s) /\ t.bug = s.bug
  BY <1>2, <1>3, Fired
<1>5. PICK rows \in SUBSET Rows(s, "cln_sent_data") :
        /\ u \in rows
        /\ \A r \in Rows(s, "cln_sent_data") : r.grd = "always" /\ r.val => r \in rows
        /\ \A x : x \in t.sm <=> \/ x \in s.sm /\ \A r \in rows : r.from # x
                           \/ \E r \in rows : r.to = x
  BY <1>2, <1>3, Fired
<1>6. \A r \in rows : r.from \in s.sm
          /\ ((r.from \in {"cln_send"} /\ r.to \in {"cln_send_idle"})
              \/ (r.from \in {"cln_pend_shut"} /\ r.to \in {"cln_send_shut"})
                  \/ (r.from \in {"cln_pend_close"} /\ r.to \in {"cln_closed"}))
  BY <1>1, <1>5 DEF Rows
<1> HIDE DEF t
<1>7. Only(s.sm, t.sm, {"cln_closed", "cln_pend_close", "cln_pend_shut", "cln_send",
          "cln_send_idle", "cln_send_shut"})
  BY <1>5, <1>6 DEF Only
<1> QED
  BY <1>4, <1>5, <1>6, <1>7, RestKeeps DEF Does, t, Only, ShutO, ShutC

\* Sending to the client failed.
LEMMA EvClnSentErr ==
    ASSUME NEW s, Mach(s), "cln_send" \in s.sm, s.ops["cln_send"] = "none"
    PROVE  LET t == ProcessEvent(s, "cln_sent_err") IN
           /\ Does(s, t, {"cln_send", "cln_send_err"}, {})
<1>1. \A r \in ConnTable : r.ev = "cln_sent_err" =>
            (r.from \in {"cln_send"} /\ r.to \in {"cln_send_err"})
  BY DEF ConnTable, OrgRecvTable, OrgRecvRows, OrgSendTable,
     ClnRecvTable, ClnSendTable, OrgEndTable, ClnEndTable, Stay, If, IfNot, Do, On, Tr
<1>2. PICK u \in Rows(s, "cln_sent_err") : Guard(s, u.grd) <=> u.val
  <2>1. PICK x \in CSend : In(s.sm, CSend, x)
    BY DEF Mach, Sm, One
  <2>2. x \in {"cln_send"} /\ x \in s.sm
    BY <2>1 DEF In, CSend, Up, ShutO, ShutC
  <2>3. \E u \in ClnSendTable : u.ev = "cln_sent_err" /\ u.from = x
                        /\ (Guard(s, u.grd) <=> u.val)
    BY <2>2 DEF ClnSendTable, If, IfNot, Stay, Do, On, Tr, Guard
  <2> QED
    BY <2>2, <2>3 DEF Rows, ConnTable
<1> DEFINE t == ProcessEvent(s, "cln_sent_err")
<1>3. Ended(s, Rows(s, "cln_sent_err"))
  BY <1>1 DEF Ended, Rows
<1>4. Mach(t) /\ Rest(t) = Rest(s) /\ t.bug = s.bug
  BY <1>2, <1>3, Fired
<1>5. PICK rows \in SUBSET Rows(s, "cln_sent_err") :
        /\ u \in rows
        /\ \A r \in Rows(s, "cln_sent_err") : r.grd = "always" /\ r.val => r \in rows
        /\ \A x : x \in t.sm <=> \/ x \in s.sm /\ \A r \in rows : r.from # x
                           \/ \E r \in rows : r.to = x
  BY <1>2, <1>3, Fired
<1>6. \A r \in rows : r.from \in s.sm
          /\ ((r.from \in {"cln_send"} /\ r.to \in {"cln_send_err"}))
  BY <1>1, <1>5 DEF Rows
<1> HIDE DEF t
<1>7. Only(s.sm, t.sm, {"cln_send", "cln_send_err"})
  BY <1>5, <1>6 DEF Only
<1> QED
  BY <1>4, <1>5, <1>6, <1>7, RestKeeps DEF Does, t, Only, ShutO, ShutC

\* The sending to the origin is shut, now or after what is being sent.
LEMMA EvOrgSendShut ==
    ASSUME NEW s, Mach(s), ~ShutO(s.sm)
    PROVE  LET t == ProcessEvent(s, "org_send_shut") IN
           /\ Does(s, t, {"org_pend_shut", "org_send_shut", "org_wait_end"}, {})
<1>1. \A r \in ConnTable : r.ev = "org_send_shut" =>
            (r.from = r.to /\ r.from # "org_recv_conn")
                \/ (r.from \in {"org_wait_end"} /\ r.to \in {"org_pend_shut", "org_send_shut"})
  BY DEF ConnTable, OrgRecvTable, OrgRecvRows, OrgSendTable,
     ClnRecvTable, ClnSendTable, OrgEndTable, ClnEndTable, Stay, If, IfNot, Do, On, Tr
<1>2. PICK u \in Rows(s, "org_send_shut") : Guard(s, u.grd) <=> u.val
  <2>1. PICK x \in OEnd : In(s.sm, OEnd, x)
    BY DEF Mach, Sm, One
  <2>2. x \in {"org_wait_end", "org_pend_close", "org_closed"} /\ x \in s.sm
    BY <2>1 DEF In, OEnd, Up, ShutO, ShutC
  <2>3. \E u \in OrgEndTable : u.ev = "org_send_shut" /\ u.from = x
                        /\ (Guard(s, u.grd) <=> u.val)
    BY <2>2 DEF OrgEndTable, If, IfNot, Stay, Do, On, Tr, Guard
  <2> QED
    BY <2>2, <2>3 DEF Rows, ConnTable
<1> DEFINE t == ProcessEvent(s, "org_send_shut")
<1>3. Ended(s, Rows(s, "org_send_shut"))
  BY <1>1 DEF Ended, Rows
<1>4. Mach(t) /\ Rest(t) = Rest(s) /\ t.bug = s.bug
  BY <1>2, <1>3, Fired
<1>5. PICK rows \in SUBSET Rows(s, "org_send_shut") :
        /\ u \in rows
        /\ \A r \in Rows(s, "org_send_shut") : r.grd = "always" /\ r.val => r \in rows
        /\ \A x : x \in t.sm <=> \/ x \in s.sm /\ \A r \in rows : r.from # x
                           \/ \E r \in rows : r.to = x
  BY <1>2, <1>3, Fired
<1>6. \A r \in rows : r.from \in s.sm /\ ((r.from = r.to /\ r.from # "org_recv_conn")
          \/ (r.from \in {"org_wait_end"} /\ r.to \in {"org_pend_shut", "org_send_shut"}))
  BY <1>1, <1>5 DEF Rows
<1> HIDE DEF t
<1>7. Only(s.sm, t.sm, {"org_pend_shut", "org_send_shut", "org_wait_end"})
  BY <1>5, <1>6 DEF Only
<1> QED
  BY <1>4, <1>5, <1>6, <1>7, RestKeeps DEF Does, t, Only, ShutO, ShutC

\* The origin is closed, now or after what is being sent.
LEMMA EvOrgClose ==
    ASSUME NEW s, Mach(s)
    PROVE  LET t == ProcessEvent(s, "org_close") IN
           /\ Does(s, t, {"org_closed", "org_pend_close", "org_pend_shut", "org_send_shut",
               "org_wait_end"}, {})
           /\ ShutO(t.sm) => ShutO(s.sm)
<1>1. \A r \in ConnTable : r.ev = "org_close" =>
            (r.from = r.to /\ r.from # "org_recv_conn")
                \/ (r.from \in {"org_wait_end", "org_pend_shut",
                    "org_send_shut"} /\ r.to \in {"org_pend_close", "org_closed"})
  BY DEF ConnTable, OrgRecvTable, OrgRecvRows, OrgSendTable,
     ClnRecvTable, ClnSendTable, OrgEndTable, ClnEndTable, Stay, If, IfNot, Do, On, Tr
<1>2. PICK u \in Rows(s, "org_close") : Guard(s, u.grd) <=> u.val
  <2>1. PICK x \in OEnd : In(s.sm, OEnd, x)
    BY DEF Mach, Sm, One
  <2>2. x \in {"org_wait_end", "org_pend_shut", "org_send_shut", "org_pend_close",
            "org_closed"} /\ x \in s.sm
    BY <2>1 DEF In, OEnd, Up, ShutO, ShutC
  <2>3. \E u \in OrgEndTable : u.ev = "org_close" /\ u.from = x
                        /\ (Guard(s, u.grd) <=> u.val)
    BY <2>2 DEF OrgEndTable, If, IfNot, Stay, Do, On, Tr, Guard
  <2> QED
    BY <2>2, <2>3 DEF Rows, ConnTable
<1> DEFINE t == ProcessEvent(s, "org_close")
<1>3. Ended(s, Rows(s, "org_close"))
  BY <1>1 DEF Ended, Rows
<1>4. Mach(t) /\ Rest(t) = Rest(s) /\ t.bug = s.bug
  BY <1>2, <1>3, Fired
<1>5. PICK rows \in SUBSET Rows(s, "org_close") :
        /\ u \in rows
        /\ \A r \in Rows(s, "org_close") : r.grd = "always" /\ r.val => r \in rows
        /\ \A x : x \in t.sm <=> \/ x \in s.sm /\ \A r \in rows : r.from # x
                           \/ \E r \in rows : r.to = x
  BY <1>2, <1>3, Fired
<1>6. \A r \in rows : r.from \in s.sm /\ ((r.from = r.to /\ r.from # "org_recv_conn")
          \/ (r.from \in {"org_wait_end", "org_pend_shut",
              "org_send_shut"} /\ r.to \in {"org_pend_close", "org_closed"}))
  BY <1>1, <1>5 DEF Rows
<1> HIDE DEF t
<1>7. Only(s.sm, t.sm, {"org_closed", "org_pend_close", "org_pend_shut", "org_send_shut",
          "org_wait_end"})
  BY <1>5, <1>6 DEF Only
<1> QED
  BY <1>4, <1>5, <1>6, <1>7, RestKeeps DEF Does, t, Only, ShutO, ShutC

\* The sending to the client is shut, now or after what is being sent.
LEMMA EvClnSendShut ==
    ASSUME NEW s, Mach(s), ~ShutC(s.sm)
    PROVE  LET t == ProcessEvent(s, "cln_send_shut") IN
           /\ Does(s, t, {"cln_pend_shut", "cln_send_shut", "cln_wait_end"}, {})
<1>1. \A r \in ConnTable : r.ev = "cln_send_shut" =>
            (r.from = r.to /\ r.from # "org_recv_conn")
                \/ (r.from \in {"cln_wait_end"} /\ r.to \in {"cln_pend_shut", "cln_send_shut"})
  BY DEF ConnTable, OrgRecvTable, OrgRecvRows, OrgSendTable,
     ClnRecvTable, ClnSendTable, OrgEndTable, ClnEndTable, Stay, If, IfNot, Do, On, Tr
<1>2. PICK u \in Rows(s, "cln_send_shut") : Guard(s, u.grd) <=> u.val
  <2>1. PICK x \in CEnd : In(s.sm, CEnd, x)
    BY DEF Mach, Sm, One
  <2>2. x \in {"cln_wait_end", "cln_pend_close", "cln_closed"} /\ x \in s.sm
    BY <2>1 DEF In, CEnd, Up, ShutO, ShutC
  <2>3. \E u \in ClnEndTable : u.ev = "cln_send_shut" /\ u.from = x
                        /\ (Guard(s, u.grd) <=> u.val)
    BY <2>2 DEF ClnEndTable, If, IfNot, Stay, Do, On, Tr, Guard
  <2> QED
    BY <2>2, <2>3 DEF Rows, ConnTable
<1> DEFINE t == ProcessEvent(s, "cln_send_shut")
<1>3. Ended(s, Rows(s, "cln_send_shut"))
  BY <1>1 DEF Ended, Rows
<1>4. Mach(t) /\ Rest(t) = Rest(s) /\ t.bug = s.bug
  BY <1>2, <1>3, Fired
<1>5. PICK rows \in SUBSET Rows(s, "cln_send_shut") :
        /\ u \in rows
        /\ \A r \in Rows(s, "cln_send_shut") : r.grd = "always" /\ r.val => r \in rows
        /\ \A x : x \in t.sm <=> \/ x \in s.sm /\ \A r \in rows : r.from # x
                           \/ \E r \in rows : r.to = x
  BY <1>2, <1>3, Fired
<1>6. \A r \in rows : r.from \in s.sm /\ ((r.from = r.to /\ r.from # "org_recv_conn")
          \/ (r.from \in {"cln_wait_end"} /\ r.to \in {"cln_pend_shut", "cln_send_shut"}))
  BY <1>1, <1>5 DEF Rows
<1> HIDE DEF t
<1>7. Only(s.sm, t.sm, {"cln_pend_shut", "cln_send_shut", "cln_wait_end"})
  BY <1>5, <1>6 DEF Only
<1> QED
  BY <1>4, <1>5, <1>6, <1>7, RestKeeps DEF Does, t, Only, ShutO, ShutC

\* The client is closed, now or after what is being sent.
LEMMA EvClnClose ==
    ASSUME NEW s, Mach(s)
    PROVE  LET t == ProcessEvent(s, "cln_close") IN
           /\ Does(s, t, {"cln_closed", "cln_pend_close", "cln_pend_shut", "cln_send_shut",
               "cln_wait_end"}, {})
           /\ ShutC(t.sm) => ShutC(s.sm)
<1>1. \A r \in ConnTable : r.ev = "cln_close" =>
            (r.from = r.to /\ r.from # "org_recv_conn")
                \/ (r.from \in {"cln_wait_end", "cln_pend_shut",
                    "cln_send_shut"} /\ r.to \in {"cln_pend_close", "cln_closed"})
  BY DEF ConnTable, OrgRecvTable, OrgRecvRows, OrgSendTable,
     ClnRecvTable, ClnSendTable, OrgEndTable, ClnEndTable, Stay, If, IfNot, Do, On, Tr
<1>2. PICK u \in Rows(s, "cln_close") : Guard(s, u.grd) <=> u.val
  <2>1. PICK x \in CEnd : In(s.sm, CEnd, x)
    BY DEF Mach, Sm, One
  <2>2. x \in {"cln_wait_end", "cln_pend_shut", "cln_send_shut", "cln_pend_close",
            "cln_closed"} /\ x \in s.sm
    BY <2>1 DEF In, CEnd, Up, ShutO, ShutC
  <2>3. \E u \in ClnEndTable : u.ev = "cln_close" /\ u.from = x
                        /\ (Guard(s, u.grd) <=> u.val)
    BY <2>2 DEF ClnEndTable, If, IfNot, Stay, Do, On, Tr, Guard
  <2> QED
    BY <2>2, <2>3 DEF Rows, ConnTable
<1> DEFINE t == ProcessEvent(s, "cln_close")
<1>3. Ended(s, Rows(s, "cln_close"))
  BY <1>1 DEF Ended, Rows
<1>4. Mach(t) /\ Rest(t) = Rest(s) /\ t.bug = s.bug
  BY <1>2, <1>3, Fired
<1>5. PICK rows \in SUBSET Rows(s, "cln_close") :
        /\ u \in rows
        /\ \A r \in Rows(s, "cln_close") : r.grd = "always" /\ r.val => r \in rows
        /\ \A x : x \in t.sm <=> \/ x \in s.sm /\ \A r \in rows : r.from # x
                           \/ \E r \in rows : r.to = x
  BY <1>2, <1>3, Fired
<1>6. \A r \in rows : r.from \in s.sm /\ ((r.from = r.to /\ r.from # "org_recv_conn")
          \/ (r.from \in {"cln_wait_end", "cln_pend_shut",
              "cln_send_shut"} /\ r.to \in {"cln_pend_close", "cln_closed"}))
  BY <1>1, <1>5 DEF Rows
<1> HIDE DEF t
<1>7. Only(s.sm, t.sm, {"cln_closed", "cln_pend_close", "cln_pend_shut", "cln_send_shut",
          "cln_wait_end"})
  BY <1>5, <1>6 DEF Only
<1> QED
  BY <1>4, <1>5, <1>6, <1>7, RestKeeps DEF Does, t, Only, ShutO, ShutC

-----------------------------------------------------------------------------
(* The small methods of proxy_conn and http_handler.                       *)

\* The fields that are counted.
CountF == {"client_recv", "origin_recv", "org_cache_rdr", "client_rbuf_rdr",
           "origin_rbuf_rdr", "client_pending", "origin_pending"}

\* A change of the fields F beside the machine, with sound counts.
LEMMA Counted ==
    ASSUME NEW s, Mach(s), NEW t, NEW F, t \in Conns, t.sm = s.sm, t.ops = s.ops,
           Given(t) = Given(s), t.bug = s.bug, Keep(s, t, F), Counts(t),
           s.client_pending <= t.client_pending, s.origin_pending <= t.origin_pending
    PROVE  Does(s, t, {}, F)
<1>1. t.org_room = s.org_room /\ t.cln_sending = s.cln_sending
      /\ t.org_sending = s.org_sending
  BY DEF Given
<1>2. /\ s.client_pending \in Int /\ s.origin_pending \in Int
      /\ t.client_pending \in Int /\ t.origin_pending \in Int
      /\ s.cln_sending \in Int /\ s.org_sending \in Int
  BY DEF Mach, Conns
<1>3. OpsOk(t)
  BY <1>1, <1>2 DEF Mach, OpsOk
<1> QED
  BY <1>3 DEF Does, Mach, Only

\* A change of the fields F beside the machine and the counts.
LEMMA Updated ==
    ASSUME NEW s, Mach(s), NEW t, NEW F, t \in Conns, t.sm = s.sm, t.ops = s.ops,
           Given(t) = Given(s), t.bug = s.bug, Keep(s, t, F), F \cap CountF = {}
    PROVE  Does(s, t, {}, F)
<1>1. /\ t.client_rbuf_rdr = s.client_rbuf_rdr /\ t.origin_rbuf_rdr = s.origin_rbuf_rdr
      /\ t.client_pending = s.client_pending /\ t.origin_pending = s.origin_pending
      /\ t.client_recv = s.client_recv /\ t.origin_recv = s.origin_recv
      /\ t.org_cache_rdr = s.org_cache_rdr
  BY DEF Keep, Fields, CountF
<1>2. Counts(t)
  BY <1>1 DEF Mach, Counts
<1>3. s.client_pending \in Int /\ s.origin_pending \in Int
  BY DEF Mach, Conns
<1> QED
  BY <1>1, <1>2, <1>3, Counted

\* A change of the flags.
LEMMA SetFlags ==
    ASSUME NEW s, Mach(s), NEW v \in SUBSET Flags
    PROVE  LET t == [s EXCEPT !.flags = v] IN
           Does(s, t, {}, {"flags"}) /\ t.flags = v
<1> DEFINE t == [s EXCEPT !.flags = v]
<1>1. s \in Conns
  BY DEF Mach
<1>2. t \in Conns /\ t.flags = v
  BY <1>1 DEF Conns
<1>3. t.sm = s.sm /\ t.ops = s.ops /\ Given(t) = Given(s) /\ t.bug = s.bug
  BY <1>1 DEF Conns, Given
<1>4. Keep(s, t, {"flags"})
  BY <1>1 DEF Conns, Keep, Fields
<1> QED
  BY <1>2, <1>3, <1>4, Updated DEF CountF

\* A flag is set or cleared.
LEMMA SetEffect ==
    ASSUME NEW s, Mach(s), NEW f \in Flags
    PROVE  /\ Does(s, Set(s, f), {}, {"flags"}) /\ Set(s, f).flags = s.flags \cup {f}
           /\ Does(s, Clear(s, f), {}, {"flags"})
           /\ Clear(s, f).flags = s.flags \ {f}
<1>1. s.flags \in SUBSET Flags
  BY DEF Mach, Conns
<1>2. s.flags \cup {f} \in SUBSET Flags /\ s.flags \ {f} \in SUBSET Flags
  BY <1>1
<1> QED
  BY <1>2, SetFlags DEF Set, Clear

\* Nothing is done.
LEMMA SameDoes ==
    ASSUME NEW s, Mach(s)
    PROVE  Does(s, s, {}, {})
  BY DEF Does, Only, Keep

\* send_to_client.
LEMMA SendToClientDoes ==
    ASSUME NEW s, Mach(s), NEW n \in Nat, s.client_pending + n <= OrgAvail(s)
    PROVE  LET t == SendToClient(s, n) IN
           /\ Does(s, t, {"cln_send_idle", "cln_send"}, {"client_pending"})
           /\ t.client_pending = s.client_pending + n
<1> DEFINE m == s.client_pending + n
           d == [s EXCEPT !.client_pending = m]
           t == ProcessEvent(d, "cln_send")
<1>1. s \in Conns
  BY DEF Mach
<1>2. /\ s.client_pending \in Int /\ s.origin_pending \in Int
      /\ s.client_rbuf_rdr \in Int /\ s.origin_rbuf_rdr \in Int
      /\ s.client_recv \in Int /\ Len(s.origin_recv) \in Int
  BY <1>1 DEF Conns
<1>3. m \in Int /\ s.client_pending <= m /\ m <= OrgAvail(s)
  BY <1>2
<1>4. SendToClient(s, n) = t
  BY DEF SendToClient, Check
<1> HIDE DEF m
<1>5. d \in Conns
  BY <1>1, <1>3 DEF Conns
<1>6. d.sm = s.sm /\ d.ops = s.ops /\ Given(d) = Given(s) /\ d.bug = s.bug
      /\ d.client_pending = m
  BY <1>1 DEF Conns, Given
<1>7. Keep(s, d, {"client_pending"})
  BY <1>1 DEF Conns, Keep, Fields
<1> HIDE DEF d
<1>8. Counts(d) /\ s.client_pending <= d.client_pending
      /\ s.origin_pending <= d.origin_pending
  <2>1. /\ d.client_rbuf_rdr = s.client_rbuf_rdr /\ d.origin_rbuf_rdr = s.origin_rbuf_rdr
        /\ d.origin_pending = s.origin_pending
        /\ d.client_recv = s.client_recv /\ d.origin_recv = s.origin_recv
        /\ d.org_cache_rdr = s.org_cache_rdr
    BY <1>7 DEF Keep, Fields
  <2> QED
    BY <1>2, <1>3, <1>6, <2>1 DEF Mach, Counts, OrgAvail
<1>9. Does(s, d, {}, {"client_pending"})
  BY <1>5, <1>6, <1>7, <1>8, Counted
<1>10. Does(d, t, {"cln_send_idle", "cln_send"}, {})
  BY <1>6, <1>9, EvClnSend DEF Does
<1>11. t.client_pending = m
  BY <1>6, <1>10 DEF Does, Keep, Fields
<1> HIDE DEF t
<1> QED
  BY <1>4, <1>9, <1>10, <1>11 DEF Does, Only, Keep, m

\* send_to_origin.
LEMMA SendToOriginDoes ==
    ASSUME NEW s, Mach(s), NEW n \in Nat, s.origin_pending + n <= ClnAvail(s),
           "org_send_start" \notin s.sm, "org_send_conn" \notin s.sm
    PROVE  LET t == SendToOrigin(s, n) IN
           /\ Does(s, t, {"org_send_idle", "org_send"}, {"origin_pending"})
           /\ t.origin_pending = s.origin_pending + n
<1> DEFINE m == s.origin_pending + n
           d == [s EXCEPT !.origin_pending = m]
           t == ProcessEvent(d, "org_send")
<1>1. s \in Conns
  BY DEF Mach
<1>2. /\ s.client_pending \in Int /\ s.origin_pending \in Int
      /\ s.client_rbuf_rdr \in Int /\ s.origin_rbuf_rdr \in Int
      /\ s.client_recv \in Int /\ Len(s.origin_recv) \in Int
  BY <1>1 DEF Conns
<1>3. m \in Int /\ s.origin_pending <= m /\ m <= ClnAvail(s)
  BY <1>2
<1>4. SendToOrigin(s, n) = t
  BY DEF SendToOrigin, Check
<1> HIDE DEF m
<1>5. d \in Conns
  BY <1>1, <1>3 DEF Conns
<1>6. d.sm = s.sm /\ d.ops = s.ops /\ Given(d) = Given(s) /\ d.bug = s.bug
      /\ d.origin_pending = m
  BY <1>1 DEF Conns, Given
<1>7. Keep(s, d, {"origin_pending"})
  BY <1>1 DEF Conns, Keep, Fields
<1> HIDE DEF d
<1>8. Counts(d) /\ s.client_pending <= d.client_pending
      /\ s.origin_pending <= d.origin_pending
  <2>1. /\ d.client_rbuf_rdr = s.client_rbuf_rdr /\ d.origin_rbuf_rdr = s.origin_rbuf_rdr
        /\ d.client_pending = s.client_pending
        /\ d.client_recv = s.client_recv /\ d.origin_recv = s.origin_recv
        /\ d.org_cache_rdr = s.org_cache_rdr
    BY <1>7 DEF Keep, Fields
  <2> QED
    BY <1>2, <1>3, <1>6, <2>1 DEF Mach, Counts, ClnAvail
<1>9. Does(s, d, {}, {"origin_pending"})
  BY <1>5, <1>6, <1>7, <1>8, Counted
<1>10. Does(d, t, {"org_send_idle", "org_send"}, {})
  BY <1>6, <1>9, EvOrgSend DEF Does
<1>11. t.origin_pending = m
  BY <1>6, <1>10 DEF Does, Keep, Fields
<1> HIDE DEF t
<1> QED
  BY <1>4, <1>9, <1>10, <1>11 DEF Does, Only, Keep, m

\* pause_org_recv.
LEMMA PauseDoes ==
    ASSUME NEW s, Mach(s), "org_recv_idle" \in s.sm
    PROVE  LET t == PauseOrgRecv(s) IN
           /\ Does(s, t, {"org_recv_idle", "org_recv_paused"}, {"flags"})
           /\ "org_recv_paused" \in t.sm /\ t.flags = s.flags \cup {"recv_paused"}
<1> DEFINE p == ProcessEvent(s, "org_recv_pause")
           t == Set(p, "recv_paused")
<1>1. Does(s, p, {"org_recv_idle", "org_recv_paused"}, {}) /\ "org_recv_paused" \in p.sm
  BY EvOrgRecvPause
<1> HIDE DEF p
<1>2. Does(p, t, {}, {"flags"}) /\ t.flags = p.flags \cup {"recv_paused"}
  BY <1>1, SetEffect DEF Does, Flags
<1>3. PauseOrgRecv(s) = t
  BY DEF PauseOrgRecv, p
<1> HIDE DEF t
<1> QED
  BY <1>1, <1>2, <1>3 DEF Does, Only, Keep, Fields

\* consume_cache_data: the cache needs nothing of what has been received.
LEMMA ConsumeCacheDataDoes ==
    ASSUME NEW s, Mach(s)
    PROVE  LET t == ConsumeCacheData(s) IN
           /\ Does(s, t, {}, {"org_cache_rdr"})
           /\ t.org_cache_rdr = Len(s.origin_recv)
<1> DEFINE c == s
           t == [c EXCEPT !.org_cache_rdr = Len(c.origin_recv)]
<1>1. Does(s, c, {}, {})
  BY SameDoes
<1> HIDE DEF c
<1>2. c \in Conns /\ Mach(c) /\ Keep(s, c, {}) /\ s \in Conns
  BY <1>1 DEF Does, Mach
<1>3. Len(c.origin_recv) \in Int
  <2>1. c.origin_recv \in Seq(Nat)
    BY <1>2 DEF Conns
  <2> QED
    BY <2>1
<1>4. t \in Conns
  BY <1>2, <1>3 DEF Conns
<1>5. /\ t.sm = c.sm /\ t.ops = c.ops /\ Given(t) = Given(c)
      /\ t.bug = c.bug /\ t.org_cache_rdr = Len(c.origin_recv)
  BY <1>2 DEF Conns, Given
<1>6. Keep(c, t, {"org_cache_rdr"})
  BY <1>2 DEF Conns, Keep, Fields
<1>7. Does(c, t, {}, {"org_cache_rdr"})
  <2>1. c.origin_recv \in Seq(Nat) /\ c.client_pending \in Int /\ c.origin_pending \in Int
    BY <1>2 DEF Conns
  <2>2. 0 <= Len(c.origin_recv) /\ Len(c.origin_recv) <= Len(c.origin_recv)
    BY <2>1
  <2>3. /\ t.client_rbuf_rdr = c.client_rbuf_rdr /\ t.origin_rbuf_rdr = c.origin_rbuf_rdr
        /\ t.client_pending = c.client_pending /\ t.origin_pending = c.origin_pending
        /\ t.client_recv = c.client_recv /\ t.origin_recv = c.origin_recv
    BY <1>6 DEF Keep, Fields
  <2>4. Counts(t)
    BY <1>2, <1>5, <2>2, <2>3 DEF Counts, Mach
  <2>5. c.client_pending <= t.client_pending /\ c.origin_pending <= t.origin_pending
    BY <2>1, <2>3
  <2> HIDE DEF t
  <2> QED
    BY <1>2, <1>4, <1>5, <1>6, <2>4, <2>5, Counted
<1>8. ConsumeCacheData(s) = t
  BY DEF ConsumeCacheData, c
<1> HIDE DEF t
<1> QED
  BY <1>1, <1>2, <1>5, <1>7, <1>8 DEF Does, Only, Keep, Fields

\* cache_close.
LEMMA CacheCloseDoes ==
    ASSUME NEW s, Mach(s)
    PROVE  LET t == CacheClose(s) IN
           /\ Does(s, t, {}, {"handle"})
           /\ t.handle = "none"
<1> DEFINE c == s
           t == [c EXCEPT !.handle = "none"]
<1>1. Does(s, c, {}, {})
  BY SameDoes
<1> HIDE DEF c
<1>2. c \in Conns /\ Mach(c) /\ Keep(s, c, {}) /\ s \in Conns
  BY <1>1 DEF Does, Mach
<1>4. t \in Conns
  BY <1>2 DEF Conns
<1>5. /\ t.sm = c.sm /\ t.ops = c.ops /\ Given(t) = Given(c)
      /\ t.bug = c.bug /\ t.handle = "none"
  BY <1>2 DEF Conns, Given
<1>6. Keep(c, t, {"handle"})
  BY <1>2 DEF Conns, Keep, Fields
<1>7. Does(c, t, {}, {"handle"})
  BY <1>2, <1>4, <1>5, <1>6, Updated DEF CountF
<1>8. CacheClose(s) = t
  BY DEF CacheClose, c
<1> HIDE DEF t
<1> QED
  BY <1>1, <1>2, <1>5, <1>7, <1>8 DEF Does, Only, Keep, Fields

\* No operation runs on the cache handle, which is open for what is wanted.
Free(s, h) == s.cache_op = "none" /\ s.handle = h

\* An operation of the cache is started.
LEMMA CacheOpDoes ==
    ASSUME NEW s, Mach(s), NEW op \in CacheOps, NEW h, Free(s, h)
    PROVE  LET t == CacheOp(s, op, h) IN
           /\ Does(s, t, {}, {"cache_op"})
           /\ t.cache_op = op
<1> DEFINE c == Check(s, s.cache_op = "none" /\ s.handle = h, "cache handle")
           t == [c EXCEPT !.cache_op = op]
<1>1. Does(s, c, {}, {})
  BY SameDoes DEF Check, Free
<1> HIDE DEF c
<1>2. c \in Conns /\ Mach(c) /\ Keep(s, c, {}) /\ s \in Conns
  BY <1>1 DEF Does, Mach
<1>4. t \in Conns
  BY <1>2 DEF Conns
<1>5. /\ t.sm = c.sm /\ t.ops = c.ops /\ Given(t) = Given(c)
      /\ t.bug = c.bug /\ t.cache_op = op
  BY <1>2 DEF Conns, Given
<1>6. Keep(c, t, {"cache_op"})
  BY <1>2 DEF Conns, Keep, Fields
<1>7. Does(c, t, {}, {"cache_op"})
  BY <1>2, <1>4, <1>5, <1>6, Updated DEF CountF
<1>8. CacheOp(s, op, h) = t
  BY DEF CacheOp, c
<1> HIDE DEF t
<1> QED
  BY <1>1, <1>2, <1>5, <1>7, <1>8 DEF Does, Only, Keep, Fields

\* The types of the first transaction.
LEMMA FirstTyped ==
    ASSUME NEW s, Mach(s), s.trans # <<>>
    PROVE  /\ s.trans \in Seq(Trans) /\ Len(s.trans) \in Nat /\ Len(s.trans) >= 1
           /\ s.trans[1] \in Trans
           /\ s.trans[1].at \in Nat /\ s.trans[1].len \in Nat
           /\ RespBody(s.trans[1]) \in Int
<1>1. s.trans \in Seq(Trans)
  BY DEF Mach, Conns
<1>2. Len(s.trans) \in Nat /\ Len(s.trans) >= 1 /\ s.trans[1] \in Trans
  BY <1>1
<1>3. /\ s.trans[1].at \in Nat /\ s.trans[1].len \in Nat
      /\ s.trans[1].resp \in Nat /\ s.trans[1].hdr \in Nat
  BY <1>2 DEF Trans
<1> QED
  BY <1>1, <1>2, <1>3 DEF RespBody

\* The types of what has been received.
LEMMA ReceivedTyped ==
    ASSUME NEW s, Mach(s)
    PROVE  /\ s.origin_recv \in Seq(Nat) /\ Len(s.origin_recv) \in Nat
           /\ s.org_cache_rdr \in Int /\ s.origin_rdr \in Nat
           /\ s.cache_offs \in Int /\ s.obj_at \in Int /\ s.obj_len \in Int
<1>1. /\ s.origin_recv \in Seq(Nat)
      /\ s.org_cache_rdr \in Int /\ s.origin_rdr \in Nat
      /\ s.cache_offs \in Int /\ s.obj_at \in Int /\ s.obj_len \in Int
  BY DEF Mach, Conns
<1> QED
  BY <1>1

\* consume_cache_hdrs_data: the cache gets the body without the headers.
LEMMA ConsumeCacheHdrsDataDoes ==
    ASSUME NEW s, Mach(s), s.trans # <<>>,
           RespHdrsCompleted(s.trans[1]) =>
                /\ 0 <= RespBody(s.trans[1])
                /\ s.org_cache_rdr + RespBody(s.trans[1]) <= Len(s.origin_recv)
    PROVE  LET t == ConsumeCacheHdrsData(s) IN
           /\ Does(s, t, {}, {"org_cache_rdr"})
           /\ t.org_cache_rdr = Len(s.origin_recv) -
                (IF RespHdrsCompleted(s.trans[1]) THEN RespBody(s.trans[1]) ELSE 0)
<1> DEFINE body == IF RespHdrsCompleted(s.trans[1]) THEN RespBody(s.trans[1]) ELSE 0
           c == Check(s, Len(s.origin_recv) - s.org_cache_rdr >= body, "header bytes")
           m == Len(s.origin_recv) - body
           t == [c EXCEPT !.org_cache_rdr = m]
<1>1. m \in Int /\ 0 <= m /\ m <= Len(s.origin_recv)
      /\ Len(s.origin_recv) - s.org_cache_rdr >= body
  <2>1. body \in Int /\ 0 <= body /\ s.org_cache_rdr + body <= Len(s.origin_recv)
    BY FirstTyped, ReceivedTyped DEF Mach, Counts
  <2> HIDE DEF body
  <2> QED
    BY <2>1, ReceivedTyped DEF Mach, Counts
<1>2. Does(s, c, {}, {})
  BY <1>1, SameDoes DEF Check
<1>3. ConsumeCacheHdrsData(s) = t
  BY DEF ConsumeCacheHdrsData
<1> HIDE DEF c, m
<1>4. c \in Conns /\ Mach(c) /\ c.origin_recv = s.origin_recv
  BY <1>2 DEF Does, Mach, Keep, Fields
<1>5. t \in Conns
  BY <1>4, <1>1 DEF Conns
<1>6. /\ t.sm = c.sm /\ t.ops = c.ops /\ Given(t) = Given(c)
      /\ t.bug = c.bug /\ t.org_cache_rdr = m
  BY <1>4 DEF Conns, Given
<1>7. Keep(c, t, {"org_cache_rdr"})
  BY <1>4 DEF Conns, Keep, Fields
<1>8. Does(c, t, {}, {"org_cache_rdr"})
  <2>1. c.client_pending \in Int /\ c.origin_pending \in Int
    BY <1>4 DEF Conns
  <2>2. /\ t.client_rbuf_rdr = c.client_rbuf_rdr /\ t.origin_rbuf_rdr = c.origin_rbuf_rdr
        /\ t.client_pending = c.client_pending /\ t.origin_pending = c.origin_pending
        /\ t.client_recv = c.client_recv /\ t.origin_recv = c.origin_recv
    BY <1>7 DEF Keep, Fields
  <2>3. Counts(t)
    BY <1>1, <1>4, <1>6, <2>2 DEF Counts, Mach
  <2>4. c.client_pending <= t.client_pending /\ c.origin_pending <= t.origin_pending
    BY <2>1, <2>2
  <2> HIDE DEF t
  <2> QED
    BY <1>4, <1>5, <1>6, <1>7, <2>3, <2>4, Counted
<1> HIDE DEF t
<1> QED
  BY <1>2, <1>3, <1>6, <1>8 DEF Does, Only, Keep, Fields, m

\* cache_open_rd asks for the object of the first transaction.
LEMMA CacheOpenRdDoes ==
    ASSUME NEW s, Mach(s), s.trans # <<>>, HasCacheKey(s.trans[1]), Free(s, "none")
    PROVE  LET t == CacheOpenRd(s) IN
           /\ Does(s, t, {}, {"cache_op", "obj_at", "obj_len"})
           /\ t.cache_op = "open_rd"
           /\ t.obj_at = s.trans[1].at /\ t.obj_len = s.trans[1].len
<1> DEFINE k == Check(s, HasCacheKey(s.trans[1]), "cache key")
           c == CacheOp(k, "open_rd", "none")
           m == s.trans[1].at
           n == s.trans[1].len
           t == [c EXCEPT !.obj_at = m, !.obj_len = n]
<1>1. m \in Int /\ n \in Int
  BY FirstTyped
<1>2. Does(s, k, {}, {})
  BY SameDoes DEF Check
<1>3. CacheOpenRd(s) = t
  BY DEF CacheOpenRd
<1> HIDE DEF k
<1>4. Does(k, c, {}, {"cache_op"}) /\ c.cache_op = "open_rd"
  BY <1>2, CacheOpDoes DEF Does, CacheOps, Keep, Fields, Free
<1> HIDE DEF c, m, n
<1>5. c \in Conns /\ Mach(c)
  BY <1>4 DEF Does, Mach
<1>6. t \in Conns
  BY <1>5, <1>1 DEF Conns
<1>7. /\ t.sm = c.sm /\ t.ops = c.ops /\ Given(t) = Given(c)
      /\ t.bug = c.bug /\ t.obj_at = m /\ t.obj_len = n
  BY <1>5 DEF Conns, Given
<1>8. Keep(c, t, {"obj_at", "obj_len"})
  BY <1>5 DEF Conns, Keep, Fields
<1>9. Does(c, t, {}, {"obj_at", "obj_len"})
  BY <1>5, <1>6, <1>7, <1>8, Updated DEF CountF
<1> HIDE DEF t
<1> QED
  BY <1>2, <1>3, <1>4, <1>7, <1>9 DEF Does, Only, Keep, Fields, m, n

\* cache_read_compare compares all that has been received of the body.
LEMMA CacheReadCompareDoes ==
    ASSUME NEW s, Mach(s), Free(s, "rd"),
           Len(s.origin_recv) - s.org_cache_rdr = RespBody(s.trans[1])
    PROVE  LET t == CacheReadCompare(s) IN
           /\ Does(s, t, {}, {"cache_op", "cache_offs"})
           /\ t.cache_op = "compare"
           /\ t.cache_offs = Len(s.origin_recv) - s.org_cache_rdr
<1> DEFINE m == Len(s.origin_recv) - s.org_cache_rdr
           k == Check(s, RespBody(s.trans[1]) = m, "body bytes")
           c == CacheOp(k, "compare", "rd")
           t == [c EXCEPT !.cache_offs = m]
<1>1. m \in Int
  BY ReceivedTyped
<1>2. Does(s, k, {}, {})
  BY SameDoes DEF Check
<1>3. CacheReadCompare(s) = t
  BY DEF CacheReadCompare
<1> HIDE DEF k
<1>4. Does(k, c, {}, {"cache_op"}) /\ c.cache_op = "compare"
  BY <1>2, CacheOpDoes DEF Does, CacheOps, Keep, Fields, Free
<1> HIDE DEF c, m
<1>5. c \in Conns /\ Mach(c)
  BY <1>4 DEF Does, Mach
<1>6. t \in Conns
  BY <1>5, <1>1 DEF Conns
<1>7. /\ t.sm = c.sm /\ t.ops = c.ops /\ Given(t) = Given(c)
      /\ t.bug = c.bug /\ t.cache_offs = m
  BY <1>5 DEF Conns, Given
<1>8. Keep(c, t, {"cache_offs"})
  BY <1>5 DEF Conns, Keep, Fields
<1>9. Does(c, t, {}, {"cache_offs"})
  BY <1>5, <1>6, <1>7, <1>8, Updated DEF CountF
<1> HIDE DEF t
<1> QED
  BY <1>2, <1>3, <1>4, <1>7, <1>9 DEF Does, Only, Keep, Fields, m

\* cache_open_wr.
LEMMA CacheOpenWrDoes ==
    ASSUME NEW s, Mach(s), HasCacheKey(s.trans[1]), Free(s, "none")
    PROVE  LET t == CacheOpenWr(s) IN
           Does(s, t, {}, {"cache_op"}) /\ t.cache_op = "open_wr"
<1> DEFINE k == Check(s, HasCacheKey(s.trans[1]), "cache key")
<1>1. Does(s, k, {}, {})
  BY SameDoes DEF Check
<1>2. CacheOpenWr(s) = CacheOp(k, "open_wr", "none")
  BY DEF CacheOpenWr
<1> HIDE DEF k
<1>3. LET c == CacheOp(k, "open_wr", "none") IN
      Does(k, c, {}, {"cache_op"}) /\ c.cache_op = "open_wr"
  BY <1>1, CacheOpDoes DEF Does, CacheOps, Keep, Fields, Free
<1> QED
  BY <1>1, <1>2, <1>3 DEF Does, Only, Keep, Fields

\* cache_reopen_wr_truncate closes first.
LEMMA CacheReopenDoes ==
    ASSUME NEW s, Mach(s), Free(s, "rd")
    PROVE  LET t == CacheReopenWrTruncate(s) IN
           /\ Does(s, t, {}, {"cache_op", "handle"}) /\ t.cache_op = "close"
           /\ t.handle = "none"
<1> DEFINE c == CacheOp(s, "close", "rd")
           t == [c EXCEPT !.handle = "none"]
<1>1. Does(s, c, {}, {"cache_op"}) /\ c.cache_op = "close"
  BY CacheOpDoes DEF CacheOps
<1>2. CacheReopenWrTruncate(s) = t
  BY DEF CacheReopenWrTruncate
<1> HIDE DEF c
<1>3. c \in Conns /\ Mach(c)
  BY <1>1 DEF Does, Mach
<1>4. t \in Conns
  BY <1>3 DEF Conns
<1>5. /\ t.sm = c.sm /\ t.ops = c.ops /\ Given(t) = Given(c)
      /\ t.bug = c.bug /\ t.handle = "none"
  BY <1>3 DEF Conns, Given
<1>6. Keep(c, t, {"handle"})
  BY <1>3 DEF Conns, Keep, Fields
<1>7. Does(c, t, {}, {"handle"})
  BY <1>3, <1>4, <1>5, <1>6, Updated DEF CountF
<1> HIDE DEF t
<1> QED
  BY <1>1, <1>2, <1>5, <1>7 DEF Does, Only, Keep, Fields

\* cache_write writes what has been received and not been written.
LEMMA CacheWriteDoes ==
    ASSUME NEW s, Mach(s), HasCacheWrData(s), Free(s, "wr")
    PROVE  LET t == CacheWrite(s) IN
           /\ Does(s, t, {}, {"cache_op", "writing"})
           /\ t.cache_op = "write" /\ t.writing = Len(s.origin_recv) - s.org_cache_rdr
<1> DEFINE k == Check(s, HasCacheWrData(s), "bytes to write")
           c == CacheOp(k, "write", "wr")
           m == Len(s.origin_recv) - s.org_cache_rdr
           t == [c EXCEPT !.writing = m]
<1>1. m \in Int
  BY ReceivedTyped
<1>2. Does(s, k, {}, {})
  BY SameDoes DEF Check
<1>3. CacheWrite(s) = t
  BY DEF CacheWrite
<1> HIDE DEF k
<1>4. Does(k, c, {}, {"cache_op"}) /\ c.cache_op = "write"
  BY <1>2, CacheOpDoes DEF Does, CacheOps, Keep, Fields, Free
<1> HIDE DEF c, m
<1>5. c \in Conns /\ Mach(c)
  BY <1>4 DEF Does, Mach
<1>6. t \in Conns
  BY <1>5, <1>1 DEF Conns
<1>7. /\ t.sm = c.sm /\ t.ops = c.ops /\ Given(t) = Given(c)
      /\ t.bug = c.bug /\ t.writing = m
  BY <1>5 DEF Conns, Given
<1>8. Keep(c, t, {"writing"})
  BY <1>5 DEF Conns, Keep, Fields
<1>9. Does(c, t, {}, {"writing"})
  BY <1>5, <1>6, <1>7, <1>8, Updated DEF CountF
<1> HIDE DEF t
<1> QED
  BY <1>2, <1>3, <1>4, <1>7, <1>9 DEF Does, Only, Keep, Fields, m

\* set_bp_content_len tells the length at most.
LEMMA SetBpContentLenDoes ==
    ASSUME NEW s, Mach(s), "bpctrl_added" \in s.flags
    PROVE  LET t == SetBpContentLen(s) IN
           /\ Does(s, t, {}, {"flags"})
           /\ s.flags \subseteq t.flags /\ t.flags \subseteq s.flags \cup {"params_set"}
<1> DEFINE c == Check(s, Has(s, "bpctrl_added"), "bpctrl entry")
<1>1. Does(s, c, {}, {})
  BY SameDoes DEF Check, Has
<1>2. SetBpContentLen(s) = IF "len" \in s.bp_fails THEN c ELSE Set(c, "params_set")
  BY DEF SetBpContentLen
<1> HIDE DEF c
<1>3. /\ Does(c, Set(c, "params_set"), {}, {"flags"})
      /\ Set(c, "params_set").flags = c.flags \cup {"params_set"}
  BY <1>1, SetEffect DEF Does, Flags
<1> QED
  BY <1>1, <1>2, <1>3 DEF Does, Only, Keep, Fields

\* The length of the first response can be told, and was not.
Limitable(s) == /\ s.trans # <<>> /\ ~s.trans[1].tunnel /\ s.trans[1].len > 0
                /\ "params_set" \notin s.flags /\ "bpctrl_added" \in s.flags

\* The length of the current transaction, as far as it is known.
LEMMA SetBpCurrTransLenDoes ==
    ASSUME NEW s, Mach(s), Limitable(s)
    PROVE  LET t == SetBpCurrTransLen(s) IN
           /\ Does(s, t, {}, {"flags"})
           /\ s.flags \subseteq t.flags /\ t.flags \subseteq s.flags \cup {"params_set"}
<1> DEFINE c == Check(s, /\ s.trans # <<>> /\ ~s.trans[1].tunnel
                         /\ ~Has(s, "params_set") /\ s.trans[1].len > 0,
                      "content length")
<1>1. Does(s, c, {}, {})
  BY SameDoes DEF Check, Has, Limitable
<1>2. SetBpCurrTransLen(s) = SetBpContentLen(c)
  BY DEF SetBpCurrTransLen
<1> HIDE DEF c
<1>3. LET t == SetBpContentLen(c) IN
      /\ Does(c, t, {}, {"flags"})
      /\ c.flags \subseteq t.flags /\ t.flags \subseteq c.flags \cup {"params_set"}
  BY <1>1, SetBpContentLenDoes DEF Does, Keep, Fields, Limitable
<1> QED
  BY <1>1, <1>2, <1>3 DEF Does, Only, Keep, Fields

\* The states of reading the origin again.
ResumeX == {"org_recv_paused", "org_recv_idle", "org_recv"}

\* resume_org_recv.
LEMMA ResumeDoes ==
    ASSUME NEW s, Mach(s), "org_recv_paused" \in s.sm, Limitable(s)
    PROVE  LET t == ResumeOrgRecv(s) IN
           /\ Does(s, t, ResumeX, {"flags"}) /\ "org_recv_paused" \notin t.sm
           /\ s.flags \ {"recv_paused"} \subseteq t.flags
           /\ t.flags \subseteq (s.flags \cup {"params_set"}) \ {"recv_paused"}
<1> DEFINE b == SetBpCurrTransLen(s)
           c == ProcessEvent(b, "org_recv_resume")
           t == Clear(c, "recv_paused")
<1>1. /\ Does(s, b, {}, {"flags"})
      /\ s.flags \subseteq b.flags /\ b.flags \subseteq s.flags \cup {"params_set"}
  BY SetBpCurrTransLenDoes
<1> HIDE DEF b
<1>2. Mach(b) /\ "org_recv_paused" \in b.sm
  BY <1>1 DEF Does, Only
<1>3. Does(b, c, ResumeX, {}) /\ "org_recv_paused" \notin c.sm
  BY <1>2, EvOrgRecvResume DEF ResumeX, Does, Only
<1> HIDE DEF c
<1>4. Does(c, t, {}, {"flags"}) /\ t.flags = c.flags \ {"recv_paused"}
  BY <1>3, SetEffect DEF Does, Flags
<1>5. ResumeOrgRecv(s) = t
  BY DEF ResumeOrgRecv, b, c
<1> HIDE DEF t
<1>6. c.flags = b.flags
  BY <1>3 DEF Does, Keep, Fields
<1>7. Does(s, t, ResumeX, {"flags"}) /\ "org_recv_paused" \notin t.sm
  BY <1>1, <1>3, <1>4 DEF Does, Only, Keep, ResumeX
<1> QED
  BY <1>1, <1>4, <1>5, <1>6, <1>7

\* What has been received of the next request, after the first transaction.
NextReq(s) == IF Tail(s.trans) # <<>> THEN Tail(s.trans)[1].req ELSE 0
\* The first transaction is over, and there is room for the next request.
Over(s) == /\ s.trans # <<>> /\ RespCompleted(s.trans[1])
           /\ s.origin_pending + NextReq(s) <= ClnAvail(s)

\* fin_trans_send_next drops the first transaction and sends the next.
LEMMA FinTransDoes ==
    ASSUME NEW s, Mach(s), Over(s),
           "org_send_start" \notin s.sm, "org_send_conn" \notin s.sm
    PROVE  LET t == FinTransSendNext(s) IN
           /\ Does(s, t, {"org_send_idle", "org_send"}, {"trans", "wrote", "flags",
                "origin_pending"})
           /\ t.trans = Tail(s.trans) /\ t.wrote = <<>>
           /\ t.flags = s.flags \ {"params_set", "caching_started",
                                   "after_end_data", "trans_completed"}
           /\ t.origin_pending = s.origin_pending + NextReq(s)
<1> DEFINE c == Check(s, s.trans # <<>> /\ RespCompleted(s.trans[1]),
                      "completed transaction")
           m == Tail(c.trans)
           f == c.flags \ {"params_set", "caching_started", "after_end_data",
                           "trans_completed"}
           w == <<>>
           d == [c EXCEPT !.trans = m, !.wrote = w, !.flags = f]
           t == SendNext(d)
<1>1. Does(s, c, {}, {})
  BY SameDoes DEF Check, Over
<1>2. FinTransSendNext(s) = t
  BY DEF FinTransSendNext
<1> HIDE DEF c
<1>3. c.trans = s.trans /\ c.flags = s.flags /\ c \in Conns /\ Mach(c)
  BY <1>1 DEF Does, Keep, Fields, Mach
<1>4. m \in Seq(Trans) /\ f \in SUBSET Flags /\ w \in Seq(Nat)
  <2>1. c.flags \in SUBSET Flags /\ c.trans \in Seq(Trans) /\ c.trans # <<>>
    BY <1>3 DEF Conns, Over
  <2> QED
    BY <2>1
<1>5. NextReq(s) = (IF m # <<>> THEN m[1].req ELSE 0)
       /\ s.origin_pending + NextReq(s) <= ClnAvail(s)
  BY <1>3 DEF NextReq, Over
<1>6. c.origin_pending = s.origin_pending /\ ClnAvail(c) = ClnAvail(s)
  BY <1>1 DEF Does, Keep, Fields, ClnAvail
<1> HIDE DEF m, f, w
<1>7. d \in Conns
  BY <1>3, <1>4 DEF Conns
<1>8. /\ d.sm = c.sm /\ d.ops = c.ops /\ Given(d) = Given(c)
      /\ d.bug = c.bug /\ d.trans = m /\ d.flags = f /\ d.wrote = w
  BY <1>3 DEF Conns, Given
<1>9. Keep(c, d, {"trans", "wrote", "flags"})
  BY <1>3 DEF Conns, Keep, Fields
<1>10. Does(c, d, {}, {"trans", "wrote", "flags"})
  BY <1>3, <1>7, <1>8, <1>9, Updated DEF CountF
<1> HIDE DEF d
<1>11. d.origin_pending = s.origin_pending /\ ClnAvail(d) = ClnAvail(s)
  BY <1>10, <1>6 DEF Does, Keep, Fields, ClnAvail
<1>12. /\ Does(d, t, {"org_send_idle", "org_send"}, {"origin_pending"})
      /\ t.origin_pending = s.origin_pending + NextReq(s)
  <2>1. Mach(d) /\ "org_send_start" \notin d.sm /\ "org_send_conn" \notin d.sm
    BY <1>1, <1>10 DEF Does, Only
  <2>2. CASE d.trans # <<>> /\ d.trans[1].req > 0
    <3>1. d.trans[1].req \in Nat /\ NextReq(s) = d.trans[1].req
      BY <1>8, <1>5, <2>1, <2>2, FirstTyped DEF Trans
    <3>2. t = SendToOrigin(d, d.trans[1].req)
      BY <2>2 DEF SendNext
    <3> QED
      BY <1>5, <1>11, <2>1, <3>1, <3>2, SendToOriginDoes
  <2>3. CASE ~(d.trans # <<>> /\ d.trans[1].req > 0)
    <3>1. t = d
      BY <2>3 DEF SendNext
    <3>3. NextReq(s) = 0
      <4>1. CASE d.trans = <<>>
        BY <1>8, <1>5, <4>1
      <4>2. CASE d.trans # <<>>
        <5>1. d.trans[1].req \in Nat
          BY <2>1, <4>2, FirstTyped DEF Trans
        <5> QED
          BY <1>8, <1>5, <2>3, <4>2, <5>1
      <4> QED
        BY <4>1, <4>2
    <3>4. s.origin_pending \in Int
      BY DEF Mach, Conns
    <3> QED
      BY <1>11, <2>1, <3>1, <3>3, <3>4 DEF Does, Only, Keep
  <2> QED
    BY <2>2, <2>3
<1> HIDE DEF t
<1>13. t.trans = m /\ t.flags = f /\ t.wrote = w
  BY <1>8, <1>12 DEF Does, Keep, Fields
<1>14. m = Tail(s.trans) /\ f = s.flags \ {"params_set", "caching_started",
                                   "after_end_data", "trans_completed"}
       /\ w = <<>>
  BY <1>3 DEF m, f, w
<1> QED
  BY <1>1, <1>2, <1>10, <1>12, <1>13, <1>14 DEF Does, Only, Keep

-----------------------------------------------------------------------------
(* The invariant.                                                          *)

\* The states of the handler with an operation of the cache, those with the origin
\* paused, and those in which the cache has the response's bytes.
Waiting  == {"cache_open_rd", "cache_compare", "cache_open_wr", "cache_write"}
Deciding == {"cache_open_rd", "cache_compare", "cache_open_wr"}
Caching  == Waiting \cup {"cache_read", "cache_idle_wr"}

\* The operation of the cache each state waits for, and the handle it has.
OpFits(s) ==
    /\ s.handle = "rd" <=> s.csm = "cache_compare"
    /\ s.handle = "wr" <=> s.csm \in {"cache_write", "cache_idle_wr"}
    /\ CASE s.csm = "cache_open_rd" -> s.cache_op = "open_rd"
         [] s.csm = "cache_compare" -> s.cache_op = "compare"
         [] s.csm = "cache_open_wr" -> s.cache_op \in {"close", "open_wr"}
         [] s.csm = "cache_write"   -> s.cache_op = "write"
         [] OTHER                   -> s.cache_op = "none"

\* The origin is paused while the cache is asked.
Paused(s) == /\ "org_recv_paused" \in s.sm <=> s.csm \in Deciding
             /\ "recv_paused" \in s.flags <=> s.csm \in Deciding

\* The response the cache is used for.
Cached(s) ==
    /\ s.csm # "wait_body_data" => s.trans # <<>>
    /\ s.csm \in Caching =>
        /\ ReqCompleted(s.trans[1]) /\ s.trans[1].at > 0
        /\ RespBody(s.trans[1]) >= 1 /\ "caching_started" \in s.flags
        /\ s.trans[1].tunnel => "org_recv_eof" \in s.sm
    /\ s.csm = "cache_closed" => "caching_started" \in s.flags \/ s.trans[1].tunnel

\* What the cache is asked for is the response that goes on, all of it received
\* so far; it is compared, then served from there.
Asked(s) ==
    /\ s.csm \in {"cache_open_rd", "cache_compare", "cache_read"} =>
            /\ s.trans[1].resp_state = "open" /\ s.obj_len = s.trans[1].len
            /\ s.origin_rdr = Len(s.origin_recv)
    /\ s.csm \in {"cache_open_rd", "cache_compare"} => s.obj_at = s.trans[1].at
    /\ s.csm = "cache_open_rd" =>
            Len(s.origin_recv) - s.org_cache_rdr = RespBody(s.trans[1])
    /\ s.csm \in {"cache_compare", "cache_read"} =>
            s.cache_offs = RespBody(s.trans[1])
    /\ s.csm = "cache_read" => s.strm = "cache"
    /\ s.strm = "cache" => \/ s.csm = "cache_read"
                           \/ s.csm = "cache_closed" /\ "org_recv_eof" \in s.sm

\* The stream of the cache goes on where the origin's stopped.
Served(s) == s.strm = "cache" =>
                /\ s.obj_at + s.cache_offs - 1 = Len(s.origin_recv)
                /\ s.cache_offs <= s.obj_len

\* The transactions: the later ones have no response yet; the place of the
\* first one's body.
TransOk(t) == /\ t.at = 0 => t.resp = t.hdr
              /\ t.at > 0 => /\ 0 <= RespBody(t)
                             /\ t.resp_state = "open" => RespBody(t) < t.len
Place(s) ==
    /\ s.origin_rdr <= Len(s.origin_recv)
    /\ s.client_rdr <= s.client_recv /\ s.client_recv <= Len(s.cln_script)
    /\ \A k \in DOMAIN s.trans : TransOk(s.trans[k]) /\ (k >= 2 => s.trans[k].at = 0)
    /\ s.trans # <<>> /\ s.trans[1].at > 0
        => s.trans[1].at + RespBody(s.trans[1]) - 1 = s.origin_rdr

\* What has been written is the first part of the body, the reader of the cache
\* is after it, and a write takes what has been received.
Wrote(s) ==
    /\ s.wrote # <<>> => s.trans[1].at > 0
    /\ \A i \in DOMAIN s.wrote : s.wrote[i] = s.trans[1].at + i - 1
Bytes(s) ==
    /\ Wrote(s)
    /\ s.csm = "wait_body_data" => s.wrote = <<>>
    /\ s.csm \in Waiting \cup {"cache_idle_wr"} =>
            /\ s.org_cache_rdr = s.trans[1].at - 1 + Len(s.wrote)
            /\ s.org_cache_rdr <= Len(s.origin_recv)
    /\ s.csm = "cache_write" =>
            0 <= s.writing /\ s.org_cache_rdr + s.writing <= Len(s.origin_recv)
    /\ s.csm \in {"cache_open_wr", "cache_write", "cache_idle_wr"} =>
            "pend_tunnel" \in s.flags \/ s.origin_rdr = Len(s.origin_recv)
    /\ s.csm = "cache_idle_wr" =>
            s.org_cache_rdr = Len(s.origin_recv) /\ "pend_tunnel" \notin s.flags

\* The connection has its entry in bpctrl until the cache serves the response or
\* a tunnel is pending; the length of a response is told once, that of a cached
\* one when the cache has answered.
Entry(s) ==
    /\ s.csm \in Deciding =>
            s.trans[1].resp_state = "open" /\ "params_set" \notin s.flags
    /\ "org_recv_start" \notin s.sm /\ s.strm = "sock" /\ "pend_tunnel" \notin s.flags
            => "bpctrl_added" \in s.flags
    /\ "params_set" \in s.flags =>
            "caching_started" \in s.flags \/ (s.trans # <<>> /\ s.trans[1].tunnel)

\* A tunnel waits only for an operation of the cache, and so does the end of a
\* response; before the cache is used its reader stops at the body.
Waits(s) ==
    /\ "pend_tunnel" \in s.flags => s.csm \in Waiting
    /\ s.csm \in Deciding \cup {"wait_body_data"} => "trans_completed" \notin s.flags
    /\ s.csm \in {"cache_write", "cache_idle_wr"} /\ "trans_completed" \in s.flags
            /\ "pend_tunnel" \notin s.flags => RespCompleted(s.trans[1])
    /\ s.csm = "wait_body_data" =>
            /\ s.org_cache_rdr <= s.origin_rdr
            /\ s.trans # <<>> /\ s.trans[1].at > 0 => s.org_cache_rdr < s.trans[1].at

\* What has been sent and is to be sent, to the origin and to the client.
ToOrigin(s) == s.client_rbuf_rdr + s.origin_pending
ToClient(s) == s.origin_rbuf_rdr + s.client_pending

\* Only what the handler has read is passed on; the bytes of the later requests
\* are held back, all of them while no tunnel is pending.
Ledger(s) ==
    /\ ToOrigin(s) <= s.client_rdr /\ ToClient(s) <= s.origin_rdr
    /\ ToOrigin(s) + Later(s.trans) <= s.client_recv
    /\ \/ ToOrigin(s) + Later(s.trans) <= s.client_rdr
       \/ s.trans # <<>> /\ s.trans[Len(s.trans)].req_state = "bad"
       \/ "cln_recv_eof" \in s.sm
    /\ "pend_tunnel" \notin s.flags =>
            /\ ToOrigin(s) + Later(s.trans) = s.client_rdr
            /\ \A k \in DOMAIN s.trans : s.trans[k].req_state # "bad"

\* All of it, while there is no tunnel.
Hand(s) == /\ OpFits(s) /\ Paused(s) /\ Cached(s) /\ Asked(s)
           /\ Place(s) /\ Bytes(s) /\ Entry(s) /\ Waits(s) /\ Ledger(s)

\* Where the connection stands: the two sides connect together, and before that
\* nothing is read; a direction is shut only after its stream ended.
Steps(s) ==
    /\ "org_recv_start" \in s.sm <=> "org_send_start" \in s.sm
    /\ "org_recv_conn" \in s.sm <=> "org_send_conn" \in s.sm
    /\ ~Up(s.sm) => /\ "cln_recv_idle" \in s.sm /\ "cln_send_idle" \in s.sm
                    /\ ~s.tunnel /\ s.csm = "wait_body_data"
    /\ ShutC(s.sm) => "org_recv_eof" \in s.sm
    /\ ShutO(s.sm) => "cln_recv_eof" \in s.sm

\* A connection that is good; a tunnel uses no cache.
Good(s) == /\ Mach(s) /\ Steps(s)
           /\ Served(s)
           /\ s.tunnel => /\ s.cache_op = "none" /\ s.wrote = <<>>
                          /\ s.csm = "cache_closed"
                          /\ s.client_rdr = 0 /\ s.origin_rdr = 0
           /\ ~s.tunnel => Hand(s)
\* The origin's bytes came in order, none lost and none twice.
Intact(s) == \A i \in DOMAIN s.origin_recv : s.origin_recv[i] = i

\* The invariant.
IInv == conn.bug = {} /\ Intact(conn) /\ Good(conn)

-----------------------------------------------------------------------------
(* Blind tunnels and the switch to the cache.                              *)

\* The connection is connected.
Online(s) == /\ Mach(s) /\ Up(s.sm)
             /\ "org_send_start" \notin s.sm /\ "org_send_conn" \notin s.sm
\* No direction is shut that was not.
Quiet(s, t) == (ShutC(t.sm) => ShutC(s.sm)) /\ (ShutO(t.sm) => ShutO(s.sm))

\* The states each part of the connection goes through.
ClnEndX == {"cln_closed", "cln_pend_close", "cln_pend_shut", "cln_send_shut",
            "cln_wait_end"}
OrgEndX == {"org_closed", "org_pend_close", "org_pend_shut", "org_send_shut",
            "org_wait_end"}
LegsX == {"org_recv_paused", "org_recv_idle", "org_recv", "org_send_idle",
          "org_send", "cln_recv_idle", "cln_recv", "cln_send_idle", "cln_send"}
TunnelX == LegsX \cup ClnEndX \cup OrgEndX
TunnelF == {"flags", "trans", "client_rdr", "origin_rdr", "org_cache_rdr",
            "handle", "writing", "wrote", "tunnel", "csm", "client_pending",
            "origin_pending"}

\* A connection that is connected stays so.
LEMMA OnlineKept ==
    ASSUME NEW s, Online(s), NEW t, NEW X, NEW F, Does(s, t, X, F), X \subseteq TunnelX
    PROVE  Online(t)
  BY DEF Online, Does, Only, Up, TunnelX, LegsX, ClnEndX, OrgEndX

\* The tunnel passes on what comes from the origin.
LEMMA TunnelOrgDoes ==
    ASSUME NEW s, Online(s)
    PROVE  LET t == TunnelOrg(s) IN
           Does(s, t, LegsX \cup ClnEndX, {}) /\ Quiet(s, t)
<1> DEFINE r == IF IsOrgStrmPaused(s) THEN ProcessEvent(s, "org_recv_resume") ELSE s
           a == ProcessEvent(r, "org_recv")
           b == ProcessEvent(a, "org_send")
           c == ProcessEvent(s, "cln_close")
<1>1. TunnelOrg(s) = IF HasOrgErr(s) THEN c ELSE b
  BY DEF TunnelOrg, ProcessEvents
<1>2. Mach(s)
  BY DEF Online
<1>3. Does(s, c, ClnEndX, {}) /\ Quiet(s, c)
  <2>1. Does(s, c, ClnEndX, {}) /\ (ShutC(c.sm) => ShutC(s.sm))
    BY <1>2, EvClnClose DEF ClnEndX
  <2> QED
    BY <2>1 DEF Quiet, ShutO, Does, Only, ClnEndX
<1>4. Does(s, r, {"org_recv", "org_recv_idle", "org_recv_paused"}, {})
  BY <1>2, EvOrgRecvResume, SameDoes DEF IsOrgStrmPaused, Does, Only, Keep
<1> HIDE DEF r
<1>5. Online(r)
  BY <1>4, OnlineKept DEF TunnelX, LegsX
<1>6. Does(r, a, {"org_recv", "org_recv_idle"}, {})
  BY <1>5, EvOrgRecv DEF Online
<1> HIDE DEF a
<1>7. Online(a)
  BY <1>5, <1>6, OnlineKept DEF TunnelX, LegsX
<1>8. Does(a, b, {"org_send", "org_send_idle"}, {})
  BY <1>7, EvOrgSend DEF Online
<1> HIDE DEF b, c
<1>9. Does(s, b, LegsX, {})
  BY <1>4, <1>6, <1>8 DEF Does, Only, Keep, LegsX
<1>10. Quiet(s, b)
  BY <1>9 DEF Quiet, ShutC, ShutO, Does, Only, LegsX
<1> QED
  BY <1>1, <1>3, <1>9, <1>10 DEF Does, Only

\* The tunnel passes on what comes from the client.
LEMMA TunnelClnDoes ==
    ASSUME NEW s, Mach(s)
    PROVE  LET t == TunnelCln(s) IN
           Does(s, t, LegsX \cup OrgEndX, {}) /\ Quiet(s, t)
<1> DEFINE a == ProcessEvent(s, "cln_recv")
           b == ProcessEvent(a, "cln_send")
           c == ProcessEvent(s, "org_close")
<1>1. TunnelCln(s) = IF HasClnErr(s) THEN c ELSE b
  BY DEF TunnelCln, ProcessEvents
<1>3. Does(s, c, OrgEndX, {}) /\ Quiet(s, c)
  <2>1. Does(s, c, OrgEndX, {}) /\ (ShutO(c.sm) => ShutO(s.sm))
    BY EvOrgClose DEF OrgEndX
  <2> QED
    BY <2>1 DEF Quiet, ShutC, Does, Only, OrgEndX
<1>6. Does(s, a, {"cln_recv", "cln_recv_idle"}, {})
  BY EvClnRecv
<1> HIDE DEF a
<1>8. Does(a, b, {"cln_send", "cln_send_idle"}, {})
  BY <1>6, EvClnSend DEF Does
<1> HIDE DEF b, c
<1>9. Does(s, b, LegsX, {})
  BY <1>6, <1>8 DEF Does, Only, Keep, LegsX
<1>10. Quiet(s, b)
  BY <1>9 DEF Quiet, ShutC, ShutO, Does, Only, LegsX
<1> QED
  BY <1>1, <1>3, <1>9, <1>10 DEF Does, Only

\* proxy_conn's start_blind_tunnel.
LEMMA StartBlindTunnelDoes ==
    ASSUME NEW s, Online(s)
    PROVE  LET t == StartBlindTunnel(s) IN
           /\ Does(s, t, TunnelX, {"tunnel", "client_pending", "origin_pending"})
           /\ Quiet(s, t) /\ t.tunnel
<1> DEFINE m == ClnAvail(s)
           n == OrgAvail(s)
           d == [s EXCEPT !.origin_pending = m, !.client_pending = n, !.tunnel = TRUE]
           a == TunnelOrg(d)
           t == TunnelCln(a)
<1>1. /\ m \in Int /\ n \in Int /\ s.origin_pending <= m /\ s.client_pending <= n
      /\ s.client_rbuf_rdr + m = s.client_recv
      /\ s.origin_rbuf_rdr + n = Len(s.origin_recv)
  <2>1. /\ s.client_recv \in Int /\ s.client_rbuf_rdr \in Int
        /\ Len(s.origin_recv) \in Int /\ s.origin_rbuf_rdr \in Int
        /\ s.client_pending \in Int /\ s.origin_pending \in Int
    BY DEF Online, Mach, Conns
  <2> QED
    BY <2>1 DEF ClnAvail, OrgAvail, Online, Mach, Counts
<1>2. StartBlindTunnel(s) = t
  BY DEF StartBlindTunnel
<1> HIDE DEF m, n
<1>3. s \in Conns /\ Mach(s)
  BY DEF Online, Mach
<1>4. d \in Conns
  BY <1>3, <1>1 DEF Conns
<1>5. /\ d.sm = s.sm /\ d.ops = s.ops /\ Given(d) = Given(s)
      /\ d.bug = s.bug /\ d.tunnel /\ d.origin_pending = m /\ d.client_pending = n
  BY <1>3 DEF Conns, Given
<1>6. Keep(s, d, {"tunnel", "client_pending", "origin_pending"})
  BY <1>3 DEF Conns, Keep, Fields
<1>7. Does(s, d, {}, {"tunnel", "client_pending", "origin_pending"})
  <2>1. /\ d.client_rbuf_rdr = s.client_rbuf_rdr /\ d.origin_rbuf_rdr = s.origin_rbuf_rdr
        /\ d.client_recv = s.client_recv /\ d.origin_recv = s.origin_recv
        /\ d.org_cache_rdr = s.org_cache_rdr
    BY <1>6 DEF Keep, Fields
  <2>2. /\ s.client_pending \in Int /\ s.origin_pending \in Int
        /\ s.client_recv \in Int /\ Len(s.origin_recv) \in Int
    BY <1>3 DEF Conns
  <2>3. Counts(d)
    BY <1>1, <1>3, <1>5, <2>1, <2>2 DEF Mach, Counts
  <2> QED
    BY <1>1, <1>3, <1>4, <1>5, <1>6, <2>3, Counted
<1> HIDE DEF d
<1>8. Online(d)
  BY <1>7, OnlineKept
<1>9. Does(d, a, LegsX \cup ClnEndX, {}) /\ Quiet(d, a)
  BY <1>8, TunnelOrgDoes
<1> HIDE DEF a
<1>10. Does(a, t, LegsX \cup OrgEndX, {}) /\ Quiet(a, t)
  BY <1>9, TunnelClnDoes DEF Does
<1> HIDE DEF t
<1>11. Does(s, t, TunnelX, {"tunnel", "client_pending", "origin_pending"})
  BY <1>7, <1>9, <1>10 DEF Does, Only, Keep, TunnelX
<1>12. t.tunnel = d.tunnel
  BY <1>9, <1>10 DEF Does, Keep, Fields
<1>13. Quiet(s, t)
  BY <1>5, <1>9, <1>10 DEF Quiet
<1> QED
  BY <1>2, <1>5, <1>11, <1>12, <1>13

\* The connection is copied blindly, and the handler is gone.
Blind(t) == t.tunnel /\ t.wrote = <<>> /\ t.client_rdr = 0 /\ t.origin_rdr = 0

\* http_handler's: the transactions and the cache are given up.
LEMMA DoStartBlindTunnelDoes ==
    ASSUME NEW s, Online(s), s.cache_op = "none"
    PROVE  LET t == DoStartBlindTunnel(s) IN
           /\ Does(s, t, TunnelX, TunnelF) /\ Quiet(s, t) /\ Blind(t)
<1> DEFINE c == Check(s, s.cache_op = "none", "destroyed with an operation")
           b == StartBlindTunnel(c)
           f == {}
           q == <<>>
           t == [b EXCEPT !.flags = f, !.trans = q, !.client_rdr = 0,
               !.origin_rdr = 0, !.org_cache_rdr = 0, !.handle = "none",
               !.writing = 0, !.wrote = q]
<1>1. DoStartBlindTunnel(s) = t
  BY DEF DoStartBlindTunnel
<1>2. f \in SUBSET Flags /\ q \in Seq(Trans) /\ q \in Seq(Nat)
  OBVIOUS
<1> HIDE DEF f, q
<1>3. Does(s, c, {}, {})
  BY SameDoes DEF Check, Online
<1> HIDE DEF c
<1>4. Online(c)
  BY <1>3, OnlineKept
<1>5. Does(c, b, TunnelX, {"tunnel", "client_pending", "origin_pending"}) /\ Quiet(c, b) /\ b.tunnel
  BY <1>4, StartBlindTunnelDoes
<1> HIDE DEF b
<1>6. Mach(b) /\ b \in Conns
  BY <1>5 DEF Does, Mach
<1>7. t \in Conns
  <2> DEFINE z == 0
             h == "none"
             v == [b EXCEPT !.flags = f, !.trans = q, !.client_rdr = z,
                            !.origin_rdr = z]
             w == [v EXCEPT !.org_cache_rdr = z, !.handle = h,
                            !.writing = z, !.wrote = q]
  <2>1. z \in Nat /\ z \in Int /\ h \in {"none", "rd", "wr"}
    OBVIOUS
  <2>2. t = w
    BY <1>6 DEF Conns
  <2> HIDE DEF t, z, h
  <2>3. v \in Conns
    BY <1>6, <1>2, <2>1 DEF Conns
  <2> HIDE DEF v
  <2>4. w \in Conns
    BY <2>1, <2>3, <1>2 DEF Conns
  <2> QED
    BY <2>2, <2>4
<1>8. /\ t.sm = b.sm /\ t.ops = b.ops /\ Given(t) = Given(b)
      /\ t.bug = b.bug /\ t.tunnel = b.tunnel /\ t.wrote = q
      /\ t.client_rdr = 0 /\ t.origin_rdr = 0 /\ t.org_cache_rdr = 0
      /\ t.client_pending = b.client_pending /\ t.origin_pending = b.origin_pending
      /\ t.client_rbuf_rdr = b.client_rbuf_rdr /\ t.origin_rbuf_rdr = b.origin_rbuf_rdr
      /\ t.client_recv = b.client_recv /\ t.origin_recv = b.origin_recv
  BY <1>6 DEF Conns, Given
<1>9. Keep(b, t, TunnelF)
  BY <1>6 DEF Conns, Keep, Fields, TunnelF
<1>10. Does(b, t, {}, TunnelF)
  <2>1. /\ b.client_pending \in Int /\ b.origin_pending \in Int
        /\ Len(b.origin_recv) \in Int /\ Len(b.origin_recv) >= 0
    BY <1>6 DEF Conns
  <2>2. Counts(t)
    BY <1>6, <1>8, <2>1 DEF Mach, Counts
  <2>3. b.client_pending <= t.client_pending /\ b.origin_pending <= t.origin_pending
    BY <1>8, <2>1
  <2> HIDE DEF t
  <2> QED
    BY <1>6, <1>7, <1>8, <1>9, <2>2, <2>3, Counted
<1> HIDE DEF t
<1>11. Does(s, t, TunnelX, TunnelF)
  BY <1>3, <1>5, <1>10 DEF Does, Only, Keep, TunnelF
<1>12. Quiet(s, t)
  BY <1>3, <1>5, <1>8 DEF Quiet, Does, Only, ShutC, ShutO
<1> QED
  BY <1>1, <1>5, <1>8, <1>11, <1>12 DEF q, Blind

\* do_switch_org_stream: the cache takes the origin's place.
LEMMA DoSwitchOrgStreamDoes ==
    ASSUME NEW s, Mach(s), "org_recv_paused" \in s.sm, s.handle = "rd"
    PROVE  LET t == DoSwitchOrgStream(s) IN
           /\ Does(s, t, ResumeX, {"strm", "flags", "handle"})
           /\ t.strm = "cache" /\ "org_recv_paused" \notin t.sm
           /\ t.flags = s.flags \ {"recv_paused", "bpctrl_added"}
           /\ t.handle = "none"
<1> DEFINE c == Check(s, s.handle = "rd", "read handle")
           b == RemBpEntry(c)
           a == Check(b, IsOrgStrmPaused(b), "switch while not paused")
           d == [a EXCEPT !.strm = "cache", !.org_open = TRUE, !.handle = "none"]
           e == ProcessEvent(d, "org_recv_resume")
           t == Clear(e, "recv_paused")
<1>1. Does(s, c, {}, {})
  BY SameDoes DEF Check
<1>2. [SwitchOrgStream(b) EXCEPT !.handle = "none"] =
            [[a EXCEPT !.strm = "cache", !.org_open = TRUE] EXCEPT !.handle = "none"]
  BY DEF SwitchOrgStream
<1> HIDE DEF c
<1>3. Does(c, b, {}, {"flags"}) /\ b.flags = c.flags \ {"bpctrl_added"}
  BY <1>1, SetEffect DEF Does, RemBpEntry, Flags
<1> HIDE DEF b
<1>4. Does(b, a, {}, {})
  BY <1>1, <1>3, SameDoes DEF Check, IsOrgStrmPaused, Does, Only
<1> HIDE DEF a
<1>5. a \in Conns /\ Mach(a)
  BY <1>4 DEF Does, Mach
<1>6. DoSwitchOrgStream(s) = t
  <2>1. [[a EXCEPT !.strm = "cache", !.org_open = TRUE] EXCEPT !.handle = "none"] = d
    BY <1>5 DEF Conns
  <2> HIDE DEF d
  <2> QED
    BY <1>2, <2>1 DEF DoSwitchOrgStream, b, c
<1>7. d \in Conns
  BY <1>5 DEF Conns
<1>8. /\ d.sm = a.sm /\ d.ops = a.ops /\ Given(d) = Given(a)
      /\ d.bug = a.bug /\ d.strm = "cache" /\ d.handle = "none"
  BY <1>5 DEF Conns, Given
<1>9. Keep(a, d, {"strm", "handle"})
  BY <1>5 DEF Conns, Keep, Fields
<1>10. Does(a, d, {}, {"strm", "handle"})
  BY <1>5, <1>7, <1>8, <1>9, Updated DEF CountF
<1> HIDE DEF d
<1>11. "org_recv_paused" \in d.sm /\ Mach(d)
  BY <1>1, <1>3, <1>4, <1>10 DEF Does, Only
<1>12. Does(d, e, ResumeX, {}) /\ "org_recv_paused" \notin e.sm
  BY <1>11, EvOrgRecvResume DEF ResumeX, Does, Only
<1> HIDE DEF e
<1>13. Does(e, t, {}, {"flags"}) /\ t.flags = e.flags \ {"recv_paused"}
  BY <1>12, SetEffect DEF Does, Flags
<1> HIDE DEF t
<1>14. Does(s, t, ResumeX, {"strm", "flags", "handle"})
  BY <1>1, <1>3, <1>4, <1>10, <1>12, <1>13 DEF Does, Only, Keep
<1>15. t.strm = "cache" /\ t.handle = "none"
  BY <1>8, <1>12, <1>13 DEF Does, Keep, Fields
<1>16. e.flags = b.flags /\ c.flags = s.flags
  BY <1>1, <1>4, <1>10, <1>12 DEF Does, Keep, Fields
<1> QED
  BY <1>3, <1>6, <1>12, <1>13, <1>14, <1>15, <1>16 DEF Does, Only

-----------------------------------------------------------------------------
(* The rows of http_handler's machine.                                     *)

\* The rows of the handler's table that apply.
Fits(s, ev, t) == /\ t.ev = ev /\ t.from = s.csm
                  /\ t.pend \in {"any", Value(Has(s, "pend_tunnel"))}
                  /\ t.data \in {"any", Value(HasCacheWrData(s))}
\* One row applies, or rows that do the same.
Sole(s, ev, acts, to) ==
    /\ \E t \in HandlerTable : Fits(s, ev, t)
    /\ \A t \in HandlerTable : Fits(s, ev, t) => t.acts = acts /\ t.to = to

\* Then the handler does what it says.
LEMMA TakeRow ==
    ASSUME NEW s, NEW ev, NEW acts, NEW to, Sole(s, ev, acts, to)
    PROVE  HandlerEvent(s, ev) = [HandlerActs(s, acts) EXCEPT !.csm = to]
<1> DEFINE rows == {t \in HandlerRows[ev] : /\ t.from = s.csm
                         /\ t.pend \in {"any", Value(Has(s, "pend_tunnel"))}
                         /\ t.data \in {"any", Value(HasCacheWrData(s))}}
           row == CHOOSE t \in rows : TRUE
<1>1. PICK r \in HandlerTable : Fits(s, ev, r)
  BY DEF Sole
<1>2. ev \in {t.ev : t \in HandlerTable}
  BY <1>1 DEF Fits
<1>3. HandlerRows[ev] = {t \in HandlerTable : t.ev = ev}
  BY <1>2 DEF HandlerRows
<1>4. rows = {t \in HandlerTable : Fits(s, ev, t)}
  BY <1>3 DEF Fits
<1>5. HandlerEvent(s, ev) = Take(s, rows)
  BY DEF HandlerEvent
<1> HIDE DEF rows
<1>6. row \in rows
  BY <1>1, <1>4
<1>7. row.acts = acts /\ row.to = to
  BY <1>4, <1>6 DEF Sole
<1>8. Take(s, rows) = [HandlerActs(s, row.acts) EXCEPT !.csm = row.to]
  BY <1>1, <1>4 DEF Take
<1> HIDE DEF row
<1> QED
  BY <1>5, <1>7, <1>8

\* The handler goes to another state.
LEMMA SetCsm ==
    ASSUME NEW u, Mach(u), NEW to \in Csms
    PROVE  LET t == [u EXCEPT !.csm = to] IN
           Does(u, t, {}, {"csm"}) /\ t.csm = to
<1> DEFINE t == [u EXCEPT !.csm = to]
<1>2. u \in Conns
  BY DEF Mach
<1>3. t \in Conns
  BY <1>2 DEF Conns
<1>4. /\ t.sm = u.sm /\ t.ops = u.ops /\ Given(t) = Given(u)
      /\ t.bug = u.bug /\ t.csm = to
  BY <1>2 DEF Conns, Given
<1>5. Keep(u, t, {"csm"})
  BY <1>2 DEF Conns, Keep, Fields
<1> QED
  BY <1>3, <1>4, <1>5, Updated DEF CountF

\* The row's actions, then its state.
LEMMA TakeDoes ==
    ASSUME NEW s, NEW ev, NEW acts, NEW to \in Csms, Sole(s, ev, acts, to),
           NEW u, u = HandlerActs(s, acts), Mach(u)
    PROVE  LET t == HandlerEvent(s, ev) IN
           Does(u, t, {}, {"csm"}) /\ t.csm = to
<1>1. HandlerEvent(s, ev) = [u EXCEPT !.csm = to]
  BY TakeRow
<1> QED
  BY <1>1, SetCsm

\* The actions of a row are done one after the other.
LEMMA ActsRun ==
    ASSUME NEW s, NEW acts, NEW n \in 0..2, Len(acts) = n
    PROVE  \E f : /\ HandlerActs(s, acts) = f[n] /\ f[0] = s
                  /\ \A i \in 1..n : f[i] = HandlerAct(f[i - 1], acts[i])
<1> DEFINE one == HandlerAct(s, acts[1])
           two == HandlerAct(one, acts[2])
           Def(f) == [i \in 0..n |-> IF i = 0 THEN s ELSE HandlerAct(f[i - 1], acts[i])]
           g == [i \in 0..n |-> IF i = 0 THEN s ELSE IF i = 1 THEN one ELSE two]
           f == CHOOSE f : f = Def(f)
<1>1. HandlerActs(s, acts) = f[n]
  BY Zenon DEF HandlerActs
<1>2. ASSUME NEW i \in 0..n, i # 0
      PROVE  g[i] = HandlerAct(g[i - 1], acts[i])
  <2>1. CASE i = 1
    <3>1. g[0] = s /\ g[1] = one
      BY <2>1
    <3> QED
      BY <2>1, <3>1
  <2>2. CASE i = 2
    <3>1. g[1] = one /\ g[2] = two
      BY <2>2
    <3> QED
      BY <2>2, <3>1
  <2> QED
    BY <1>2, <2>1, <2>2
<1>3. g[0] = s
  OBVIOUS
<1>4. g = [i \in 0..n |-> g[i]]
  OBVIOUS
<1> HIDE DEF g
<1>5. g = Def(g)
  BY <1>2, <1>3, <1>4
<1>6. f = Def(f)
  BY <1>5
<1> HIDE DEF f
<1>7. f[0] = s
  BY <1>6
<1>8. ASSUME NEW i \in 1..n
      PROVE  f[i] = HandlerAct(f[i - 1], acts[i])
  <2>1. i \in 0..n /\ i # 0
    OBVIOUS
  <2> QED
    BY <1>6, <2>1
<1> QED
  BY <1>1, <1>7, <1>8

\* No action.
LEMMA ActNone ==
    ASSUME NEW s
    PROVE  HandlerActs(s, <<>>) = s
<1>1. Len(<<>>) = 0
  OBVIOUS
<1> QED
  BY <1>1, ActsRun

\* One action.
LEMMA ActOne ==
    ASSUME NEW s, NEW a
    PROVE  HandlerActs(s, <<a>>) = HandlerAct(s, a)
<1>1. Len(<<a>>) = 1 /\ <<a>>[1] = a
  OBVIOUS
<1>2. PICK f : /\ HandlerActs(s, <<a>>) = f[1] /\ f[0] = s
               /\ \A i \in 1..1 : f[i] = HandlerAct(f[i - 1], <<a>>[i])
  BY <1>1, ActsRun
<1>3. f[1] = HandlerAct(f[0], <<a>>[1])
  BY <1>2
<1> QED
  BY <1>1, <1>2, <1>3

\* Two actions.
LEMMA ActTwo ==
    ASSUME NEW s, NEW a, NEW b
    PROVE  HandlerActs(s, <<a, b>>) = HandlerAct(HandlerAct(s, a), b)
<1>1. Len(<<a, b>>) = 2 /\ <<a, b>>[1] = a /\ <<a, b>>[2] = b
  OBVIOUS
<1>2. PICK f : /\ HandlerActs(s, <<a, b>>) = f[2] /\ f[0] = s
               /\ \A i \in 1..2 : f[i] = HandlerAct(f[i - 1], <<a, b>>[i])
  BY <1>1, ActsRun
<1>3. f[1] = HandlerAct(f[0], <<a, b>>[1]) /\ f[2] = HandlerAct(f[1], <<a, b>>[2])
  BY <1>2
<1> QED
  BY <1>1, <1>2, <1>3

\* The method each action stands for.
LEMMA ActIs ==
    ASSUME NEW s
    PROVE  /\ HandlerAct(s, "pause_org_recv") = PauseOrgRecv(s)
           /\ HandlerAct(s, "resume_org_recv") = ResumeOrgRecv(s)
           /\ HandlerAct(s, "consume_cache_hdrs_data") = ConsumeCacheHdrsData(s)
           /\ HandlerAct(s, "consume_cache_data") = ConsumeCacheData(s)
           /\ HandlerAct(s, "cache_open_rd") = CacheOpenRd(s)
           /\ HandlerAct(s, "cache_read_compare") = CacheReadCompare(s)
           /\ HandlerAct(s, "cache_open_wr") = CacheOpenWr(s)
           /\ HandlerAct(s, "cache_reopen_wr_truncate") = CacheReopenWrTruncate(s)
           /\ HandlerAct(s, "cache_write") = CacheWrite(s)
           /\ HandlerAct(s, "cache_close") = CacheClose(s)
           /\ HandlerAct(s, "set_trans_completed") = Set(s, "trans_completed")
           /\ HandlerAct(s, "fin_trans_send_next") = FinTransSendNext(s)
           /\ HandlerAct(s, "set_pend_blind_tunnel") = Set(s, "pend_tunnel")
           /\ HandlerAct(s, "rem_bpctrl_entry") = RemBpEntry(s)
           /\ HandlerAct(s, "start_blind_tunnel") = DoStartBlindTunnel(s)
           /\ HandlerAct(s, "switch_org_stream") = DoSwitchOrgStream(s)
  BY DEF HandlerAct

\* Bytes of the origin before the cache is used.
LEMMA OrgDataWait ==
    ASSUME NEW s, s.csm = "wait_body_data"
    PROVE  Sole(s, "org_data", <<"consume_cache_hdrs_data">>, "wait_body_data")
<1> DEFINE r == Always("wait_body_data", "org_data", <<"consume_cache_hdrs_data">>,
        "wait_body_data")
<1>1. r \in HandlerTable
  BY DEF HandlerTable, ReadTable, WriteTable, TunnelTable, CloseAndTunnel
<1>2. Fits(s, "org_data", r)
  BY DEF Fits, Row, Always
<1>3. \A t \in HandlerTable : t.ev = "org_data" /\ t.from = "wait_body_data"
            => t.acts = <<"consume_cache_hdrs_data">> /\ t.to = "wait_body_data"
  BY DEF HandlerTable, ReadTable, EndTable, WriteTable, TunnelTable, Row, Always, Running,
      Pending, WithData, NoData,
     CloseAndTunnel, CloseAndResume
<1> QED
  BY <1>1, <1>2, <1>3 DEF Sole, Fits

\* A transaction the cache is not used for.
LEMMA SkipWait ==
    ASSUME NEW s, s.csm = "wait_body_data"
    PROVE  Sole(s, "skip_trans", <<>>, "cache_closed")
<1> DEFINE r == Always("wait_body_data", "skip_trans", <<>>, "cache_closed")
<1>1. r \in HandlerTable
  BY DEF HandlerTable, ReadTable, WriteTable, TunnelTable, CloseAndTunnel
<1>2. Fits(s, "skip_trans", r)
  BY DEF Fits, Row, Always
<1>3. \A t \in HandlerTable : t.ev = "skip_trans" /\ t.from = "wait_body_data"
            => t.acts = <<>> /\ t.to = "cache_closed"
  BY DEF HandlerTable, ReadTable, EndTable, WriteTable, TunnelTable, Row, Always, Running,
      Pending, WithData, NoData,
     CloseAndTunnel, CloseAndResume
<1> QED
  BY <1>1, <1>2, <1>3 DEF Sole, Fits

\* A transaction that ends before the cache is used.
LEMMA CompletedWait ==
    ASSUME NEW s, s.csm = "wait_body_data"
    PROVE  Sole(s, "trans_completed", <<"consume_cache_data", "fin_trans_send_next">>,
        "wait_body_data")
<1> DEFINE r == Always("wait_body_data", "trans_completed", <<"consume_cache_data",
        "fin_trans_send_next">>, "wait_body_data")
<1>1. r \in HandlerTable
  BY DEF HandlerTable, ReadTable, WriteTable, TunnelTable, CloseAndTunnel
<1>2. Fits(s, "trans_completed", r)
  BY DEF Fits, Row, Always
<1>3. \A t \in HandlerTable : t.ev = "trans_completed" /\ t.from = "wait_body_data"
            => t.acts = <<"consume_cache_data",
                "fin_trans_send_next">> /\ t.to = "wait_body_data"
  BY DEF HandlerTable, ReadTable, EndTable, WriteTable, TunnelTable, Row, Always, Running,
      Pending, WithData, NoData,
     CloseAndTunnel, CloseAndResume
<1> QED
  BY <1>1, <1>2, <1>3 DEF Sole, Fits

\* The cache is asked for the object.
LEMMA OpenRdWait ==
    ASSUME NEW s, s.csm = "wait_body_data"
    PROVE  Sole(s, "cache_open_rd", <<"pause_org_recv", "cache_open_rd">>, "cache_open_rd")
<1> DEFINE r == Always("wait_body_data", "cache_open_rd", <<"pause_org_recv",
        "cache_open_rd">>, "cache_open_rd")
<1>1. r \in HandlerTable
  BY DEF HandlerTable, ReadTable, WriteTable, TunnelTable, CloseAndTunnel
<1>2. Fits(s, "cache_open_rd", r)
  BY DEF Fits, Row, Always
<1>3. \A t \in HandlerTable : t.ev = "cache_open_rd" /\ t.from = "wait_body_data"
            => t.acts = <<"pause_org_recv", "cache_open_rd">> /\ t.to = "cache_open_rd"
  BY DEF HandlerTable, ReadTable, EndTable, WriteTable, TunnelTable, Row, Always, Running,
      Pending, WithData, NoData,
     CloseAndTunnel, CloseAndResume
<1> QED
  BY <1>1, <1>2, <1>3 DEF Sole, Fits

\* The object is in the cache.
LEMMA DoneOpenRd ==
    ASSUME NEW s, s.csm = "cache_open_rd", "pend_tunnel" \notin s.flags
    PROVE  Sole(s, "cache_op_done", <<"cache_read_compare">>, "cache_compare")
<1> DEFINE r == Running("cache_open_rd", "cache_op_done", <<"cache_read_compare">>,
        "cache_compare")
<1>1. r \in HandlerTable
  BY DEF HandlerTable, ReadTable, WriteTable, TunnelTable, CloseAndTunnel
<1>2. Fits(s, "cache_op_done", r)
  BY DEF Fits, Row, Running, Value, Has
<1>3. \A t \in HandlerTable : t.ev = "cache_op_done" /\ t.from = "cache_open_rd" /\ t.pend # "yes"
            => t.acts = <<"cache_read_compare">> /\ t.to = "cache_compare"
  BY DEF HandlerTable, ReadTable, EndTable, WriteTable, TunnelTable, Row, Always, Running,
      Pending, WithData, NoData,
     CloseAndTunnel, CloseAndResume
<1> QED
  BY <1>1, <1>2, <1>3 DEF Sole, Fits, Value, Has

\* It isn't.
LEMMA NextOpenRd ==
    ASSUME NEW s, s.csm = "cache_open_rd", "pend_tunnel" \notin s.flags
    PROVE  Sole(s, "cache_op_next", <<"cache_close", "cache_open_wr">>, "cache_open_wr")
<1> DEFINE r == Running("cache_open_rd", "cache_op_next", <<"cache_close", "cache_open_wr">>,
        "cache_open_wr")
<1>1. r \in HandlerTable
  BY DEF HandlerTable, ReadTable, WriteTable, TunnelTable, CloseAndTunnel
<1>2. Fits(s, "cache_op_next", r)
  BY DEF Fits, Row, Running, Value, Has
<1>3. \A t \in HandlerTable : t.ev = "cache_op_next" /\ t.from = "cache_open_rd" /\ t.pend # "yes"
            => t.acts = <<"cache_close", "cache_open_wr">> /\ t.to = "cache_open_wr"
  BY DEF HandlerTable, ReadTable, EndTable, WriteTable, TunnelTable, Row, Always, Running,
      Pending, WithData, NoData,
     CloseAndTunnel, CloseAndResume
<1> QED
  BY <1>1, <1>2, <1>3 DEF Sole, Fits, Value, Has

\* The cache has what the origin has sent.
LEMMA OkCompare ==
    ASSUME NEW s, s.csm = "cache_compare", "pend_tunnel" \notin s.flags
    PROVE  Sole(s, "compare_ok", <<"consume_cache_data", "switch_org_stream">>, "cache_read")
<1> DEFINE r == Running("cache_compare", "compare_ok", <<"consume_cache_data",
        "switch_org_stream">>, "cache_read")
<1>1. r \in HandlerTable
  BY DEF HandlerTable, ReadTable, WriteTable, TunnelTable, CloseAndTunnel
<1>2. Fits(s, "compare_ok", r)
  BY DEF Fits, Row, Running, Value, Has
<1>3. \A t \in HandlerTable : t.ev = "compare_ok" /\ t.from = "cache_compare" /\ t.pend # "yes"
            => t.acts = <<"consume_cache_data", "switch_org_stream">> /\ t.to = "cache_read"
  BY DEF HandlerTable, ReadTable, EndTable, WriteTable, TunnelTable, Row, Always, Running,
      Pending, WithData, NoData,
     CloseAndTunnel, CloseAndResume
<1> QED
  BY <1>1, <1>2, <1>3 DEF Sole, Fits, Value, Has

\* It has something else.
LEMMA FailCompare ==
    ASSUME NEW s, s.csm = "cache_compare", "pend_tunnel" \notin s.flags
    PROVE  Sole(s, "compare_fail", <<"cache_reopen_wr_truncate">>, "cache_open_wr")
<1> DEFINE r == Running("cache_compare", "compare_fail", <<"cache_reopen_wr_truncate">>,
        "cache_open_wr")
<1>1. r \in HandlerTable
  BY DEF HandlerTable, ReadTable, WriteTable, TunnelTable, CloseAndTunnel
<1>2. Fits(s, "compare_fail", r)
  BY DEF Fits, Row, Running, Value, Has
<1>3. \A t \in HandlerTable : t.ev = "compare_fail" /\ t.from = "cache_compare" /\ t.pend # "yes"
            => t.acts = <<"cache_reopen_wr_truncate">> /\ t.to = "cache_open_wr"
  BY DEF HandlerTable, ReadTable, EndTable, WriteTable, TunnelTable, Row, Always, Running,
      Pending, WithData, NoData,
     CloseAndTunnel, CloseAndResume
<1> QED
  BY <1>1, <1>2, <1>3 DEF Sole, Fits, Value, Has

\* Bytes the cache serves.
LEMMA OrgDataRead ==
    ASSUME NEW s, s.csm = "cache_read"
    PROVE  Sole(s, "org_data", <<"consume_cache_data">>, "cache_read")
<1> DEFINE r == Always("cache_read", "org_data", <<"consume_cache_data">>, "cache_read")
<1>1. r \in HandlerTable
  BY DEF HandlerTable, ReadTable, WriteTable, TunnelTable, CloseAndTunnel
<1>2. Fits(s, "org_data", r)
  BY DEF Fits, Row, Always
<1>3. \A t \in HandlerTable : t.ev = "org_data" /\ t.from = "cache_read"
            => t.acts = <<"consume_cache_data">> /\ t.to = "cache_read"
  BY DEF HandlerTable, ReadTable, EndTable, WriteTable, TunnelTable, Row, Always, Running,
      Pending, WithData, NoData,
     CloseAndTunnel, CloseAndResume
<1> QED
  BY <1>1, <1>2, <1>3 DEF Sole, Fits

\* All of the object has been served.
LEMMA CompletedRead ==
    ASSUME NEW s, s.csm = "cache_read"
    PROVE  Sole(s, "trans_completed", <<"set_trans_completed">>, "cache_read")
<1> DEFINE r == Always("cache_read", "trans_completed", <<"set_trans_completed">>, "cache_read")
<1>1. r \in HandlerTable
  BY DEF HandlerTable, ReadTable, WriteTable, TunnelTable, CloseAndTunnel
<1>2. Fits(s, "trans_completed", r)
  BY DEF Fits, Row, Always
<1>3. \A t \in HandlerTable : t.ev = "trans_completed" /\ t.from = "cache_read"
            => t.acts = <<"set_trans_completed">> /\ t.to = "cache_read"
  BY DEF HandlerTable, ReadTable, EndTable, WriteTable, TunnelTable, Row, Always, Running,
      Pending, WithData, NoData,
     CloseAndTunnel, CloseAndResume
<1> QED
  BY <1>1, <1>2, <1>3 DEF Sole, Fits

\* The cache has no more bytes.
LEMMA DoneRead ==
    ASSUME NEW s, s.csm = "cache_read"
    PROVE  Sole(s, "cache_op_done", <<>>, "cache_closed")
<1> DEFINE r == Always("cache_read", "cache_op_done", <<>>, "cache_closed")
<1>1. r \in HandlerTable
  BY DEF HandlerTable, ReadTable, WriteTable, TunnelTable, CloseAndTunnel
<1>2. Fits(s, "cache_op_done", r)
  BY DEF Fits, Row, Always
<1>3. \A t \in HandlerTable : t.ev = "cache_op_done" /\ t.from = "cache_read"
            => t.acts = <<>> /\ t.to = "cache_closed"
  BY DEF HandlerTable, ReadTable, EndTable, WriteTable, TunnelTable, Row, Always, Running,
      Pending, WithData, NoData,
     CloseAndTunnel, CloseAndResume
<1> QED
  BY <1>1, <1>2, <1>3 DEF Sole, Fits

\* The object can be written, and there are bytes to write.
LEMMA DoneOpenWrData ==
    ASSUME NEW s, s.csm = "cache_open_wr", "pend_tunnel" \notin s.flags, HasCacheWrData(s)
    PROVE  Sole(s, "cache_op_done", <<"resume_org_recv", "cache_write">>, "cache_write")
<1> DEFINE r == WithData("cache_open_wr", "cache_op_done", <<"resume_org_recv",
        "cache_write">>, "cache_write")
<1>1. r \in HandlerTable
  BY DEF HandlerTable, ReadTable, WriteTable, TunnelTable, CloseAndTunnel
<1>2. Fits(s, "cache_op_done", r)
  BY DEF Fits, Row, WithData, Value, Has
<1>3. \A t \in HandlerTable : t.ev = "cache_op_done" /\ t.from = "cache_open_wr" /\ t.pend # "yes" /\ t.data # "no"
            => t.acts = <<"resume_org_recv", "cache_write">> /\ t.to = "cache_write"
  BY DEF HandlerTable, ReadTable, EndTable, WriteTable, TunnelTable, Row, Always, Running,
      Pending, WithData, NoData,
     CloseAndTunnel, CloseAndResume
<1> QED
  BY <1>1, <1>2, <1>3 DEF Sole, Fits, Value, Has

\* The object can be written, and there are no bytes yet.
LEMMA DoneOpenWrIdle ==
    ASSUME NEW s, s.csm = "cache_open_wr", "pend_tunnel" \notin s.flags, ~HasCacheWrData(s)
    PROVE  Sole(s, "cache_op_done", <<"resume_org_recv">>, "cache_idle_wr")
<1> DEFINE r == NoData("cache_open_wr", "cache_op_done", <<"resume_org_recv">>, "cache_idle_wr")
<1>1. r \in HandlerTable
  BY DEF HandlerTable, ReadTable, WriteTable, TunnelTable, CloseAndTunnel
<1>2. Fits(s, "cache_op_done", r)
  BY DEF Fits, Row, NoData, Value, Has
<1>3. \A t \in HandlerTable : t.ev = "cache_op_done" /\ t.from = "cache_open_wr" /\ t.pend # "yes" /\ t.data # "yes"
            => t.acts = <<"resume_org_recv">> /\ t.to = "cache_idle_wr"
  BY DEF HandlerTable, ReadTable, EndTable, WriteTable, TunnelTable, Row, Always, Running,
      Pending, WithData, NoData,
     CloseAndTunnel, CloseAndResume
<1> QED
  BY <1>1, <1>2, <1>3 DEF Sole, Fits, Value, Has

\* Bytes to write.
LEMMA OrgDataIdle ==
    ASSUME NEW s, s.csm = "cache_idle_wr"
    PROVE  Sole(s, "org_data", <<"cache_write">>, "cache_write")
<1> DEFINE r == Always("cache_idle_wr", "org_data", <<"cache_write">>, "cache_write")
<1>1. r \in HandlerTable
  BY DEF HandlerTable, ReadTable, WriteTable, TunnelTable, CloseAndTunnel
<1>2. Fits(s, "org_data", r)
  BY DEF Fits, Row, Always
<1>3. \A t \in HandlerTable : t.ev = "org_data" /\ t.from = "cache_idle_wr"
            => t.acts = <<"cache_write">> /\ t.to = "cache_write"
  BY DEF HandlerTable, ReadTable, EndTable, WriteTable, TunnelTable, Row, Always, Running,
      Pending, WithData, NoData,
     CloseAndTunnel, CloseAndResume
<1> QED
  BY <1>1, <1>2, <1>3 DEF Sole, Fits

\* Bytes that wait for the write before them.
LEMMA OrgDataWrite ==
    ASSUME NEW s, s.csm = "cache_write"
    PROVE  Sole(s, "org_data", <<>>, "cache_write")
<1> DEFINE r == Always("cache_write", "org_data", <<>>, "cache_write")
<1>1. r \in HandlerTable
  BY DEF HandlerTable, ReadTable, WriteTable, TunnelTable, CloseAndTunnel
<1>2. Fits(s, "org_data", r)
  BY DEF Fits, Row, Always
<1>3. \A t \in HandlerTable : t.ev = "org_data" /\ t.from = "cache_write"
            => t.acts = <<>> /\ t.to = "cache_write"
  BY DEF HandlerTable, ReadTable, EndTable, WriteTable, TunnelTable, Row, Always, Running,
      Pending, WithData, NoData,
     CloseAndTunnel, CloseAndResume
<1> QED
  BY <1>1, <1>2, <1>3 DEF Sole, Fits

\* The response ends while its bytes are being written.
LEMMA CompletedWrite ==
    ASSUME NEW s, s.csm = "cache_write"
    PROVE  Sole(s, "trans_completed", <<"set_trans_completed">>, "cache_write")
<1> DEFINE r == Always("cache_write", "trans_completed", <<"set_trans_completed">>,
        "cache_write")
<1>1. r \in HandlerTable
  BY DEF HandlerTable, ReadTable, WriteTable, TunnelTable, CloseAndTunnel
<1>2. Fits(s, "trans_completed", r)
  BY DEF Fits, Row, Always
<1>3. \A t \in HandlerTable : t.ev = "trans_completed" /\ t.from = "cache_write"
            => t.acts = <<"set_trans_completed">> /\ t.to = "cache_write"
  BY DEF HandlerTable, ReadTable, EndTable, WriteTable, TunnelTable, Row, Always, Running,
      Pending, WithData, NoData,
     CloseAndTunnel, CloseAndResume
<1> QED
  BY <1>1, <1>2, <1>3 DEF Sole, Fits

\* A write failed.
LEMMA ErrWrite ==
    ASSUME NEW s, s.csm = "cache_write", "pend_tunnel" \notin s.flags
    PROVE  Sole(s, "cache_op_err", <<"cache_close">>, "cache_closed")
<1> DEFINE r == Running("cache_write", "cache_op_err", <<"cache_close">>, "cache_closed")
<1>1. r \in HandlerTable
  BY DEF HandlerTable, ReadTable, WriteTable, TunnelTable, CloseAndTunnel
<1>2. Fits(s, "cache_op_err", r)
  BY DEF Fits, Row, Running, Value, Has
<1>3. \A t \in HandlerTable : t.ev = "cache_op_err" /\ t.from = "cache_write" /\ t.pend # "yes"
            => t.acts = <<"cache_close">> /\ t.to = "cache_closed"
  BY DEF HandlerTable, ReadTable, EndTable, WriteTable, TunnelTable, Row, Always, Running,
      Pending, WithData, NoData,
     CloseAndTunnel, CloseAndResume
<1> QED
  BY <1>1, <1>2, <1>3 DEF Sole, Fits, Value, Has

\* A write ended, and there are more bytes.
LEMMA NextWriteData ==
    ASSUME NEW s, s.csm = "cache_write", "pend_tunnel" \notin s.flags, HasCacheWrData(s)
    PROVE  Sole(s, "cache_op_next", <<"cache_write">>, "cache_write")
<1> DEFINE r == WithData("cache_write", "cache_op_next", <<"cache_write">>, "cache_write")
<1>1. r \in HandlerTable
  BY DEF HandlerTable, ReadTable, WriteTable, TunnelTable, CloseAndTunnel
<1>2. Fits(s, "cache_op_next", r)
  BY DEF Fits, Row, WithData, Value, Has
<1>3. \A t \in HandlerTable : t.ev = "cache_op_next" /\ t.from = "cache_write" /\ t.pend # "yes" /\ t.data # "no"
            => t.acts = <<"cache_write">> /\ t.to = "cache_write"
  BY DEF HandlerTable, ReadTable, EndTable, WriteTable, TunnelTable, Row, Always, Running,
      Pending, WithData, NoData,
     CloseAndTunnel, CloseAndResume
<1> QED
  BY <1>1, <1>2, <1>3 DEF Sole, Fits, Value, Has

\* A write ended, and there are no more bytes yet.
LEMMA NextWriteIdle ==
    ASSUME NEW s, s.csm = "cache_write", "pend_tunnel" \notin s.flags, ~HasCacheWrData(s)
    PROVE  Sole(s, "cache_op_next", <<>>, "cache_idle_wr")
<1> DEFINE r == NoData("cache_write", "cache_op_next", <<>>, "cache_idle_wr")
<1>1. r \in HandlerTable
  BY DEF HandlerTable, ReadTable, WriteTable, TunnelTable, CloseAndTunnel
<1>2. Fits(s, "cache_op_next", r)
  BY DEF Fits, Row, NoData, Value, Has
<1>3. \A t \in HandlerTable : t.ev = "cache_op_next" /\ t.from = "cache_write" /\ t.pend # "yes" /\ t.data # "yes"
            => t.acts = <<>> /\ t.to = "cache_idle_wr"
  BY DEF HandlerTable, ReadTable, EndTable, WriteTable, TunnelTable, Row, Always, Running,
      Pending, WithData, NoData,
     CloseAndTunnel, CloseAndResume
<1> QED
  BY <1>1, <1>2, <1>3 DEF Sole, Fits, Value, Has

\* The response ends when all of it has been written.
LEMMA CompletedIdle ==
    ASSUME NEW s, s.csm = "cache_idle_wr"
    PROVE  Sole(s, "trans_completed", <<"cache_close", "fin_trans_send_next">>,
        "wait_body_data")
<1> DEFINE r == Always("cache_idle_wr", "trans_completed", <<"cache_close",
        "fin_trans_send_next">>, "wait_body_data")
<1>1. r \in HandlerTable
  BY DEF HandlerTable, ReadTable, WriteTable, TunnelTable, CloseAndTunnel
<1>2. Fits(s, "trans_completed", r)
  BY DEF Fits, Row, Always
<1>3. \A t \in HandlerTable : t.ev = "trans_completed" /\ t.from = "cache_idle_wr"
            => t.acts = <<"cache_close", "fin_trans_send_next">> /\ t.to = "wait_body_data"
  BY DEF HandlerTable, ReadTable, EndTable, WriteTable, TunnelTable, Row, Always, Running,
      Pending, WithData, NoData,
     CloseAndTunnel, CloseAndResume
<1> QED
  BY <1>1, <1>2, <1>3 DEF Sole, Fits

\* The cache is not used again.
LEMMA SkipClosed ==
    ASSUME NEW s, s.csm = "cache_closed"
    PROVE  Sole(s, "skip_trans", <<>>, "cache_closed")
<1> DEFINE r == Always("cache_closed", "skip_trans", <<>>, "cache_closed")
<1>1. r \in HandlerTable
  BY DEF HandlerTable, ReadTable, WriteTable, TunnelTable, CloseAndTunnel
<1>2. Fits(s, "skip_trans", r)
  BY DEF Fits, Row, Always
<1>3. \A t \in HandlerTable : t.ev = "skip_trans" /\ t.from = "cache_closed"
            => t.acts = <<>> /\ t.to = "cache_closed"
  BY DEF HandlerTable, ReadTable, EndTable, WriteTable, TunnelTable, Row, Always, Running,
      Pending, WithData, NoData,
     CloseAndTunnel, CloseAndResume
<1> QED
  BY <1>1, <1>2, <1>3 DEF Sole, Fits

\* Bytes when the cache is not used.
LEMMA OrgDataClosed ==
    ASSUME NEW s, s.csm = "cache_closed"
    PROVE  Sole(s, "org_data", <<"consume_cache_data">>, "cache_closed")
<1> DEFINE r == Always("cache_closed", "org_data", <<"consume_cache_data">>, "cache_closed")
<1>1. r \in HandlerTable
  BY DEF HandlerTable, ReadTable, WriteTable, TunnelTable, CloseAndTunnel
<1>2. Fits(s, "org_data", r)
  BY DEF Fits, Row, Always
<1>3. \A t \in HandlerTable : t.ev = "org_data" /\ t.from = "cache_closed"
            => t.acts = <<"consume_cache_data">> /\ t.to = "cache_closed"
  BY DEF HandlerTable, ReadTable, EndTable, WriteTable, TunnelTable, Row, Always, Running,
      Pending, WithData, NoData,
     CloseAndTunnel, CloseAndResume
<1> QED
  BY <1>1, <1>2, <1>3 DEF Sole, Fits

\* The response ends when the cache is not used.
LEMMA CompletedClosed ==
    ASSUME NEW s, s.csm = "cache_closed"
    PROVE  Sole(s, "trans_completed", <<"fin_trans_send_next">>, "wait_body_data")
<1> DEFINE r == Always("cache_closed", "trans_completed", <<"fin_trans_send_next">>,
        "wait_body_data")
<1>1. r \in HandlerTable
  BY DEF HandlerTable, ReadTable, WriteTable, TunnelTable, CloseAndTunnel
<1>2. Fits(s, "trans_completed", r)
  BY DEF Fits, Row, Always
<1>3. \A t \in HandlerTable : t.ev = "trans_completed" /\ t.from = "cache_closed"
            => t.acts = <<"fin_trans_send_next">> /\ t.to = "wait_body_data"
  BY DEF HandlerTable, ReadTable, EndTable, WriteTable, TunnelTable, Row, Always, Running,
      Pending, WithData, NoData,
     CloseAndTunnel, CloseAndResume
<1> QED
  BY <1>1, <1>2, <1>3 DEF Sole, Fits

\* A tunnel between two writes.
LEMMA TunnelIdle ==
    ASSUME NEW s, s.csm = "cache_idle_wr"
    PROVE  Sole(s, "try_blind_tunnel", <<"cache_close", "start_blind_tunnel">>, "cache_closed")
<1> DEFINE r == Always("cache_idle_wr", "try_blind_tunnel", <<"cache_close",
        "start_blind_tunnel">>, "cache_closed")
<1>1. r \in HandlerTable
  BY DEF HandlerTable, ReadTable, WriteTable, TunnelTable, CloseAndTunnel
<1>2. Fits(s, "try_blind_tunnel", r)
  BY DEF Fits, Row, Always
<1>3. \A t \in HandlerTable : t.ev = "try_blind_tunnel" /\ t.from = "cache_idle_wr"
            => t.acts = <<"cache_close", "start_blind_tunnel">> /\ t.to = "cache_closed"
  BY DEF HandlerTable, ReadTable, EndTable, WriteTable, TunnelTable, Row, Always, Running,
      Pending, WithData, NoData,
     CloseAndTunnel, CloseAndResume
<1> QED
  BY <1>1, <1>2, <1>3 DEF Sole, Fits

\* Whatever comes while a tunnel is pending, it starts.
LEMMA PendingEnds ==
    ASSUME NEW s, "pend_tunnel" \in s.flags, NEW ev,
           \/ s.csm = "cache_open_rd" /\ ev \in {"cache_op_err", "cache_op_done",
               "cache_op_next"}
           \/ s.csm = "cache_compare" /\ ev \in {"cache_op_err", "compare_ok", "compare_fail"}
           \/ s.csm = "cache_open_wr" /\ ev \in {"cache_op_err", "cache_op_done"}
           \/ s.csm = "cache_write" /\ ev \in {"cache_op_err", "cache_op_next"}
    PROVE  Sole(s, ev, CloseAndTunnel, "cache_closed")
<1> DEFINE r == Pending(s.csm, ev, CloseAndTunnel, "cache_closed")
<1>1. r \in HandlerTable
  BY DEF HandlerTable, EndTable
<1>2. Fits(s, ev, r)
  BY DEF Fits, Row, Pending, Value, Has
<1>3. \A t \in HandlerTable : t.ev = ev /\ t.from = s.csm /\ t.pend # "no"
            => t.acts = CloseAndTunnel /\ t.to = "cache_closed"
  BY DEF HandlerTable, ReadTable, EndTable, WriteTable, TunnelTable, Row, Always, Running,
      Pending, WithData, NoData
<1> QED
  BY <1>1, <1>2, <1>3 DEF Sole, Fits, Value, Has

\* A failed operation while the origin is paused.
LEMMA ErrDeciding ==
    ASSUME NEW s, "pend_tunnel" \notin s.flags, s.csm \in Deciding
    PROVE  Sole(s, "cache_op_err", CloseAndResume, "cache_closed")
<1> DEFINE r == Running(s.csm, "cache_op_err", CloseAndResume, "cache_closed")
<1>1. r \in HandlerTable
  BY DEF HandlerTable, EndTable, Deciding
<1>2. Fits(s, "cache_op_err", r)
  BY DEF Fits, Row, Running, Value, Has
<1>3. \A t \in HandlerTable : t.ev = "cache_op_err" /\ t.from \in Deciding /\ t.pend # "yes"
            => t.acts = CloseAndResume /\ t.to = "cache_closed"
  BY DEF HandlerTable, ReadTable, EndTable, WriteTable, TunnelTable, Row, Always, Running,
      Pending, WithData, NoData, Deciding
<1> QED
  BY <1>1, <1>2, <1>3 DEF Sole, Fits, Value, Has

\* A tunnel waits for the operation of the cache.
LEMMA TunnelWaiting ==
    ASSUME NEW s, s.csm \in Waiting
    PROVE  Sole(s, "try_blind_tunnel", <<"rem_bpctrl_entry", "set_pend_blind_tunnel">>, s.csm)
<1> DEFINE r == Always(s.csm, "try_blind_tunnel",
                    <<"rem_bpctrl_entry", "set_pend_blind_tunnel">>, s.csm)
<1>1. r \in HandlerTable
  BY DEF HandlerTable, TunnelTable, Waiting
<1>2. Fits(s, "try_blind_tunnel", r)
  BY DEF Fits, Row, Always
<1>3. \A t \in HandlerTable : t.ev = "try_blind_tunnel" /\ t.from \in Waiting
            => t.acts = <<"rem_bpctrl_entry", "set_pend_blind_tunnel">> /\ t.to = t.from
  BY DEF HandlerTable, ReadTable, EndTable, WriteTable, TunnelTable, Row, Always, Running,
      Pending, WithData, NoData,
     CloseAndTunnel, CloseAndResume, Waiting
<1> QED
  BY <1>1, <1>2, <1>3 DEF Sole, Fits

\* A tunnel without an operation of the cache.
LEMMA TunnelStarts ==
    ASSUME NEW s, s.csm \in {"cache_read", "wait_body_data", "cache_closed"}
    PROVE  Sole(s, "try_blind_tunnel", <<"start_blind_tunnel">>, "cache_closed")
<1> DEFINE r == Always(s.csm, "try_blind_tunnel", <<"start_blind_tunnel">>, "cache_closed")
<1>1. r \in HandlerTable
  BY DEF HandlerTable, TunnelTable
<1>2. Fits(s, "try_blind_tunnel", r)
  BY DEF Fits, Row, Always
<1>3. \A t \in HandlerTable : t.ev = "try_blind_tunnel" /\ t.from = s.csm
            => t.acts = <<"start_blind_tunnel">> /\ t.to = "cache_closed"
  BY DEF HandlerTable, ReadTable, EndTable, WriteTable, TunnelTable, Row, Always, Running,
      Pending, WithData, NoData,
     CloseAndTunnel, CloseAndResume
<1> QED
  BY <1>1, <1>2, <1>3 DEF Sole, Fits

-----------------------------------------------------------------------------
(* What they do to a connection.                                           *)

\* The headers' bytes are not for the cache.
LEMMA OrgDataWaitDoes ==
    ASSUME NEW s, Mach(s), s.csm = "wait_body_data", s.trans # <<>>,
           RespHdrsCompleted(s.trans[1]) =>
                /\ 0 <= RespBody(s.trans[1])
                /\ s.org_cache_rdr + RespBody(s.trans[1]) <= Len(s.origin_recv)
    PROVE  LET t == HandlerEvent(s, "org_data") IN
           /\ Does(s, t, {}, {"org_cache_rdr", "csm"}) /\ t.csm = "wait_body_data"
           /\ t.org_cache_rdr = Len(s.origin_recv) -
                (IF RespHdrsCompleted(s.trans[1]) THEN RespBody(s.trans[1]) ELSE 0)
<1> DEFINE u == ConsumeCacheHdrsData(s)
           t == HandlerEvent(s, "org_data")
<1>1. Mach(s)
  OBVIOUS
<1>2. Sole(s, "org_data", <<"consume_cache_hdrs_data">>, "wait_body_data")
  BY OrgDataWait
<1>3. HandlerActs(s, <<"consume_cache_hdrs_data">>) = u
  <2>1. HandlerActs(s, <<"consume_cache_hdrs_data">>) = HandlerAct(s, "consume_cache_hdrs_data")
    BY ActOne
  <2>2. HandlerAct(s, "consume_cache_hdrs_data") = u
    BY ActIs
  <2> QED
    BY <2>1, <2>2
<1>4. /\ Does(s, u, {}, {"org_cache_rdr"})
      /\ u.org_cache_rdr = Len(s.origin_recv) -
                (IF RespHdrsCompleted(s.trans[1]) THEN RespBody(s.trans[1]) ELSE 0)
  BY <1>1, ConsumeCacheHdrsDataDoes
<1> HIDE DEF u
<1>5. Mach(u)
  BY <1>1, <1>4 DEF Does
<1>6. "wait_body_data" \in Csms
  BY <1>1 DEF Csms
<1>7. Does(u, t, {}, {"csm"}) /\ t.csm = "wait_body_data"
  BY <1>2, <1>3, <1>5, <1>6, TakeDoes
<1> HIDE DEF t, u
<1> QED
  BY <1>1, <1>4, <1>5, <1>6, <1>7 DEF Does, Only, Keep, Fields, t

\* A transaction the cache is not used for.
LEMMA SkipWaitDoes ==
    ASSUME NEW s, Mach(s), s.csm = "wait_body_data"
    PROVE  LET t == HandlerEvent(s, "skip_trans") IN
           /\ Does(s, t, {}, {"csm"}) /\ t.csm = "cache_closed"
<1> DEFINE u == s
           t == HandlerEvent(s, "skip_trans")
<1>1. Mach(s)
  OBVIOUS
<1>2. Sole(s, "skip_trans", <<>>, "cache_closed")
  BY SkipWait
<1>3. HandlerActs(s, <<>>) = u
  BY ActNone
<1>4. Mach(u)
  BY <1>1 DEF Does
<1>5. "cache_closed" \in Csms
  BY <1>1 DEF Csms
<1>6. Does(u, t, {}, {"csm"}) /\ t.csm = "cache_closed"
  BY <1>2, <1>3, <1>4, <1>5, TakeDoes
<1> HIDE DEF t, u
<1> QED
  BY <1>1, <1>3, <1>4, <1>5, <1>6 DEF Does, Only, Keep, Fields, u, t

\* The cache is not used again.
LEMMA SkipClosedDoes ==
    ASSUME NEW s, Mach(s), s.csm = "cache_closed"
    PROVE  LET t == HandlerEvent(s, "skip_trans") IN
           /\ Does(s, t, {}, {"csm"}) /\ t.csm = "cache_closed"
<1> DEFINE u == s
           t == HandlerEvent(s, "skip_trans")
<1>1. Mach(s)
  OBVIOUS
<1>2. Sole(s, "skip_trans", <<>>, "cache_closed")
  BY SkipClosed
<1>3. HandlerActs(s, <<>>) = u
  BY ActNone
<1>4. Mach(u)
  BY <1>1 DEF Does
<1>5. "cache_closed" \in Csms
  BY <1>1 DEF Csms
<1>6. Does(u, t, {}, {"csm"}) /\ t.csm = "cache_closed"
  BY <1>2, <1>3, <1>4, <1>5, TakeDoes
<1> HIDE DEF t, u
<1> QED
  BY <1>1, <1>3, <1>4, <1>5, <1>6 DEF Does, Only, Keep, Fields, u, t

\* A transaction that ends before the cache is used.
LEMMA CompletedWaitDoes ==
    ASSUME NEW s, s.csm = "wait_body_data", Online(s), Over(s)
    PROVE  LET t == HandlerEvent(s, "trans_completed") IN
           /\ Does(s, t, {"org_send_idle", "org_send"}, {"org_cache_rdr", "trans", "wrote",
               "flags", "csm", "origin_pending"}) /\ t.csm = "wait_body_data"
           /\ t.trans = Tail(s.trans) /\ t.wrote = <<>>
           /\ t.flags = s.flags \ {"params_set", "caching_started", "after_end_data",
               "trans_completed"}
           /\ t.origin_pending = s.origin_pending + NextReq(s)
<1> DEFINE a == ConsumeCacheData(s)
           u == FinTransSendNext(a)
           t == HandlerEvent(s, "trans_completed")
<1>1. Mach(s)
  BY DEF Online
<1>2. Sole(s, "trans_completed", <<"consume_cache_data", "fin_trans_send_next">>,
          "wait_body_data")
  BY CompletedWait
<1>3. HandlerActs(s, <<"consume_cache_data", "fin_trans_send_next">>) = u
  <2>1. HandlerActs(s, <<"consume_cache_data",
            "fin_trans_send_next">>) = HandlerAct(HandlerAct(s, "consume_cache_data"),
                "fin_trans_send_next")
    BY ActTwo
  <2>2. HandlerAct(s, "consume_cache_data") = a
    BY ActIs
  <2>3. HandlerAct(a, "fin_trans_send_next") = u
    BY ActIs
  <2> QED
    BY <2>1, <2>2, <2>3
<1>4. /\ Does(s, a, {}, {"org_cache_rdr"})
  BY <1>1, ConsumeCacheDataDoes
<1> HIDE DEF a
<1>5. /\ Does(a, u, {"org_send_idle", "org_send"}, {"trans", "wrote", "flags", "origin_pending"})
      /\ u.trans = Tail(a.trans) /\ u.wrote = <<>>
      /\ u.flags = a.flags \ {"params_set", "caching_started", "after_end_data",
          "trans_completed"}
      /\ u.origin_pending = a.origin_pending + NextReq(a)
  BY <1>1, <1>4, FinTransDoes DEF Online, Does, Keep, Fields, Only, Over, NextReq, ClnAvail
<1> HIDE DEF u
<1>6. Mach(u)
  BY <1>1, <1>4, <1>5 DEF Does
<1>7. "wait_body_data" \in Csms
  BY <1>1 DEF Csms
<1>8. Does(u, t, {}, {"csm"}) /\ t.csm = "wait_body_data"
  BY <1>2, <1>3, <1>6, <1>7, TakeDoes
<1> HIDE DEF t, u
<1> QED
  BY <1>1, <1>4, <1>5, <1>6, <1>7, <1>8 DEF Does, Only, Keep, Fields, NextReq, t

\* The response ends when the cache is not used.
LEMMA CompletedClosedDoes ==
    ASSUME NEW s, s.csm = "cache_closed", Online(s), Over(s)
    PROVE  LET t == HandlerEvent(s, "trans_completed") IN
           /\ Does(s, t, {"org_send_idle", "org_send"}, {"trans", "wrote", "flags",
               "csm", "origin_pending"}) /\ t.csm = "wait_body_data"
           /\ t.trans = Tail(s.trans) /\ t.wrote = <<>>
           /\ t.flags = s.flags \ {"params_set", "caching_started", "after_end_data",
               "trans_completed"}
           /\ t.origin_pending = s.origin_pending + NextReq(s)
<1> DEFINE u == FinTransSendNext(s)
           t == HandlerEvent(s, "trans_completed")
<1>1. Mach(s)
  BY DEF Online
<1>2. Sole(s, "trans_completed", <<"fin_trans_send_next">>, "wait_body_data")
  BY CompletedClosed
<1>3. HandlerActs(s, <<"fin_trans_send_next">>) = u
  <2>1. HandlerActs(s, <<"fin_trans_send_next">>) = HandlerAct(s, "fin_trans_send_next")
    BY ActOne
  <2>2. HandlerAct(s, "fin_trans_send_next") = u
    BY ActIs
  <2> QED
    BY <2>1, <2>2
<1>4. /\ Does(s, u, {"org_send_idle", "org_send"}, {"trans", "wrote", "flags", "origin_pending"})
      /\ u.trans = Tail(s.trans) /\ u.wrote = <<>>
      /\ u.flags = s.flags \ {"params_set", "caching_started", "after_end_data",
          "trans_completed"}
      /\ u.origin_pending = s.origin_pending + NextReq(s)
  BY <1>1, FinTransDoes DEF Online
<1> HIDE DEF u
<1>5. Mach(u)
  BY <1>1, <1>4 DEF Does
<1>6. "wait_body_data" \in Csms
  BY <1>1 DEF Csms
<1>7. Does(u, t, {}, {"csm"}) /\ t.csm = "wait_body_data"
  BY <1>2, <1>3, <1>5, <1>6, TakeDoes
<1> HIDE DEF t, u
<1> QED
  BY <1>1, <1>4, <1>5, <1>6, <1>7 DEF Does, Only, Keep, Fields, t

\* The response ends when all of it has been written.
LEMMA CompletedIdleDoes ==
    ASSUME NEW s, s.csm = "cache_idle_wr", Online(s), Over(s)
    PROVE  LET t == HandlerEvent(s, "trans_completed") IN
           /\ Does(s, t, {"org_send_idle", "org_send"}, {"handle", "trans", "wrote", "flags",
               "csm", "origin_pending"}) /\ t.csm = "wait_body_data"
           /\ t.trans = Tail(s.trans) /\ t.wrote = <<>> /\ t.handle = "none"
           /\ t.flags = s.flags \ {"params_set", "caching_started", "after_end_data",
               "trans_completed"}
           /\ t.origin_pending = s.origin_pending + NextReq(s)
<1> DEFINE a == CacheClose(s)
           u == FinTransSendNext(a)
           t == HandlerEvent(s, "trans_completed")
<1>1. Mach(s)
  BY DEF Online
<1>2. Sole(s, "trans_completed", <<"cache_close", "fin_trans_send_next">>, "wait_body_data")
  BY CompletedIdle
<1>3. HandlerActs(s, <<"cache_close", "fin_trans_send_next">>) = u
  <2>1. HandlerActs(s, <<"cache_close", "fin_trans_send_next">>) = HandlerAct(HandlerAct(s,
            "cache_close"), "fin_trans_send_next")
    BY ActTwo
  <2>2. HandlerAct(s, "cache_close") = a
    BY ActIs
  <2>3. HandlerAct(a, "fin_trans_send_next") = u
    BY ActIs
  <2> QED
    BY <2>1, <2>2, <2>3
<1>4. Does(s, a, {}, {"handle"}) /\ a.handle = "none"
  BY <1>1, CacheCloseDoes
<1> HIDE DEF a
<1>5. /\ Does(a, u, {"org_send_idle", "org_send"}, {"trans", "wrote", "flags", "origin_pending"})
      /\ u.trans = Tail(a.trans) /\ u.wrote = <<>>
      /\ u.flags = a.flags \ {"params_set", "caching_started", "after_end_data",
          "trans_completed"}
      /\ u.origin_pending = a.origin_pending + NextReq(a)
  BY <1>1, <1>4, FinTransDoes DEF Online, Does, Keep, Fields, Only, Over, NextReq, ClnAvail
<1> HIDE DEF u
<1>6. Mach(u)
  BY <1>1, <1>4, <1>5 DEF Does
<1>7. "wait_body_data" \in Csms
  BY <1>1 DEF Csms
<1>8. Does(u, t, {}, {"csm"}) /\ t.csm = "wait_body_data"
  BY <1>2, <1>3, <1>6, <1>7, TakeDoes
<1> HIDE DEF t, u
<1> QED
  BY <1>1, <1>4, <1>5, <1>6, <1>7, <1>8 DEF Does, Only, Keep, Fields, NextReq, t

\* All of the object has been served.
LEMMA CompletedReadDoes ==
    ASSUME NEW s, Mach(s), s.csm = "cache_read"
    PROVE  LET t == HandlerEvent(s, "trans_completed") IN
           /\ Does(s, t, {}, {"flags", "csm"}) /\ t.csm = "cache_read"
           /\ t.flags = s.flags \cup {"trans_completed"}
<1> DEFINE u == Set(s, "trans_completed")
           t == HandlerEvent(s, "trans_completed")
<1>1. Mach(s)
  OBVIOUS
<1>2. Sole(s, "trans_completed", <<"set_trans_completed">>, "cache_read")
  BY CompletedRead
<1>3. HandlerActs(s, <<"set_trans_completed">>) = u
  <2>1. HandlerActs(s, <<"set_trans_completed">>) = HandlerAct(s, "set_trans_completed")
    BY ActOne
  <2>2. HandlerAct(s, "set_trans_completed") = u
    BY ActIs
  <2> QED
    BY <2>1, <2>2
<1>4. /\ Does(s, u, {}, {"flags"})
      /\ u.flags = s.flags \cup {"trans_completed"}
  BY <1>1, SetEffect DEF Flags
<1> HIDE DEF u
<1>5. Mach(u)
  BY <1>1, <1>4 DEF Does
<1>6. "cache_read" \in Csms
  BY <1>1 DEF Csms
<1>7. Does(u, t, {}, {"csm"}) /\ t.csm = "cache_read"
  BY <1>2, <1>3, <1>5, <1>6, TakeDoes
<1> HIDE DEF t, u
<1> QED
  BY <1>1, <1>4, <1>5, <1>6, <1>7 DEF Does, Only, Keep, Fields, t

\* The response ends while its bytes are being written.
LEMMA CompletedWriteDoes ==
    ASSUME NEW s, Mach(s), s.csm = "cache_write"
    PROVE  LET t == HandlerEvent(s, "trans_completed") IN
           /\ Does(s, t, {}, {"flags", "csm"}) /\ t.csm = "cache_write"
           /\ t.flags = s.flags \cup {"trans_completed"}
<1> DEFINE u == Set(s, "trans_completed")
           t == HandlerEvent(s, "trans_completed")
<1>1. Mach(s)
  OBVIOUS
<1>2. Sole(s, "trans_completed", <<"set_trans_completed">>, "cache_write")
  BY CompletedWrite
<1>3. HandlerActs(s, <<"set_trans_completed">>) = u
  <2>1. HandlerActs(s, <<"set_trans_completed">>) = HandlerAct(s, "set_trans_completed")
    BY ActOne
  <2>2. HandlerAct(s, "set_trans_completed") = u
    BY ActIs
  <2> QED
    BY <2>1, <2>2
<1>4. /\ Does(s, u, {}, {"flags"})
      /\ u.flags = s.flags \cup {"trans_completed"}
  BY <1>1, SetEffect DEF Flags
<1> HIDE DEF u
<1>5. Mach(u)
  BY <1>1, <1>4 DEF Does
<1>6. "cache_write" \in Csms
  BY <1>1 DEF Csms
<1>7. Does(u, t, {}, {"csm"}) /\ t.csm = "cache_write"
  BY <1>2, <1>3, <1>5, <1>6, TakeDoes
<1> HIDE DEF t, u
<1> QED
  BY <1>1, <1>4, <1>5, <1>6, <1>7 DEF Does, Only, Keep, Fields, t

\* The cache is asked for the object.
LEMMA OpenRdWaitDoes ==
    ASSUME NEW s, Mach(s), s.csm = "wait_body_data", "org_recv_idle" \in s.sm,
           s.trans # <<>>, HasCacheKey(s.trans[1]), Free(s, "none")
    PROVE  LET t == HandlerEvent(s, "cache_open_rd") IN
           /\ Does(s, t, {"org_recv_idle", "org_recv_paused"}, {"flags", "cache_op",
               "obj_at", "obj_len", "csm"}) /\ t.csm = "cache_open_rd"
           /\ "org_recv_paused" \in t.sm /\ t.flags = s.flags \cup {"recv_paused"}
           /\ t.cache_op = "open_rd"
           /\ t.obj_at = s.trans[1].at /\ t.obj_len = s.trans[1].len
<1> DEFINE a == PauseOrgRecv(s)
           u == CacheOpenRd(a)
           t == HandlerEvent(s, "cache_open_rd")
<1>1. Mach(s)
  OBVIOUS
<1>2. Sole(s, "cache_open_rd", <<"pause_org_recv", "cache_open_rd">>, "cache_open_rd")
  BY OpenRdWait
<1>3. HandlerActs(s, <<"pause_org_recv", "cache_open_rd">>) = u
  <2>1. HandlerActs(s, <<"pause_org_recv", "cache_open_rd">>) = HandlerAct(HandlerAct(s,
            "pause_org_recv"), "cache_open_rd")
    BY ActTwo
  <2>2. HandlerAct(s, "pause_org_recv") = a
    BY ActIs
  <2>3. HandlerAct(a, "cache_open_rd") = u
    BY ActIs
  <2> QED
    BY <2>1, <2>2, <2>3
<1>4. /\ Does(s, a, {"org_recv_idle", "org_recv_paused"}, {"flags"})
      /\ "org_recv_paused" \in a.sm /\ a.flags = s.flags \cup {"recv_paused"}
  BY <1>1, PauseDoes
<1> HIDE DEF a
<1>5. /\ Does(a, u, {}, {"cache_op", "obj_at", "obj_len"})
      /\ u.cache_op = "open_rd"
      /\ u.obj_at = a.trans[1].at /\ u.obj_len = a.trans[1].len
  BY <1>1, <1>4, CacheOpenRdDoes DEF Does, Keep, Fields, Only, Free
<1> HIDE DEF u
<1>6. Mach(u)
  BY <1>1, <1>4, <1>5 DEF Does
<1>7. "cache_open_rd" \in Csms
  BY <1>1 DEF Csms
<1>8. Does(u, t, {}, {"csm"}) /\ t.csm = "cache_open_rd"
  BY <1>2, <1>3, <1>6, <1>7, TakeDoes
<1> HIDE DEF t, u
<1> QED
  BY <1>1, <1>4, <1>5, <1>6, <1>7, <1>8 DEF Does, Only, Keep, Fields, t

\* Bytes the cache serves.
LEMMA OrgDataReadDoes ==
    ASSUME NEW s, Mach(s), s.csm = "cache_read"
    PROVE  LET t == HandlerEvent(s, "org_data") IN
           /\ Does(s, t, {}, {"org_cache_rdr", "csm"}) /\ t.csm = "cache_read"
<1> DEFINE u == ConsumeCacheData(s)
           t == HandlerEvent(s, "org_data")
<1>1. Mach(s)
  OBVIOUS
<1>2. Sole(s, "org_data", <<"consume_cache_data">>, "cache_read")
  BY OrgDataRead
<1>3. HandlerActs(s, <<"consume_cache_data">>) = u
  <2>1. HandlerActs(s, <<"consume_cache_data">>) = HandlerAct(s, "consume_cache_data")
    BY ActOne
  <2>2. HandlerAct(s, "consume_cache_data") = u
    BY ActIs
  <2> QED
    BY <2>1, <2>2
<1>4. /\ Does(s, u, {}, {"org_cache_rdr"})
  BY <1>1, ConsumeCacheDataDoes
<1> HIDE DEF u
<1>5. Mach(u)
  BY <1>1, <1>4 DEF Does
<1>6. "cache_read" \in Csms
  BY <1>1 DEF Csms
<1>7. Does(u, t, {}, {"csm"}) /\ t.csm = "cache_read"
  BY <1>2, <1>3, <1>5, <1>6, TakeDoes
<1> HIDE DEF t, u
<1> QED
  BY <1>1, <1>4, <1>5, <1>6, <1>7 DEF Does, Only, Keep, Fields, t

\* Bytes when the cache is not used.
LEMMA OrgDataClosedDoes ==
    ASSUME NEW s, Mach(s), s.csm = "cache_closed"
    PROVE  LET t == HandlerEvent(s, "org_data") IN
           /\ Does(s, t, {}, {"org_cache_rdr", "csm"}) /\ t.csm = "cache_closed"
<1> DEFINE u == ConsumeCacheData(s)
           t == HandlerEvent(s, "org_data")
<1>1. Mach(s)
  OBVIOUS
<1>2. Sole(s, "org_data", <<"consume_cache_data">>, "cache_closed")
  BY OrgDataClosed
<1>3. HandlerActs(s, <<"consume_cache_data">>) = u
  <2>1. HandlerActs(s, <<"consume_cache_data">>) = HandlerAct(s, "consume_cache_data")
    BY ActOne
  <2>2. HandlerAct(s, "consume_cache_data") = u
    BY ActIs
  <2> QED
    BY <2>1, <2>2
<1>4. /\ Does(s, u, {}, {"org_cache_rdr"})
  BY <1>1, ConsumeCacheDataDoes
<1> HIDE DEF u
<1>5. Mach(u)
  BY <1>1, <1>4 DEF Does
<1>6. "cache_closed" \in Csms
  BY <1>1 DEF Csms
<1>7. Does(u, t, {}, {"csm"}) /\ t.csm = "cache_closed"
  BY <1>2, <1>3, <1>5, <1>6, TakeDoes
<1> HIDE DEF t, u
<1> QED
  BY <1>1, <1>4, <1>5, <1>6, <1>7 DEF Does, Only, Keep, Fields, t

\* Bytes to write.
LEMMA OrgDataIdleDoes ==
    ASSUME NEW s, Mach(s), s.csm = "cache_idle_wr", HasCacheWrData(s), Free(s, "wr")
    PROVE  LET t == HandlerEvent(s, "org_data") IN
           /\ Does(s, t, {}, {"cache_op", "writing", "csm"}) /\ t.csm = "cache_write"
           /\ t.cache_op = "write"
           /\ t.writing = Len(s.origin_recv) - s.org_cache_rdr
<1> DEFINE u == CacheWrite(s)
           t == HandlerEvent(s, "org_data")
<1>1. Mach(s)
  OBVIOUS
<1>2. Sole(s, "org_data", <<"cache_write">>, "cache_write")
  BY OrgDataIdle
<1>3. HandlerActs(s, <<"cache_write">>) = u
  <2>1. HandlerActs(s, <<"cache_write">>) = HandlerAct(s, "cache_write")
    BY ActOne
  <2>2. HandlerAct(s, "cache_write") = u
    BY ActIs
  <2> QED
    BY <2>1, <2>2
<1>4. /\ Does(s, u, {}, {"cache_op", "writing"})
      /\ u.cache_op = "write"
      /\ u.writing = Len(s.origin_recv) - s.org_cache_rdr
  BY <1>1, CacheWriteDoes
<1> HIDE DEF u
<1>5. Mach(u)
  BY <1>1, <1>4 DEF Does
<1>6. "cache_write" \in Csms
  BY <1>1 DEF Csms
<1>7. Does(u, t, {}, {"csm"}) /\ t.csm = "cache_write"
  BY <1>2, <1>3, <1>5, <1>6, TakeDoes
<1> HIDE DEF t, u
<1> QED
  BY <1>1, <1>4, <1>5, <1>6, <1>7 DEF Does, Only, Keep, Fields, t

\* Bytes that wait for the write before them.
LEMMA OrgDataWriteDoes ==
    ASSUME NEW s, Mach(s), s.csm = "cache_write"
    PROVE  LET t == HandlerEvent(s, "org_data") IN
           /\ Does(s, t, {}, {"csm"}) /\ t.csm = "cache_write"
<1> DEFINE u == s
           t == HandlerEvent(s, "org_data")
<1>1. Mach(s)
  OBVIOUS
<1>2. Sole(s, "org_data", <<>>, "cache_write")
  BY OrgDataWrite
<1>3. HandlerActs(s, <<>>) = u
  BY ActNone
<1>4. Mach(u)
  BY <1>1 DEF Does
<1>5. "cache_write" \in Csms
  BY <1>1 DEF Csms
<1>6. Does(u, t, {}, {"csm"}) /\ t.csm = "cache_write"
  BY <1>2, <1>3, <1>4, <1>5, TakeDoes
<1> HIDE DEF t, u
<1> QED
  BY <1>1, <1>3, <1>4, <1>5, <1>6 DEF Does, Only, Keep, Fields, u, t

\* The cache has no more bytes.
LEMMA DoneReadDoes ==
    ASSUME NEW s, Mach(s), s.csm = "cache_read"
    PROVE  LET t == HandlerEvent(s, "cache_op_done") IN
           /\ Does(s, t, {}, {"csm"}) /\ t.csm = "cache_closed"
<1> DEFINE u == s
           t == HandlerEvent(s, "cache_op_done")
<1>1. Mach(s)
  OBVIOUS
<1>2. Sole(s, "cache_op_done", <<>>, "cache_closed")
  BY DoneRead
<1>3. HandlerActs(s, <<>>) = u
  BY ActNone
<1>4. Mach(u)
  BY <1>1 DEF Does
<1>5. "cache_closed" \in Csms
  BY <1>1 DEF Csms
<1>6. Does(u, t, {}, {"csm"}) /\ t.csm = "cache_closed"
  BY <1>2, <1>3, <1>4, <1>5, TakeDoes
<1> HIDE DEF t, u
<1> QED
  BY <1>1, <1>3, <1>4, <1>5, <1>6 DEF Does, Only, Keep, Fields, u, t

\* The object is in the cache.
LEMMA DoneOpenRdDoes ==
    ASSUME NEW s, Mach(s), s.csm = "cache_open_rd", "pend_tunnel" \notin s.flags,
           Free(s, "rd"), Len(s.origin_recv) - s.org_cache_rdr = RespBody(s.trans[1])
    PROVE  LET t == HandlerEvent(s, "cache_op_done") IN
           /\ Does(s, t, {}, {"cache_op", "cache_offs", "csm"}) /\ t.csm = "cache_compare"
           /\ t.cache_op = "compare"
           /\ t.cache_offs = Len(s.origin_recv) - s.org_cache_rdr
<1> DEFINE u == CacheReadCompare(s)
           t == HandlerEvent(s, "cache_op_done")
<1>1. Mach(s)
  OBVIOUS
<1>2. Sole(s, "cache_op_done", <<"cache_read_compare">>, "cache_compare")
  BY DoneOpenRd
<1>3. HandlerActs(s, <<"cache_read_compare">>) = u
  <2>1. HandlerActs(s, <<"cache_read_compare">>) = HandlerAct(s, "cache_read_compare")
    BY ActOne
  <2>2. HandlerAct(s, "cache_read_compare") = u
    BY ActIs
  <2> QED
    BY <2>1, <2>2
<1>4. /\ Does(s, u, {}, {"cache_op", "cache_offs"})
      /\ u.cache_op = "compare"
      /\ u.cache_offs = Len(s.origin_recv) - s.org_cache_rdr
  BY <1>1, CacheReadCompareDoes
<1> HIDE DEF u
<1>5. Mach(u)
  BY <1>1, <1>4 DEF Does
<1>6. "cache_compare" \in Csms
  BY <1>1 DEF Csms
<1>7. Does(u, t, {}, {"csm"}) /\ t.csm = "cache_compare"
  BY <1>2, <1>3, <1>5, <1>6, TakeDoes
<1> HIDE DEF t, u
<1> QED
  BY <1>1, <1>4, <1>5, <1>6, <1>7 DEF Does, Only, Keep, Fields, t

\* It isn't.
LEMMA NextOpenRdDoes ==
    ASSUME NEW s, Mach(s), s.csm = "cache_open_rd", "pend_tunnel" \notin s.flags,
           HasCacheKey(s.trans[1]), s.cache_op = "none"
    PROVE  LET t == HandlerEvent(s, "cache_op_next") IN
           /\ Does(s, t, {}, {"handle", "cache_op", "csm"}) /\ t.csm = "cache_open_wr"
           /\ t.cache_op = "open_wr" /\ t.handle = "none"
<1> DEFINE a == CacheClose(s)
           u == CacheOpenWr(a)
           t == HandlerEvent(s, "cache_op_next")
<1>1. Mach(s)
  OBVIOUS
<1>2. Sole(s, "cache_op_next", <<"cache_close", "cache_open_wr">>, "cache_open_wr")
  BY NextOpenRd
<1>3. HandlerActs(s, <<"cache_close", "cache_open_wr">>) = u
  <2>1. HandlerActs(s, <<"cache_close", "cache_open_wr">>) = HandlerAct(HandlerAct(s,
            "cache_close"), "cache_open_wr")
    BY ActTwo
  <2>2. HandlerAct(s, "cache_close") = a
    BY ActIs
  <2>3. HandlerAct(a, "cache_open_wr") = u
    BY ActIs
  <2> QED
    BY <2>1, <2>2, <2>3
<1>4. Does(s, a, {}, {"handle"}) /\ a.handle = "none"
  BY <1>1, CacheCloseDoes
<1> HIDE DEF a
<1>5. /\ Does(a, u, {}, {"cache_op"})
      /\ u.cache_op = "open_wr"
  BY <1>1, <1>4, CacheOpenWrDoes DEF Does, Keep, Fields, Only, Free
<1> HIDE DEF u
<1>6. Mach(u)
  BY <1>1, <1>4, <1>5 DEF Does
<1>7. "cache_open_wr" \in Csms
  BY <1>1 DEF Csms
<1>8. Does(u, t, {}, {"csm"}) /\ t.csm = "cache_open_wr"
  BY <1>2, <1>3, <1>6, <1>7, TakeDoes
<1> HIDE DEF t, u
<1> QED
  BY <1>1, <1>4, <1>5, <1>6, <1>7, <1>8 DEF Does, Only, Keep, Fields, t

\* The cache has what the origin has sent.
LEMMA OkCompareDoes ==
    ASSUME NEW s, Mach(s), s.csm = "cache_compare", "pend_tunnel" \notin s.flags,
           "org_recv_paused" \in s.sm, s.handle = "rd"
    PROVE  LET t == HandlerEvent(s, "compare_ok") IN
           /\ Does(s, t, ResumeX, {"org_cache_rdr", "strm", "flags", "handle",
               "csm"}) /\ t.csm = "cache_read"
           /\ t.strm = "cache" /\ "org_recv_paused" \notin t.sm
           /\ t.flags = s.flags \ {"recv_paused", "bpctrl_added"} /\ t.handle = "none"
<1> DEFINE a == ConsumeCacheData(s)
           u == DoSwitchOrgStream(a)
           t == HandlerEvent(s, "compare_ok")
<1>1. Mach(s)
  OBVIOUS
<1>2. Sole(s, "compare_ok", <<"consume_cache_data", "switch_org_stream">>, "cache_read")
  BY OkCompare
<1>3. HandlerActs(s, <<"consume_cache_data", "switch_org_stream">>) = u
  <2>1. HandlerActs(s, <<"consume_cache_data",
            "switch_org_stream">>) = HandlerAct(HandlerAct(s, "consume_cache_data"),
                "switch_org_stream")
    BY ActTwo
  <2>2. HandlerAct(s, "consume_cache_data") = a
    BY ActIs
  <2>3. HandlerAct(a, "switch_org_stream") = u
    BY ActIs
  <2> QED
    BY <2>1, <2>2, <2>3
<1>4. /\ Does(s, a, {}, {"org_cache_rdr"})
  BY <1>1, ConsumeCacheDataDoes
<1> HIDE DEF a
<1>5. /\ Does(a, u, ResumeX, {"strm", "flags", "handle"})
      /\ u.strm = "cache" /\ "org_recv_paused" \notin u.sm
      /\ u.flags = a.flags \ {"recv_paused", "bpctrl_added"} /\ u.handle = "none"
  BY <1>1, <1>4, DoSwitchOrgStreamDoes DEF Does, Keep, Fields, Only, Online
<1> HIDE DEF u
<1>6. Mach(u)
  BY <1>1, <1>4, <1>5 DEF Does
<1>7. "cache_read" \in Csms
  BY <1>1 DEF Csms
<1>8. Does(u, t, {}, {"csm"}) /\ t.csm = "cache_read"
  BY <1>2, <1>3, <1>6, <1>7, TakeDoes
<1> HIDE DEF t, u
<1> QED
  BY <1>1, <1>4, <1>5, <1>6, <1>7, <1>8 DEF Does, Only, Keep, Fields, t

\* It has something else.
LEMMA FailCompareDoes ==
    ASSUME NEW s, Mach(s), s.csm = "cache_compare", "pend_tunnel" \notin s.flags,
           Free(s, "rd")
    PROVE  LET t == HandlerEvent(s, "compare_fail") IN
           /\ Does(s, t, {}, {"cache_op", "handle", "csm"}) /\ t.csm = "cache_open_wr"
           /\ t.cache_op = "close" /\ t.handle = "none"
<1> DEFINE u == CacheReopenWrTruncate(s)
           t == HandlerEvent(s, "compare_fail")
<1>1. Mach(s)
  OBVIOUS
<1>2. Sole(s, "compare_fail", <<"cache_reopen_wr_truncate">>, "cache_open_wr")
  BY FailCompare
<1>3. HandlerActs(s, <<"cache_reopen_wr_truncate">>) = u
  <2>1. HandlerActs(s, <<"cache_reopen_wr_truncate">>) = HandlerAct(s,
            "cache_reopen_wr_truncate")
    BY ActOne
  <2>2. HandlerAct(s, "cache_reopen_wr_truncate") = u
    BY ActIs
  <2> QED
    BY <2>1, <2>2
<1>4. /\ Does(s, u, {}, {"cache_op", "handle"})
      /\ u.cache_op = "close" /\ u.handle = "none"
  BY <1>1, CacheReopenDoes
<1> HIDE DEF u
<1>5. Mach(u)
  BY <1>1, <1>4 DEF Does
<1>6. "cache_open_wr" \in Csms
  BY <1>1 DEF Csms
<1>7. Does(u, t, {}, {"csm"}) /\ t.csm = "cache_open_wr"
  BY <1>2, <1>3, <1>5, <1>6, TakeDoes
<1> HIDE DEF t, u
<1> QED
  BY <1>1, <1>4, <1>5, <1>6, <1>7 DEF Does, Only, Keep, Fields, t

\* The object can be written, and there are bytes to write.
LEMMA DoneOpenWrDataDoes ==
    ASSUME NEW s, Mach(s), s.csm = "cache_open_wr", "pend_tunnel" \notin s.flags,
           HasCacheWrData(s), "org_recv_paused" \in s.sm, Limitable(s), Free(s, "wr")
    PROVE  LET t == HandlerEvent(s, "cache_op_done") IN
           /\ Does(s, t, ResumeX, {"flags", "cache_op", "writing",
               "csm"}) /\ t.csm = "cache_write"
           /\ t.cache_op = "write"
           /\ t.writing = Len(s.origin_recv) - s.org_cache_rdr /\ "org_recv_paused" \notin t.sm
           /\ s.flags \ {"recv_paused"} \subseteq t.flags
           /\ t.flags \subseteq (s.flags \cup {"params_set"}) \ {"recv_paused"}
<1> DEFINE a == ResumeOrgRecv(s)
           u == CacheWrite(a)
           t == HandlerEvent(s, "cache_op_done")
<1>1. Mach(s)
  OBVIOUS
<1>2. Sole(s, "cache_op_done", <<"resume_org_recv", "cache_write">>, "cache_write")
  BY DoneOpenWrData
<1>3. HandlerActs(s, <<"resume_org_recv", "cache_write">>) = u
  <2>1. HandlerActs(s, <<"resume_org_recv", "cache_write">>) = HandlerAct(HandlerAct(s,
            "resume_org_recv"), "cache_write")
    BY ActTwo
  <2>2. HandlerAct(s, "resume_org_recv") = a
    BY ActIs
  <2>3. HandlerAct(a, "cache_write") = u
    BY ActIs
  <2> QED
    BY <2>1, <2>2, <2>3
<1>4. /\ Does(s, a, ResumeX, {"flags"})
      /\ "org_recv_paused" \notin a.sm
      /\ s.flags \ {"recv_paused"} \subseteq a.flags
      /\ a.flags \subseteq (s.flags \cup {"params_set"}) \ {"recv_paused"}
  BY <1>1, ResumeDoes
<1> HIDE DEF a
<1>5. /\ Does(a, u, {}, {"cache_op", "writing"})
      /\ u.cache_op = "write"
      /\ u.writing = Len(a.origin_recv) - a.org_cache_rdr
  BY <1>1, <1>4, CacheWriteDoes DEF Does, Keep, Fields, Only, Free, HasCacheWrData
<1> HIDE DEF u
<1>6. Mach(u)
  BY <1>1, <1>4, <1>5 DEF Does
<1>7. "cache_write" \in Csms
  BY <1>1 DEF Csms
<1>8. Does(u, t, {}, {"csm"}) /\ t.csm = "cache_write"
  BY <1>2, <1>3, <1>6, <1>7, TakeDoes
<1> HIDE DEF t, u
<1> QED
  BY <1>1, <1>4, <1>5, <1>6, <1>7, <1>8 DEF Does, Only, Keep, Fields, t

\* The object can be written, and there are no bytes yet.
LEMMA DoneOpenWrIdleDoes ==
    ASSUME NEW s, Mach(s), s.csm = "cache_open_wr", "pend_tunnel" \notin s.flags,
           ~HasCacheWrData(s), "org_recv_paused" \in s.sm, Limitable(s)
    PROVE  LET t == HandlerEvent(s, "cache_op_done") IN
           /\ Does(s, t, ResumeX, {"flags", "csm"}) /\ t.csm = "cache_idle_wr"
           /\ "org_recv_paused" \notin t.sm
           /\ s.flags \ {"recv_paused"} \subseteq t.flags
           /\ t.flags \subseteq (s.flags \cup {"params_set"}) \ {"recv_paused"}
<1> DEFINE u == ResumeOrgRecv(s)
           t == HandlerEvent(s, "cache_op_done")
<1>1. Mach(s)
  OBVIOUS
<1>2. Sole(s, "cache_op_done", <<"resume_org_recv">>, "cache_idle_wr")
  BY DoneOpenWrIdle
<1>3. HandlerActs(s, <<"resume_org_recv">>) = u
  <2>1. HandlerActs(s, <<"resume_org_recv">>) = HandlerAct(s, "resume_org_recv")
    BY ActOne
  <2>2. HandlerAct(s, "resume_org_recv") = u
    BY ActIs
  <2> QED
    BY <2>1, <2>2
<1>4. /\ Does(s, u, ResumeX, {"flags"})
      /\ "org_recv_paused" \notin u.sm
      /\ s.flags \ {"recv_paused"} \subseteq u.flags
      /\ u.flags \subseteq (s.flags \cup {"params_set"}) \ {"recv_paused"}
  BY <1>1, ResumeDoes
<1> HIDE DEF u
<1>5. Mach(u)
  BY <1>1, <1>4 DEF Does
<1>6. "cache_idle_wr" \in Csms
  BY <1>1 DEF Csms
<1>7. Does(u, t, {}, {"csm"}) /\ t.csm = "cache_idle_wr"
  BY <1>2, <1>3, <1>5, <1>6, TakeDoes
<1> HIDE DEF t, u
<1> QED
  BY <1>1, <1>4, <1>5, <1>6, <1>7 DEF Does, Only, Keep, Fields, t

\* A write failed.
LEMMA ErrWriteDoes ==
    ASSUME NEW s, Mach(s), s.csm = "cache_write", "pend_tunnel" \notin s.flags
    PROVE  LET t == HandlerEvent(s, "cache_op_err") IN
           /\ Does(s, t, {}, {"handle", "csm"}) /\ t.csm = "cache_closed"
           /\ t.handle = "none"
<1> DEFINE u == CacheClose(s)
           t == HandlerEvent(s, "cache_op_err")
<1>1. Mach(s)
  OBVIOUS
<1>2. Sole(s, "cache_op_err", <<"cache_close">>, "cache_closed")
  BY ErrWrite
<1>3. HandlerActs(s, <<"cache_close">>) = u
  <2>1. HandlerActs(s, <<"cache_close">>) = HandlerAct(s, "cache_close")
    BY ActOne
  <2>2. HandlerAct(s, "cache_close") = u
    BY ActIs
  <2> QED
    BY <2>1, <2>2
<1>4. Does(s, u, {}, {"handle"}) /\ u.handle = "none"
  BY <1>1, CacheCloseDoes
<1> HIDE DEF u
<1>5. Mach(u)
  BY <1>1, <1>4 DEF Does
<1>6. "cache_closed" \in Csms
  BY <1>1 DEF Csms
<1>7. Does(u, t, {}, {"csm"}) /\ t.csm = "cache_closed"
  BY <1>2, <1>3, <1>5, <1>6, TakeDoes
<1> HIDE DEF t, u
<1> QED
  BY <1>1, <1>4, <1>5, <1>6, <1>7 DEF Does, Only, Keep, Fields, t

\* A write ended, and there are more bytes.
LEMMA NextWriteDataDoes ==
    ASSUME NEW s, Mach(s), s.csm = "cache_write", "pend_tunnel" \notin s.flags,
           HasCacheWrData(s), Free(s, "wr")
    PROVE  LET t == HandlerEvent(s, "cache_op_next") IN
           /\ Does(s, t, {}, {"cache_op", "writing", "csm"}) /\ t.csm = "cache_write"
           /\ t.cache_op = "write"
           /\ t.writing = Len(s.origin_recv) - s.org_cache_rdr
<1> DEFINE u == CacheWrite(s)
           t == HandlerEvent(s, "cache_op_next")
<1>1. Mach(s)
  OBVIOUS
<1>2. Sole(s, "cache_op_next", <<"cache_write">>, "cache_write")
  BY NextWriteData
<1>3. HandlerActs(s, <<"cache_write">>) = u
  <2>1. HandlerActs(s, <<"cache_write">>) = HandlerAct(s, "cache_write")
    BY ActOne
  <2>2. HandlerAct(s, "cache_write") = u
    BY ActIs
  <2> QED
    BY <2>1, <2>2
<1>4. /\ Does(s, u, {}, {"cache_op", "writing"})
      /\ u.cache_op = "write"
      /\ u.writing = Len(s.origin_recv) - s.org_cache_rdr
  BY <1>1, CacheWriteDoes
<1> HIDE DEF u
<1>5. Mach(u)
  BY <1>1, <1>4 DEF Does
<1>6. "cache_write" \in Csms
  BY <1>1 DEF Csms
<1>7. Does(u, t, {}, {"csm"}) /\ t.csm = "cache_write"
  BY <1>2, <1>3, <1>5, <1>6, TakeDoes
<1> HIDE DEF t, u
<1> QED
  BY <1>1, <1>4, <1>5, <1>6, <1>7 DEF Does, Only, Keep, Fields, t

\* A write ended, and there are no more bytes yet.
LEMMA NextWriteIdleDoes ==
    ASSUME NEW s, Mach(s), s.csm = "cache_write", "pend_tunnel" \notin s.flags,
           ~HasCacheWrData(s)
    PROVE  LET t == HandlerEvent(s, "cache_op_next") IN
           /\ Does(s, t, {}, {"csm"}) /\ t.csm = "cache_idle_wr"
<1> DEFINE u == s
           t == HandlerEvent(s, "cache_op_next")
<1>1. Mach(s)
  OBVIOUS
<1>2. Sole(s, "cache_op_next", <<>>, "cache_idle_wr")
  BY NextWriteIdle
<1>3. HandlerActs(s, <<>>) = u
  BY ActNone
<1>4. Mach(u)
  BY <1>1 DEF Does
<1>5. "cache_idle_wr" \in Csms
  BY <1>1 DEF Csms
<1>6. Does(u, t, {}, {"csm"}) /\ t.csm = "cache_idle_wr"
  BY <1>2, <1>3, <1>4, <1>5, TakeDoes
<1> HIDE DEF t, u
<1> QED
  BY <1>1, <1>3, <1>4, <1>5, <1>6 DEF Does, Only, Keep, Fields, u, t

\* A failed operation while the origin is paused.
LEMMA ErrDecidingDoes ==
    ASSUME NEW s, Mach(s), s.csm \in Deciding, "pend_tunnel" \notin s.flags,
           "org_recv_paused" \in s.sm, Limitable(s)
    PROVE  LET t == HandlerEvent(s, "cache_op_err") IN
           /\ Does(s, t, ResumeX, {"handle", "flags", "csm"}) /\ t.csm = "cache_closed"
           /\ "org_recv_paused" \notin t.sm /\ t.handle = "none"
           /\ s.flags \ {"recv_paused"} \subseteq t.flags
           /\ t.flags \subseteq (s.flags \cup {"params_set"}) \ {"recv_paused"}
<1> DEFINE a == CacheClose(s)
           u == ResumeOrgRecv(a)
           t == HandlerEvent(s, "cache_op_err")
<1>1. Mach(s)
  OBVIOUS
<1>2. Sole(s, "cache_op_err", CloseAndResume, "cache_closed")
  BY ErrDeciding
<1>3. HandlerActs(s, CloseAndResume) = u
  <2>1. HandlerActs(s, <<"cache_close", "resume_org_recv">>) = HandlerAct(HandlerAct(s,
            "cache_close"), "resume_org_recv")
    BY ActTwo
  <2>2. HandlerAct(s, "cache_close") = a
    BY ActIs
  <2>3. HandlerAct(a, "resume_org_recv") = u
    BY ActIs
  <2> QED
    BY <2>1, <2>2, <2>3 DEF CloseAndResume
<1>4. Does(s, a, {}, {"handle"}) /\ a.handle = "none"
  BY <1>1, CacheCloseDoes
<1> HIDE DEF a
<1>5. /\ Does(a, u, ResumeX, {"flags"})
      /\ "org_recv_paused" \notin u.sm
      /\ a.flags \ {"recv_paused"} \subseteq u.flags
      /\ u.flags \subseteq (a.flags \cup {"params_set"}) \ {"recv_paused"}
  BY <1>1, <1>4, ResumeDoes DEF Does, Keep, Fields, Only, Limitable
<1> HIDE DEF u
<1>6. Mach(u)
  BY <1>1, <1>4, <1>5 DEF Does
<1>7. "cache_closed" \in Csms
  BY <1>1 DEF Csms
<1>8. Does(u, t, {}, {"csm"}) /\ t.csm = "cache_closed"
  BY <1>2, <1>3, <1>6, <1>7, TakeDoes
<1> HIDE DEF t, u
<1> QED
  BY <1>1, <1>4, <1>5, <1>6, <1>7, <1>8 DEF Does, Only, Keep, Fields, t

\* A tunnel waits for the operation of the cache.
LEMMA TunnelWaitingDoes ==
    ASSUME NEW s, Mach(s), s.csm \in Waiting
    PROVE  LET t == HandlerEvent(s, "try_blind_tunnel") IN
           /\ Does(s, t, {}, {"flags", "csm"}) /\ t.csm = s.csm
           /\ t.flags = (s.flags \ {"bpctrl_added"}) \cup {"pend_tunnel"}
<1> DEFINE a == RemBpEntry(s)
           u == Set(a, "pend_tunnel")
           t == HandlerEvent(s, "try_blind_tunnel")
<1>1. Mach(s)
  OBVIOUS
<1>2. Sole(s, "try_blind_tunnel", <<"rem_bpctrl_entry", "set_pend_blind_tunnel">>, s.csm)
  BY TunnelWaiting
<1>3. HandlerActs(s, <<"rem_bpctrl_entry", "set_pend_blind_tunnel">>) = u
  <2>1. HandlerActs(s, <<"rem_bpctrl_entry",
            "set_pend_blind_tunnel">>) = HandlerAct(HandlerAct(s, "rem_bpctrl_entry"),
                "set_pend_blind_tunnel")
    BY ActTwo
  <2>2. HandlerAct(s, "rem_bpctrl_entry") = a
    BY ActIs
  <2>3. HandlerAct(a, "set_pend_blind_tunnel") = u
    BY ActIs
  <2> QED
    BY <2>1, <2>2, <2>3
<1>4. /\ Does(s, a, {}, {"flags"})
      /\ a.flags = s.flags \ {"bpctrl_added"}
  BY <1>1, SetEffect DEF Flags, RemBpEntry
<1> HIDE DEF a
<1>5. /\ Does(a, u, {}, {"flags"})
      /\ u.flags = a.flags \cup {"pend_tunnel"}
  BY <1>1, <1>4, SetEffect DEF Flags, Does, Keep, Fields, Only, Online
<1> HIDE DEF u
<1>6. Mach(u)
  BY <1>1, <1>4, <1>5 DEF Does
<1>7. s.csm \in Csms
  BY <1>1 DEF Csms, Mach, Conns
<1>8. Does(u, t, {}, {"csm"}) /\ t.csm = s.csm
  BY <1>2, <1>3, <1>6, <1>7, TakeDoes
<1> HIDE DEF t, u
<1> QED
  BY <1>1, <1>4, <1>5, <1>6, <1>7, <1>8 DEF Does, Only, Keep, Fields, t

\* A tunnel without an operation of the cache.
LEMMA TunnelStartsDoes ==
    ASSUME NEW s, s.csm \in {"cache_read", "wait_body_data", "cache_closed"}, Online(s),
           s.cache_op = "none"
    PROVE  LET t == HandlerEvent(s, "try_blind_tunnel") IN
           /\ Does(s, t, TunnelX, TunnelF) /\ t.csm = "cache_closed"
           /\ Quiet(s, t) /\ Blind(t)
<1> DEFINE u == DoStartBlindTunnel(s)
           t == HandlerEvent(s, "try_blind_tunnel")
<1>1. Mach(s)
  BY DEF Online
<1>2. Sole(s, "try_blind_tunnel", <<"start_blind_tunnel">>, "cache_closed")
  BY TunnelStarts
<1>3. HandlerActs(s, <<"start_blind_tunnel">>) = u
  <2>1. HandlerActs(s, <<"start_blind_tunnel">>) = HandlerAct(s, "start_blind_tunnel")
    BY ActOne
  <2>2. HandlerAct(s, "start_blind_tunnel") = u
    BY ActIs
  <2> QED
    BY <2>1, <2>2
<1>4. /\ Does(s, u, TunnelX, TunnelF)
      /\ Quiet(s, u) /\ Blind(u)
  BY <1>1, DoStartBlindTunnelDoes
<1> HIDE DEF u
<1>5. Mach(u)
  BY <1>1, <1>4 DEF Does
<1>6. "cache_closed" \in Csms
  BY <1>1 DEF Csms
<1>7. Does(u, t, {}, {"csm"}) /\ t.csm = "cache_closed"
  BY <1>2, <1>3, <1>5, <1>6, TakeDoes
<1> HIDE DEF t, u
<1> QED
  BY <1>1, <1>4, <1>5, <1>6, <1>7 DEF Does, Only, Keep, Fields, TunnelF, Quiet, ShutC, ShutO, Blind, t

\* A tunnel between two writes.
LEMMA TunnelIdleDoes ==
    ASSUME NEW s, s.csm = "cache_idle_wr", Online(s), s.cache_op = "none"
    PROVE  LET t == HandlerEvent(s, "try_blind_tunnel") IN
           /\ Does(s, t, TunnelX, TunnelF) /\ t.csm = "cache_closed"
           /\ Quiet(s, t) /\ Blind(t)
<1> DEFINE a == CacheClose(s)
           u == DoStartBlindTunnel(a)
           t == HandlerEvent(s, "try_blind_tunnel")
<1>1. Mach(s)
  BY DEF Online
<1>2. Sole(s, "try_blind_tunnel", <<"cache_close", "start_blind_tunnel">>, "cache_closed")
  BY TunnelIdle
<1>3. HandlerActs(s, <<"cache_close", "start_blind_tunnel">>) = u
  <2>1. HandlerActs(s, <<"cache_close", "start_blind_tunnel">>) = HandlerAct(HandlerAct(s,
            "cache_close"), "start_blind_tunnel")
    BY ActTwo
  <2>2. HandlerAct(s, "cache_close") = a
    BY ActIs
  <2>3. HandlerAct(a, "start_blind_tunnel") = u
    BY ActIs
  <2> QED
    BY <2>1, <2>2, <2>3
<1>4. /\ Does(s, a, {}, {"handle"})
  BY <1>1, CacheCloseDoes
<1> HIDE DEF a
<1>5. Online(a)
  BY <1>4, OnlineKept
<1>6. /\ Does(a, u, TunnelX, TunnelF)
      /\ Quiet(a, u) /\ Blind(u)
  BY <1>1, <1>4, <1>5, DoStartBlindTunnelDoes DEF Does, Keep, Fields, Only, Online
<1> HIDE DEF u
<1>7. Mach(u)
  BY <1>1, <1>4, <1>5, <1>6 DEF Does
<1>8. "cache_closed" \in Csms
  BY <1>1 DEF Csms
<1>9. Does(u, t, {}, {"csm"}) /\ t.csm = "cache_closed"
  BY <1>2, <1>3, <1>7, <1>8, TakeDoes
<1> HIDE DEF t, u
<1> QED
  BY <1>1, <1>4, <1>5, <1>6, <1>7, <1>8, <1>9
      DEF Does, Only, Keep, Fields, TunnelF, Quiet, ShutC, ShutO, Blind, t

\* The pending tunnel starts, and the cache is given up.
LEMMA PendingEndsDoes ==
    ASSUME NEW s, Online(s), s.cache_op = "none", "pend_tunnel" \in s.flags, NEW ev,
           \/ s.csm = "cache_open_rd" /\ ev \in {"cache_op_err", "cache_op_done",
               "cache_op_next"}
           \/ s.csm = "cache_compare" /\ ev \in {"cache_op_err", "compare_ok", "compare_fail"}
           \/ s.csm = "cache_open_wr" /\ ev \in {"cache_op_err", "cache_op_done"}
           \/ s.csm = "cache_write" /\ ev \in {"cache_op_err", "cache_op_next"}
    PROVE  LET t == HandlerEvent(s, ev) IN
           /\ Does(s, t, TunnelX, TunnelF) /\ t.csm = "cache_closed"
           /\ Quiet(s, t) /\ Blind(t)
<1> DEFINE a == CacheClose(s)
           u == DoStartBlindTunnel(a)
           t == HandlerEvent(s, ev)
<1>1. Mach(s)
  BY DEF Online
<1>2. Sole(s, ev, CloseAndTunnel, "cache_closed")
  BY PendingEnds
<1>3. HandlerActs(s, CloseAndTunnel) = u
  <2>1. HandlerActs(s, <<"cache_close", "start_blind_tunnel">>) = HandlerAct(HandlerAct(s,
            "cache_close"), "start_blind_tunnel")
    BY ActTwo
  <2>2. HandlerAct(s, "cache_close") = a
    BY ActIs
  <2>3. HandlerAct(a, "start_blind_tunnel") = u
    BY ActIs
  <2> QED
    BY <2>1, <2>2, <2>3 DEF CloseAndTunnel
<1>4. /\ Does(s, a, {}, {"handle"})
  BY <1>1, CacheCloseDoes
<1> HIDE DEF a
<1>5. Online(a)
  BY <1>4, OnlineKept
<1>6. /\ Does(a, u, TunnelX, TunnelF)
      /\ Quiet(a, u) /\ Blind(u)
  BY <1>1, <1>4, <1>5, DoStartBlindTunnelDoes DEF Does, Keep, Fields, Only, Online
<1> HIDE DEF u
<1>7. Mach(u)
  BY <1>1, <1>4, <1>5, <1>6 DEF Does
<1>8. "cache_closed" \in Csms
  BY <1>1 DEF Csms
<1>9. Does(u, t, {}, {"csm"}) /\ t.csm = "cache_closed"
  BY <1>2, <1>3, <1>7, <1>8, TakeDoes
<1> HIDE DEF t, u
<1> QED
  BY <1>1, <1>4, <1>5, <1>6, <1>7, <1>8, <1>9
      DEF Does, Only, Keep, Fields, TunnelF, Quiet, ShutC, ShutO, Blind, t

-----------------------------------------------------------------------------
(* Steps that leave the invariant, and try_blind_tunnel.                   *)

\* The states of the machine the invariant is about, beside the shut ones.
Marks == {"org_recv_start", "org_recv_conn", "org_send_start", "org_send_conn",
          "org_recv_paused", "org_recv_eof", "cln_recv_eof"}

\* A good connection that is connected.
LEMMA GoodOnline ==
    ASSUME NEW s, Good(s), Up(s.sm)
    PROVE  Online(s)
  BY DEF Good, Steps, Online, Up

\* A step elsewhere shuts no direction.
LEMMA QuietKept ==
    ASSUME NEW s, NEW t, NEW X, NEW F, Does(s, t, X, F),
           X \cap (ClnEndX \cup OrgEndX) = {}
    PROVE  Quiet(s, t)
  BY DEF Quiet, Does, Only, ShutC, ShutO, ClnEndX, OrgEndX

\* A step that leaves what the invariant is about.
LEMMA GoodKept ==
    ASSUME NEW s, Good(s), Up(s.sm), NEW t, NEW X, NEW F, Does(s, t, X, F),
           X \cap Marks = {}, F \subseteq {"flags"},
           \/ t.flags = s.flags
           \/ /\ s.csm \in Waiting
              /\ t.flags = (s.flags \ {"bpctrl_added"}) \cup {"pend_tunnel"},
           Quiet(s, t)
    PROVE  Good(t) /\ Online(t)
<1>1. /\ t.csm = s.csm /\ t.cache_op = s.cache_op /\ t.trans = s.trans
      /\ t.strm = s.strm /\ t.tunnel = s.tunnel /\ t.obj_at = s.obj_at
      /\ t.obj_len = s.obj_len /\ t.cache_offs = s.cache_offs
      /\ t.origin_recv = s.origin_recv /\ t.origin_rdr = s.origin_rdr
      /\ t.org_cache_rdr = s.org_cache_rdr /\ t.client_rdr = s.client_rdr
      /\ t.client_recv = s.client_recv /\ t.cln_script = s.cln_script
      /\ t.wrote = s.wrote /\ t.writing = s.writing /\ t.handle = s.handle
  BY DEF Does, Keep, Fields
<1>2. \A x \in Marks : x \in t.sm <=> x \in s.sm
  BY DEF Does, Only
<1>3. Mach(t) /\ Up(t.sm)
  BY <1>2 DEF Does, Up, Marks
<1>4. Steps(t)
  BY <1>1, <1>2, <1>3 DEF Good, Steps, Quiet, Marks
<1>5. Served(t)
  BY <1>1 DEF Good, Served
<1>6. t.tunnel => /\ t.cache_op = "none" /\ t.wrote = <<>> /\ t.csm = "cache_closed"
                  /\ t.client_rdr = 0 /\ t.origin_rdr = 0
  BY <1>1 DEF Good
<1>7. ASSUME ~t.tunnel
      PROVE  Hand(t)
  <2>1. Hand(s)
    BY <1>1, <1>7 DEF Good
  <2>2. OpFits(t)
    BY <1>1, <2>1 DEF Hand, OpFits
  <2>3. Paused(t)
    BY <1>1, <1>2, <2>1 DEF Hand, Paused, Marks
  <2>4. Cached(t)
    BY <1>1, <1>2, <2>1 DEF Hand, Cached, Marks
  <2>5. Asked(t)
    BY <1>1, <1>2, <2>1 DEF Hand, Asked, Marks
  <2>6. Place(t)
    BY <1>1, <2>1 DEF Hand, Place
  <2>7. Bytes(t)
    <3>1. s.csm = "cache_idle_wr" => t.flags = s.flags
      BY DEF Waiting
    <3> QED
      BY <1>1, <2>1, <3>1 DEF Hand, Bytes, Wrote
  <2>8. Entry(t)
    BY <1>1, <1>2, <2>1 DEF Hand, Entry, Marks
  <2>9. Waits(t)
    BY <1>1, <2>1 DEF Hand, Waits
  <2>10. Ledger(t)
    <3>1. ToOrigin(t) = ToOrigin(s) /\ ToClient(t) = ToClient(s)
      BY DEF Does, Keep, Fields, ToOrigin, ToClient
    <3> QED
      BY <1>1, <1>2, <2>1, <3>1 DEF Hand, Ledger, Marks
  <2> QED
    BY <2>2, <2>3, <2>4, <2>5, <2>6, <2>7, <2>8, <2>9, <2>10 DEF Hand
<1>8. Good(t)
  BY <1>3, <1>4, <1>5, <1>6, <1>7 DEF Good
<1> QED
  BY <1>3, <1>8, GoodOnline

\* What a method of the handler leaves: the connection is sound, nothing has
\* been received and the streams' ends are as they were.
Left(s, t) == /\ Good(t) /\ Online(t) /\ t.bug = s.bug
              /\ t.origin_recv = s.origin_recv

\* In a state without an operation of the cache the tunnel starts at once.
LEMMA TunnelNow ==
    ASSUME NEW s, Online(s), Steps(s), Served(s), s.csm \notin Waiting,
           s.cache_op = "none"
    PROVE  LET t == TryBlindTunnel(s) IN
           /\ Does(s, t, TunnelX, TunnelF) /\ Left(s, t) /\ t.tunnel
           /\ Quiet(s, t)
<1> DEFINE t == TryBlindTunnel(s)
<1>1. s.csm \in Csms
  BY DEF Online, Mach, Conns
<1>2. s.csm \in {"cache_read", "wait_body_data", "cache_closed"} \/ s.csm = "cache_idle_wr"
  BY <1>1 DEF Csms, Waiting
<1>3. Does(s, t, TunnelX, TunnelF) /\ Quiet(s, t) /\ t.tunnel
      /\ Blind(t) /\ t.csm = "cache_closed"
  BY <1>2, TunnelStartsDoes, TunnelIdleDoes DEF TryBlindTunnel, Online, Blind
<1> HIDE DEF t
<1>4. Online(t)
  BY <1>3, OnlineKept
<1>5. /\ t.cache_op = s.cache_op /\ t.strm = s.strm /\ t.obj_at = s.obj_at
      /\ t.obj_len = s.obj_len /\ t.cache_offs = s.cache_offs
      /\ t.origin_recv = s.origin_recv
  BY <1>3 DEF Does, Keep, Fields, TunnelF
<1>6. \A x \in {"org_recv_eof", "cln_recv_eof"} : x \in t.sm <=> x \in s.sm
  BY <1>3 DEF Does, Only, TunnelX, LegsX, ClnEndX, OrgEndX
<1>7. Steps(t)
  BY <1>3, <1>4, <1>6 DEF Steps, Quiet, Online, Up
<1>8. Served(t)
  BY <1>5 DEF Served
<1>9. Good(t)
  BY <1>3, <1>4, <1>5, <1>7, <1>8 DEF Good, Online, Blind
<1> QED
  BY <1>3, <1>4, <1>5, <1>9 DEF Left, Does, t

\* In the others it waits for the operation.
LEMMA TunnelLater ==
    ASSUME NEW s, Good(s), Up(s.sm), s.csm \in Waiting
    PROVE  LET t == TryBlindTunnel(s) IN
           /\ Does(s, t, {}, {"flags"}) /\ Left(s, t) /\ Quiet(s, t)
<1> DEFINE t == TryBlindTunnel(s)
<1>1. Does(s, t, {}, {"flags", "csm"}) /\ t.csm = s.csm
      /\ t.flags = (s.flags \ {"bpctrl_added"}) \cup {"pend_tunnel"}
  BY TunnelWaitingDoes DEF TryBlindTunnel, Good
<1> HIDE DEF t
<1>2. Does(s, t, {}, {"flags"})
  BY <1>1 DEF Does, Keep, Fields
<1>3. Quiet(s, t)
  BY <1>2, QuietKept
<1>4. Good(t) /\ Online(t)
  BY <1>1, <1>2, <1>3, GoodKept DEF Waiting
<1> QED
  BY <1>2, <1>3, <1>4 DEF Left, Does, Keep, Fields, t

\* try_blind_tunnel, in every state of the handler.
LEMMA GoodTunnels ==
    ASSUME NEW s, Good(s), Up(s.sm), ~s.tunnel
    PROVE  LET t == TryBlindTunnel(s) IN
           /\ Does(s, t, TunnelX, TunnelF) /\ Left(s, t) /\ Quiet(s, t)
           /\ t.tunnel \/ (s.csm \in Waiting /\ Does(s, t, {}, {"flags"}))
<1> DEFINE t == TryBlindTunnel(s)
<1>1. CASE s.csm \in Waiting
  <2>1. Does(s, t, {}, {"flags"}) /\ Left(s, t) /\ Quiet(s, t)
    BY <1>1, TunnelLater
  <2> HIDE DEF t
  <2>2. Does(s, t, TunnelX, TunnelF)
    BY <2>1 DEF Does, Only, Keep, TunnelF
  <2> QED
    BY <1>1, <2>1, <2>2 DEF t
<1>2. CASE s.csm \notin Waiting
  <2>1. s.csm \in Csms
    BY DEF Good, Mach, Conns
  <2>2. s.cache_op = "none"
    BY <1>2, <2>1 DEF Good, Hand, OpFits, Waiting, Csms
  <2>3. Online(s)
    BY GoodOnline
  <2> QED
    BY <1>2, <2>2, <2>3, TunnelNow DEF Good
<1> QED
  BY <1>1, <1>2
=============================================================================
